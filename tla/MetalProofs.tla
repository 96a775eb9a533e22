----------------------------- MODULE MetalProofs ----------------------------
(***************************************************************************)
(* The reference counts of MetalObjects are exact for every set of          *)
(* allocations, any nesting of pools and any number of references: the       *)
(* inductive invariant, its proof, and what follows from it. Then what the   *)
(* counts give the raw pointers of MetalEncoding: an encoder in use has its  *)
(* pass, the queued work points at nothing but what the client handed over,  *)
(* and so a commit reads live resources when the client kept them.           *)
(***************************************************************************)
EXTENDS MetalEncoding, FiniteSetTheorems, TLAPS

\* The autorelease stack is finite, names no view and no pool, and numbers the
\* entries of an object in a scope from 0 up: a new entry is never there yet.
PooledOK ==
    /\ IsFiniteSet(pooled)
    /\ \A x \in pooled : /\ x[2] \in Counted \ Pools
                         /\ x[3] < Cardinality(EntriesIn(x[1], x[2]))

\* A live object has a holder, and its count is the number of its holders.
CountsOK == \A o \in alive \cap Counted : rc[o] = Holds(o) /\ rc[o] > 0

\* Nobody refers to what is not allocated.
DeadOK ==
    \A o \in Obj \ alive :
        own[o] = 0 /\ stray[o] = 0 /\ Entries(o) = {} /\ Retainers(o) = {}

\* Only descriptors are retained as a pass, by what is allocated, and the client
\* holds no view.
LinksOK ==
    /\ pass \in [Obj -> Descriptors \cup {None}]
    /\ \A o \in Obj \ alive : pass[o] = None
    /\ \A v \in Views : own[v] = 0 /\ stray[v] = 0

\* A pool is held by the client alone, once, and is open at most once.
PoolsOK ==
    /\ \A p \in Pools : stray[p] = 0 /\ (p \in alive => own[p] = 1)
    /\ \A i \in 1..Len(pools) : pools[i] \in Pools \cap alive
    /\ \A i, j \in 1..Len(pools) : pools[i] = pools[j] => i = j

\* The leak check counts the objects that are not views.
TrackedOK == tracked = IF LeakCheck THEN alive \cap Counted ELSE {}

IInv ==
    /\ TypeOK /\ PooledOK /\ CountsOK /\ DeadOK /\ LinksOK /\ PoolsOK
    /\ ViewsFollowOwner /\ TrackedOK

-----------------------------------------------------------------------------
(* Finiteness.                                                              *)

\* The encoders that retain a descriptor are among the finitely many objects.
LEMMA RetainersFinite ==
  ASSUME NEW p
  PROVE  IsFiniteSet(Retainers(p)) /\ Cardinality(Retainers(p)) \in Nat
<1>1. Retainers(p) \subseteq Obj  BY DEF Retainers, Obj, Counted
<1>2. IsFiniteSet(Retainers(p))  BY <1>1, ObjFinite, FS_Subset
<1> QED  BY <1>2, FS_CardinalityType

\* So are the entries of the autorelease stack, taken by object and by scope.
LEMMA EntriesFinite ==
  ASSUME IsFiniteSet(pooled), NEW o, NEW i
  PROVE  /\ IsFiniteSet(Entries(o)) /\ Cardinality(Entries(o)) \in Nat
         /\ IsFiniteSet(EntriesIn(i, o)) /\ Cardinality(EntriesIn(i, o)) \in Nat
<1>1. Entries(o) \subseteq pooled /\ EntriesIn(i, o) \subseteq pooled
  BY DEF Entries, EntriesIn
<1>2. IsFiniteSet(Entries(o)) /\ IsFiniteSet(EntriesIn(i, o))
  BY <1>1, FS_Subset
<1> QED  BY <1>2, FS_CardinalityType

\* A sum of holders is zero only if there are none.
LEMMA HoldsNat ==
  ASSUME TypeOK, PooledOK, NEW o \in Obj
  PROVE  /\ Holds(o) \in Nat
         /\ Holds(o) > 0 <=> (Held(o) \/ Retainers(o) # {})
<1>1. own[o] \in Nat /\ stray[o] \in Nat  BY DEF TypeOK
<1>2. /\ Cardinality(Entries(o)) \in Nat
      /\ Cardinality(Entries(o)) = 0 <=> Entries(o) = {}
  BY EntriesFinite, FS_EmptySet DEF PooledOK
<1>3. /\ Cardinality(Retainers(o)) \in Nat
      /\ Cardinality(Retainers(o)) = 0 <=> Retainers(o) = {}
  BY RetainersFinite, FS_EmptySet
<1> QED  BY <1>1, <1>2, <1>3 DEF Holds, Held

-----------------------------------------------------------------------------
(* Releasing.                                                               *)

\* Releasing objects of which the client and the open scopes give up as many
\* references as are dropped keeps every count exact, frees an object only with
\* its last holder, and frees the views of a descriptor with it.
LEMMA ReleasingKeeps ==
  ASSUME IInv,
         NEW drops \in [Obj -> Nat],
         \A v \in Views : drops[v] = 0,
         Releasing(drops), stray' = stray,
         own' \in [Obj -> Nat], IsFiniteSet(pooled'),
         \A o \in Obj : own'[o] + Cardinality(Entries(o)') + drops[o]
                         = own[o] + Cardinality(Entries(o))
  PROVE  /\ alive' \subseteq alive /\ born' = born
         /\ rc' \in [Obj -> Nat] /\ tracked' \subseteq Obj
         /\ pass' \in [Obj -> Obj \cup {None}] /\ owner' \in [Obj -> Obj \cup {None}]
         /\ CountsOK' /\ DeadOK' /\ LinksOK' /\ ViewsFollowOwner' /\ TrackedOK'
<1> DEFINE ended == Finished(drops)
           all == WithPasses(drops)
           gone == Finished(all)
           freed == WithViews(gone)
<1> USE DEF IInv
<1>a. alive \subseteq Obj /\ RenderEncoders \subseteq Counted /\ Views \cap Counted = {}
      /\ RenderEncoders \subseteq Obj
  BY TagsDisjoint DEF TypeOK, Obj, Counted
<1>b. \A o \in Obj : /\ Cardinality(Retainers(o) \cap ended) \in Nat
                     /\ Cardinality(Retainers(o) \cap ended) <= Cardinality(Retainers(o))
                     /\ Cardinality(Retainers(o)) \in Nat
                     /\ IsFiniteSet(Retainers(o))
  BY RetainersFinite, FS_Intersection, FS_CardinalityType
<1>c. all \in [Obj -> Nat]
      /\ \A o \in Obj : all[o] = drops[o] + Cardinality(Retainers(o) \cap ended)
  <2>1. ASSUME NEW o \in Obj
        PROVE  Cardinality({e \in Retainers(o) : e \in ended}) = Cardinality(Retainers(o) \cap ended)
    <3>1. {e \in Retainers(o) : e \in ended} = Retainers(o) \cap ended  OBVIOUS
    <3> QED  BY <3>1, Zenon
  <2>2. all = [o \in Obj |-> drops[o] + Cardinality({e \in Retainers(o) : e \in ended})]
    BY Zenon DEF WithPasses
  <2>3. all = [o \in Obj |-> drops[o] + Cardinality(Retainers(o) \cap ended)]
    BY <2>1, <2>2, Zenon
  <2> HIDE DEF all, ended
  <2> QED  BY <2>3, <1>b
<1>d. \A o \in Obj : Cardinality(Entries(o)) \in Nat /\ Cardinality(Entries(o)') \in Nat
  <2>1. ASSUME NEW o \in Obj  PROVE Cardinality(Entries(o)') \in Nat
    <3>1. Entries(o)' \subseteq pooled'  BY DEF Entries
    <3>2. IsFiniteSet(Entries(o)')  BY <3>1, FS_Subset
    <3> QED  BY <3>2, FS_CardinalityType
  <2> QED  BY <2>1, EntriesFinite DEF PooledOK
<1>e. \A o \in Obj : own[o] \in Nat /\ stray[o] \in Nat /\ own'[o] \in Nat /\ rc[o] \in Nat
  BY DEF TypeOK
<1>f. \A o \in Obj : /\ drops[o] \in Nat
                     /\ own'[o] + Cardinality(Entries(o)') + drops[o]
                          = own[o] + Cardinality(Entries(o))
  OBVIOUS
\* A view or a render encoder is nobody's pass.
<1>1. \A o \in Views \cup RenderEncoders : Retainers(o) = {}
  BY TagsDisjoint, NoneNotObj, <1>a DEF Retainers, LinksOK, Obj, Counted
<1>2. \A o \in Views \cup RenderEncoders : all[o] = drops[o]
  <2>1. ASSUME NEW o \in Views \cup RenderEncoders  PROVE all[o] = drops[o]
    <3>1. o \in Obj  BY <1>a DEF Obj
    <3>2. Cardinality(Retainers(o) \cap ended) = 0  BY <1>1, FS_EmptySet
    <3> QED  BY <3>1, <3>2, <1>c
  <2> QED  BY <2>1
\* What is not allocated is not dropped, nor are more references than there are.
<1>3. \A o \in Obj \ alive : all[o] = 0 /\ own'[o] = 0 /\ Entries(o)' = {}
  <2>1. ASSUME NEW o \in Obj \ alive
        PROVE  all[o] = 0 /\ own'[o] = 0 /\ Entries(o)' = {}
    <3>1. own[o] = 0 /\ Entries(o) = {} /\ Retainers(o) = {}  BY DEF DeadOK
    <3>2. Cardinality(Entries(o)) = 0 /\ Cardinality(Retainers(o) \cap ended) = 0
      BY <3>1, FS_EmptySet
    <3>a. \A i, j, k \in Nat : i + j + k = 0 + 0 => i = 0 /\ j = 0 /\ k = 0  OBVIOUS
    <3>b. own'[o] \in Nat /\ Cardinality(Entries(o)') \in Nat /\ drops[o] \in Nat
      BY <1>d, <1>e, <1>f, Zenon
    <3>c. own'[o] + Cardinality(Entries(o)') + drops[o] = own[o] + Cardinality(Entries(o))
      BY <1>f, Zenon
    <3>d. own'[o] + Cardinality(Entries(o)') + drops[o] = 0 + 0
      BY <3>1, <3>2, <3>c, Zenon
    <3>3. own'[o] = 0 /\ Cardinality(Entries(o)') = 0 /\ drops[o] = 0
      BY <3>a, <3>b, <3>d, ZenonT(30)
    <3>4. Entries(o)' \subseteq pooled'  BY DEF Entries
    <3>5. IsFiniteSet(Entries(o)')  BY <3>4, FS_Subset
    <3>6. Entries(o)' = {}  BY <3>3, <3>5, FS_EmptySet
    <3>7. all[o] = 0  BY <3>2, <3>3, <1>c
    <3> QED  BY <3>3, <3>6, <3>7
  <2> QED  BY <2>1
<1>4. \A o \in alive \cap Counted : all[o] <= rc[o]
  <2>1. ASSUME NEW o \in alive \cap Counted  PROVE all[o] <= rc[o]
    <3>1. o \in Obj /\ rc[o] = Holds(o)  BY <1>a DEF CountsOK
    <3>2. own'[o] + Cardinality(Entries(o)') + drops[o] = own[o] + Cardinality(Entries(o))
      BY <3>1, <1>f
    <3>3. all[o] = drops[o] + Cardinality(Retainers(o) \cap ended)  BY <3>1, <1>c
    <3>4. Cardinality(Retainers(o) \cap ended) <= Cardinality(Retainers(o))  BY <3>1, <1>b
    <3>5. Holds(o) = own[o] + stray[o] + Cardinality(Entries(o)) + Cardinality(Retainers(o))
      BY DEF Holds
    <3>6. /\ Cardinality(Retainers(o) \cap ended) \in Nat /\ Cardinality(Retainers(o)) \in Nat
          /\ Cardinality(Entries(o)) \in Nat /\ Cardinality(Entries(o)') \in Nat
          /\ own[o] \in Nat /\ own'[o] \in Nat /\ stray[o] \in Nat /\ drops[o] \in Nat
      BY <3>1, <1>b, <1>d, <1>e, <1>f
    <3> HIDE DEF all, ended
    <3> QED  BY <3>1, <3>2, <3>3, <3>4, <3>5, <3>6
  <2> QED  BY <2>1
<1>5. \A v \in Views : all[v] = 0 /\ v \notin gone
  BY <1>2 DEF Finished
<1>6. rc' \in [Obj -> Nat] /\ \A o \in Obj : rc'[o] = rc[o] - all[o]
  <2>1. rc' = [o \in Obj |-> rc[o] - all[o]]  BY DEF Releasing
  <2>2. \A o \in Obj : rc[o] - all[o] \in Nat
    BY <1>c, <1>e, <1>3, <1>4, <1>5 DEF Obj
  <2> QED  BY <2>1, <2>2
<1>7. /\ alive' = alive \ freed /\ tracked' = tracked \ gone /\ born' = born
      /\ pass' = [o \in Obj |-> IF o \in freed THEN None ELSE pass[o]]
      /\ owner' = [o \in Obj |-> IF o \in freed THEN None ELSE owner[o]]
  BY DEF Releasing
<1>8. freed \cap Counted = gone \cap Counted /\ gone \subseteq freed /\ gone \subseteq Counted
  BY <1>a, <1>5 DEF WithViews, Finished, Obj
\* The encoders that end are those destroyed, so a pass loses as many holders.
<1>9. \A o \in Obj : Retainers(o)' = Retainers(o) \ ended
  <2>1. \A e \in RenderEncoders \cap alive : e \in freed <=> e \in ended
    BY <1>2, <1>8, <1>a DEF Finished
  <2>2. \A e \in RenderEncoders \cap alive : e \notin freed => pass'[e] = pass[e]
    BY <1>7, <1>a
  <2> QED  BY <2>1, <2>2, <1>7 DEF Retainers
<1>10. \A o \in Obj : Cardinality(Retainers(o)')
                        = Cardinality(Retainers(o)) - Cardinality(Retainers(o) \cap ended)
  BY <1>9, <1>b, FS_Difference
<1>11. \A o \in alive \cap Counted : rc'[o] = Holds(o)'
  <2>1. ASSUME NEW o \in alive \cap Counted  PROVE rc'[o] = Holds(o)'
    <3>1. o \in Obj  BY <1>a
    <3>2. rc[o] = Holds(o)  BY DEF CountsOK
    <3>3. Holds(o)' = own'[o] + stray'[o] + Cardinality(Entries(o)') + Cardinality(Retainers(o)')
      BY DEF Holds
    <3>4. rc'[o] = Holds(o) - all[o]  BY <3>1, <3>2, <1>6
    <3>5. Cardinality(Retainers(o)')
            = Cardinality(Retainers(o)) - Cardinality(Retainers(o) \cap ended)
      BY <3>1, <1>10
    <3>6. all[o] = drops[o] + Cardinality(Retainers(o) \cap ended)  BY <3>1, <1>c
    <3>7. own'[o] + Cardinality(Entries(o)') + drops[o] = own[o] + Cardinality(Entries(o))
      BY <3>1, <1>f
    <3>8. Holds(o) = own[o] + stray[o] + Cardinality(Entries(o)) + Cardinality(Retainers(o))
      BY DEF Holds
    <3>9. stray'[o] = stray[o]  OBVIOUS
    <3>10. /\ Cardinality(Retainers(o) \cap ended) \in Nat /\ Cardinality(Retainers(o)) \in Nat
           /\ Cardinality(Entries(o)) \in Nat /\ Cardinality(Entries(o)') \in Nat
           /\ own[o] \in Nat /\ own'[o] \in Nat /\ stray[o] \in Nat /\ drops[o] \in Nat
      BY <3>1, <1>b, <1>d, <1>e, <1>f
    <3> HIDE DEF all, ended
    <3>11. Holds(o) - all[o] = own'[o] + stray[o] + Cardinality(Entries(o)')
                                 + Cardinality(Retainers(o)')
      BY <3>5, <3>6, <3>7, <3>8, <3>10
    <3> QED  BY <3>3, <3>4, <3>9, <3>11
  <2> QED  BY <2>1
<1>12. CountsOK'
  <2>1. ASSUME NEW o \in alive' \cap Counted  PROVE rc'[o] > 0
    <3>1. o \in alive \cap Counted /\ o \notin gone  BY <1>7, <1>8
    <3>2. all[o] = 0 \/ rc[o] > all[o]  BY <3>1, <1>a, <1>c, <1>e DEF Finished
    <3>3. rc[o] > 0  BY <3>1 DEF CountsOK
    <3> QED  BY <3>1, <3>2, <3>3, <1>a, <1>c, <1>e, <1>6
  <2> QED  BY <2>1, <1>7, <1>11 DEF CountsOK
<1>13. DeadOK'
  <2>1. ASSUME NEW o \in Obj \ alive'
        PROVE  own'[o] = 0 /\ stray'[o] = 0 /\ Entries(o)' = {} /\ Retainers(o)' = {}
    <3>1. CASE o \notin alive
      BY <3>1, <1>3, <1>9 DEF DeadOK
    <3>2. CASE o \in alive /\ o \in Views
      <4>1. own[o] = 0 /\ stray[o] = 0 /\ Entries(o) = {}
        BY <3>2, <1>a DEF LinksOK, PooledOK, Entries
      <4>2. Cardinality(Entries(o)) = 0  BY <4>1, FS_EmptySet
      <4>3. own'[o] = 0 /\ Cardinality(Entries(o)') = 0
      <5>1. /\ drops[o] = 0 /\ own'[o] \in Nat /\ Cardinality(Entries(o)') \in Nat
            /\ own'[o] + Cardinality(Entries(o)') + drops[o] = own[o] + Cardinality(Entries(o))
        BY <3>2, <1>d, <1>e, <1>f
      <5> QED  BY <5>1, <4>1, <4>2
      <4>4. Entries(o)' \subseteq pooled'  BY DEF Entries
      <4>5. IsFiniteSet(Entries(o)')  BY <4>4, FS_Subset
      <4>6. Entries(o)' = {}  BY <4>3, <4>5, FS_EmptySet
      <4> QED  BY <4>1, <4>3, <4>6, <3>2, <1>1, <1>9
    <3>3. CASE o \in alive /\ o \in Counted
      <4>1. o \in gone  BY <3>3, <1>7, <1>8
      <4>2. rc'[o] = 0  BY <4>1, <3>3, <1>a, <1>c, <1>e, <1>4, <1>6 DEF Finished
      <4>3. Holds(o)' = 0  BY <4>2, <3>3, <1>11
      <4>4. Entries(o)' \subseteq pooled' /\ Retainers(o)' \subseteq Retainers(o)
        BY <1>9 DEF Entries
      <4>5. IsFiniteSet(Entries(o)') /\ IsFiniteSet(Retainers(o)')
        BY <4>4, <1>b, FS_Subset
      <4>6. Cardinality(Entries(o)') \in Nat /\ Cardinality(Retainers(o)') \in Nat
        BY <4>5, FS_CardinalityType
      <4>7. own'[o] = 0 /\ stray'[o] = 0 /\ Cardinality(Entries(o)') = 0
            /\ Cardinality(Retainers(o)') = 0
        BY <4>3, <4>6, <1>e DEF Holds
      <4> QED  BY <4>5, <4>7, FS_EmptySet
    <3> QED  BY <3>1, <3>2, <3>3 DEF Obj
  <2> QED  BY <2>1 DEF DeadOK
<1>14. LinksOK'
  <2>1. pass' \in [Obj -> Descriptors \cup {None}]  BY <1>7 DEF LinksOK
  <2>2. ASSUME NEW v \in Views  PROVE own'[v] = 0 /\ stray'[v] = 0
    <3>1. v \in Obj /\ own[v] = 0 /\ stray[v] = 0 /\ Entries(v) = {}
      BY <1>a DEF LinksOK, PooledOK, Entries, Obj
    <3>2. Cardinality(Entries(v)) = 0  BY <3>1, FS_EmptySet
    <3>3. own'[v] + Cardinality(Entries(v)') + drops[v] = 0  BY <3>1, <3>2, <1>f
    <3> QED  BY <3>1, <3>3, <1>d, <1>e
  <2>3. \A o \in Obj \ alive' : pass'[o] = None  BY <1>7 DEF LinksOK
  <2> QED  BY <2>1, <2>2, <2>3 DEF LinksOK
<1>15. ViewsFollowOwner'
  <2>1. ASSUME NEW v \in alive' \cap Views
        PROVE  owner'[v] \in alive' \cap (IF v \in Colors THEN ColorArrays ELSE Descriptors)
    <3>1. v \in alive \cap Views /\ v \notin freed /\ v \in Obj  BY <1>7 DEF Obj
    <3>2. owner'[v] = owner[v]  BY <3>1, <1>7
    <3>3. owner[v] \in alive \cap (IF v \in Colors THEN ColorArrays ELSE Descriptors)
      BY <3>1 DEF ViewsFollowOwner
    <3>4. Root(v) \notin gone  BY <3>1 DEF WithViews
    <3>5. CASE v \in Colors
      <4>1. owner[v] \in Views /\ owner[v] \notin Colors /\ owner[v] \in alive
        BY <3>3, <3>5, TagsDisjoint DEF Views
      <4>2. Root(owner[v]) \notin gone  BY <3>4, <3>5, <4>1 DEF Root
      <4>3. owner[v] \notin freed  BY <4>1, <4>2, <1>5 DEF WithViews
      <4> QED  BY <4>3, <3>2, <3>3, <1>7
    <3>6. CASE v \notin Colors
      <4>1. owner[v] \in Counted /\ owner[v] \notin gone
        BY <3>3, <3>4, <3>6 DEF Root, Counted
      <4> QED  BY <4>1, <3>2, <3>3, <3>6, <1>7, <1>8
    <3> QED  BY <3>5, <3>6
  <2> QED  BY <2>1 DEF ViewsFollowOwner
<1>16. TrackedOK'
  BY <1>7, <1>8 DEF TrackedOK
<1>17. /\ tracked' \subseteq Obj /\ pass' \in [Obj -> Obj \cup {None}]
       /\ owner' \in [Obj -> Obj \cup {None}] /\ alive' \subseteq alive
  BY <1>7 DEF TypeOK
<1> QED  BY <1>6, <1>7, <1>12, <1>13, <1>14, <1>15, <1>16, <1>17
-----------------------------------------------------------------------------
(* Making and autoreleasing.                                                *)

\* One more entry for o in the innermost scope, or one more lost reference, and
\* nothing changes for any other object.
LEMMA AutoreleasingAdds ==
  ASSUME TypeOK, PooledOK, NEW o \in Counted \ Pools, Autoreleasing(o)
  PROVE  /\ scopes' = scopes /\ pooled' \subseteq (1..scopes) \X Obj \X Nat
         /\ stray' \in [Obj -> Nat] /\ PooledOK'
         /\ \A x \in Obj : x # o => Entries(x)' = Entries(x) /\ stray'[x] = stray[x]
         /\ stray'[o] + Cardinality(Entries(o)') = stray[o] + Cardinality(Entries(o)) + 1
<1> DEFINE n == Cardinality(EntriesIn(scopes, o))
           entry == <<scopes, o, n>>
<1>a. o \in Obj /\ stray[o] \in Nat /\ scopes' = scopes /\ scopes \in Nat
  BY DEF TypeOK, Obj, Autoreleasing
<1>b. /\ Cardinality(Entries(o)) \in Nat /\ n \in Nat /\ IsFiniteSet(Entries(o))
      /\ IsFiniteSet(EntriesIn(scopes, o))
  BY EntriesFinite DEF PooledOK
<1>1. CASE scopes = 0
  <2>1. pooled' = pooled /\ stray' = [stray EXCEPT ![o] = @ + 1]
    BY <1>1 DEF Autoreleasing
  <2>2. stray' \in [Obj -> Nat] /\ stray'[o] = stray[o] + 1
        /\ \A x \in Obj : x # o => stray'[x] = stray[x]
    BY <2>1, <1>a DEF TypeOK
  <2>3. \A x : Entries(x)' = Entries(x)  BY <2>1 DEF Entries
  <2>4. PooledOK'  BY <2>1 DEF PooledOK, EntriesIn, Entries
  <2>5. Cardinality(Entries(o)') = Cardinality(Entries(o))  BY <2>3
  <2>6. stray'[o] + Cardinality(Entries(o)') = stray[o] + Cardinality(Entries(o)) + 1
    BY <2>2, <2>5, <1>a, <1>b
  <2>7. pooled' \subseteq (1..scopes) \X Obj \X Nat  BY <2>1 DEF TypeOK
  <2> HIDE DEF n, entry
  <2> QED  BY <2>2, <2>3, <2>4, <2>6, <2>7, <1>a
<1>2. CASE scopes # 0
  <2>1. pooled' = pooled \cup {entry} /\ stray' = stray
    BY <1>2 DEF Autoreleasing
  <2>2. entry \notin pooled
    <3>1. SUFFICES ASSUME entry \in pooled PROVE FALSE  OBVIOUS
    <3>2. entry[1] = scopes /\ entry[2] = o /\ entry[3] = n  OBVIOUS
    <3>3. n < n  BY <3>1, <3>2 DEF PooledOK
    <3> QED  BY <3>3, <1>b
  <2>3. Entries(o)' = Entries(o) \cup {entry} /\ entry \notin Entries(o)
    BY <2>1, <2>2 DEF Entries
  <2>4. Cardinality(Entries(o)') = Cardinality(Entries(o)) + 1
    BY <2>3, <1>b, FS_AddElement
  <2>5. \A x \in Obj : x # o => Entries(x)' = Entries(x)
    BY <2>1 DEF Entries
  <2>6. IsFiniteSet(pooled')  BY <2>1, FS_AddElement DEF PooledOK
  <2>7. EntriesIn(scopes, o)' = EntriesIn(scopes, o) \cup {entry}
        /\ entry \notin EntriesIn(scopes, o)
    BY <2>3, <1>a DEF EntriesIn
  <2>8. Cardinality(EntriesIn(scopes, o)') = n + 1
    BY <2>7, <1>b, FS_AddElement
  <2>9. \A i, x : <<i, x>> # <<scopes, o>> => EntriesIn(i, x)' = EntriesIn(i, x)
    BY <2>1 DEF EntriesIn, Entries
  <2>10. ASSUME NEW x \in pooled'
         PROVE  x[2] \in Counted \ Pools /\ x[3] < Cardinality(EntriesIn(x[1], x[2])')
    <3>1. CASE x = entry
      BY <3>1, <2>8, <1>a, <1>b
    <3>2. CASE x # entry
      <4>1. x \in pooled /\ x[2] \in Counted \ Pools /\ x[3] \in Nat
            /\ x[3] < Cardinality(EntriesIn(x[1], x[2]))
        BY <3>2, <2>1 DEF PooledOK, TypeOK
      <4>2. CASE x[1] = scopes /\ x[2] = o
        BY <4>1, <4>2, <2>8, <1>a, <1>b
      <4>3. CASE ~(x[1] = scopes /\ x[2] = o)
        BY <4>1, <4>3, <2>9
      <4> QED  BY <4>2, <4>3
    <3> QED  BY <3>1, <3>2
  <2>11. PooledOK'  BY <2>6, <2>10 DEF PooledOK
  <2>12. pooled' \subseteq (1..scopes) \X Obj \X Nat
    BY <2>1, <1>2, <1>a, <1>b DEF TypeOK
  <2>13. stray' \in [Obj -> Nat] /\ \A x \in Obj : stray'[x] = stray[x]
    BY <2>1 DEF TypeOK
  <2>14. stray'[o] + Cardinality(Entries(o)') = stray[o] + Cardinality(Entries(o)) + 1
    BY <2>4, <2>13, <1>a, <1>b
  <2> HIDE DEF n, entry
  <2> QED  BY <2>5, <2>11, <2>12, <2>13, <2>14, <1>a
<1> QED  BY <1>1, <1>2

\* A name not used before has no holder, and is tracked if it is counted.
LEMMA MakeFresh ==
  ASSUME IInv, NEW o \in Obj, Make(o)
  PROVE  /\ o \notin alive /\ alive' = alive \cup {o} /\ born' = born \cup {o}
         /\ own[o] = 0 /\ stray[o] = 0 /\ Entries(o) = {} /\ Cardinality(Entries(o)) = 0
         /\ Retainers(o) = {} /\ Cardinality(Retainers(o)) = 0 /\ pass[o] = None
         /\ TrackedOK' /\ tracked' \subseteq Obj
         /\ alive' \subseteq born' /\ born' \subseteq Obj
<1>1. o \notin alive /\ alive' = alive \cup {o} /\ born' = born \cup {o}
  BY DEF Make, IInv, TypeOK
<1>2. own[o] = 0 /\ stray[o] = 0 /\ Entries(o) = {} /\ Retainers(o) = {} /\ pass[o] = None
  BY <1>1 DEF IInv, DeadOK, LinksOK
<1>3. TrackedOK' /\ tracked' \subseteq Obj
  <2>1. tracked' = IF LeakCheck /\ o \notin Views THEN tracked \cup {o} ELSE tracked
    BY DEF Make
  <2>2. tracked = (IF LeakCheck THEN alive \cap Counted ELSE {}) /\ tracked \subseteq Obj
    BY DEF IInv, TrackedOK, TypeOK
  <2>3. o \in Views \/ (o \in Counted /\ o \notin Views)  BY TagsDisjoint DEF Obj
  <2>4. CASE LeakCheck
    BY <2>1, <2>2, <2>3, <2>4, <1>1, TagsDisjoint DEF TrackedOK
  <2>5. CASE ~LeakCheck
    BY <2>1, <2>2, <2>5 DEF TrackedOK
  <2> QED  BY <2>4, <2>5, LeakCheckType
<1>4. alive' \subseteq born' /\ born' \subseteq Obj
  BY <1>1 DEF IInv, TypeOK
<1> QED  BY <1>1, <1>2, <1>3, <1>4, FS_EmptySet

\* While nothing is freed, a view keeps its owner.
LEMMA ViewsKept ==
  ASSUME ViewsFollowOwner, alive \subseteq alive', alive' \cap Views = alive \cap Views,
         owner' = owner
  PROVE  ViewsFollowOwner'
BY DEF ViewsFollowOwner
\* A new object retains nothing while its pass field is null.
LEMMA RetainersKept ==
  ASSUME NEW o \in Obj, alive' = alive \cup {o}, pass' = pass, pass[o] = None
  PROVE  \A x \in Obj : Retainers(x)' = Retainers(x)
BY NoneNotObj DEF Retainers

\* alloc and the new* calls: the client is the one holder of the new object.
LEMMA OwnedKeeps ==
  ASSUME IInv, NEW o \in Counted, Owned(o)
  PROVE  IInv'
<1>a. o \in Obj /\ Make(o) /\ rc' = [rc EXCEPT ![o] = 1] /\ own' = [own EXCEPT ![o] = 1]
      /\ UNCHANGED <<scopes, pooled, pass, owner, stray, pools>>
  BY DEF Owned, Obj
<1>b. /\ o \notin alive /\ alive' = alive \cup {o} /\ born' = born \cup {o}
      /\ own[o] = 0 /\ stray[o] = 0 /\ Entries(o) = {} /\ Cardinality(Entries(o)) = 0
      /\ Retainers(o) = {} /\ Cardinality(Retainers(o)) = 0 /\ pass[o] = None
      /\ TrackedOK' /\ tracked' \subseteq Obj /\ alive' \subseteq born' /\ born' \subseteq Obj
  BY <1>a, MakeFresh
<1>1. TypeOK'
  BY <1>a, <1>b DEF IInv, TypeOK
<1>2. \A x \in Obj : Retainers(x)' = Retainers(x) /\ Entries(x)' = Entries(x)
  BY <1>a, <1>b, RetainersKept DEF Entries
<1>3. PooledOK'
  BY <1>a DEF IInv, PooledOK, EntriesIn, Entries
<1>4. CountsOK'
  <2>1. ASSUME NEW x \in alive' \cap Counted
        PROVE  rc'[x] = Holds(x)' /\ rc'[x] > 0
    <3>1. x \in Obj  BY <1>b
    <3>2. /\ Cardinality(Entries(x)') = Cardinality(Entries(x))
          /\ Cardinality(Retainers(x)') = Cardinality(Retainers(x))
      BY <3>1, <1>2
    <3>3. Holds(x)' = own'[x] + stray[x] + Cardinality(Entries(x)) + Cardinality(Retainers(x))
      BY <3>2, <1>a DEF Holds
    <3>4. CASE x = o
      BY <3>1, <3>3, <3>4, <1>a, <1>b DEF IInv, TypeOK
    <3>5. CASE x # o
      <4>1. x \in alive /\ rc'[x] = rc[x] /\ own'[x] = own[x]
        BY <3>1, <3>5, <1>a, <1>b DEF IInv, TypeOK
      <4>2. rc[x] = Holds(x) /\ rc[x] > 0  BY <4>1 DEF IInv, CountsOK
      <4> QED  BY <4>1, <4>2, <3>3 DEF Holds
    <3> QED  BY <3>4, <3>5
  <2> QED  BY <2>1 DEF CountsOK
<1>5. DeadOK'
  BY <1>a, <1>b, <1>2 DEF IInv, TypeOK, DeadOK
<1>6. LinksOK'
  <2>1. \A v \in Views : v # o /\ v \in Obj  BY TagsDisjoint DEF Obj
  <2> QED  BY <2>1, <1>a, <1>b DEF IInv, TypeOK, LinksOK
<1>7. PoolsOK'
  <2>1. Pools \subseteq Obj  BY DEF Obj, Counted
  <2> QED  BY <2>1, <1>a, <1>b DEF IInv, TypeOK, PoolsOK
<1>8. ViewsFollowOwner'
  <2>1. alive' \cap Views = alive \cap Views  BY <1>b, TagsDisjoint
  <2> QED  BY <2>1, <1>a, <1>b, ViewsKept DEF IInv
<1> QED  BY <1>1, <1>3, <1>4, <1>5, <1>6, <1>7, <1>8, <1>b DEF IInv

\* The autoreleased returns: the innermost scope is the one holder, and the render
\* encoder is one more holder of the pass it was given.
LEMMA GivenKeeps ==
  ASSUME IInv, NEW o \in Counted \ Pools, Given(o), NEW p \in Descriptors \cup {None},
         p # None => p \in alive /\ o \in RenderEncoders,
         pass' = [pass EXCEPT ![o] = p],
         rc' = [x \in Obj |-> IF x = o THEN 1 ELSE IF x = p THEN rc[p] + 1 ELSE rc[x]]
  PROVE  IInv'
<1>a. o \in Obj /\ Make(o) /\ Autoreleasing(o) /\ UNCHANGED <<owner, own, pools>>
      /\ Descriptors \subseteq Counted /\ Descriptors \subseteq Obj
  BY DEF Given, Obj, Counted
<1>b. /\ o \notin alive /\ alive' = alive \cup {o} /\ born' = born \cup {o}
      /\ own[o] = 0 /\ stray[o] = 0 /\ Entries(o) = {} /\ Cardinality(Entries(o)) = 0
      /\ Retainers(o) = {} /\ Cardinality(Retainers(o)) = 0 /\ pass[o] = None
      /\ TrackedOK' /\ tracked' \subseteq Obj /\ alive' \subseteq born' /\ born' \subseteq Obj
  BY <1>a, MakeFresh
<1>c. /\ scopes' = scopes /\ pooled' \subseteq (1..scopes) \X Obj \X Nat
      /\ stray' \in [Obj -> Nat] /\ PooledOK'
      /\ \A x \in Obj : x # o => Entries(x)' = Entries(x) /\ stray'[x] = stray[x]
      /\ stray'[o] + Cardinality(Entries(o)') = stray[o] + Cardinality(Entries(o)) + 1
  BY <1>a, AutoreleasingAdds DEF IInv
<1>1. TypeOK'
  <2>1. rc' \in [Obj -> Nat] /\ pass' \in [Obj -> Obj \cup {None}]
    BY <1>a DEF IInv, TypeOK
  <2> QED  BY <2>1, <1>a, <1>b, <1>c DEF IInv, TypeOK
<1>2. \A x \in Obj : x # p => Retainers(x)' = Retainers(x)
  BY <1>a, <1>b, NoneNotObj DEF Retainers, IInv, TypeOK
<1>3. p # None => /\ Retainers(p)' = Retainers(p) \cup {o} /\ o \notin Retainers(p)
                  /\ Cardinality(Retainers(p)') = Cardinality(Retainers(p)) + 1
  <2>1. SUFFICES ASSUME p # None
                 PROVE  /\ Retainers(p)' = Retainers(p) \cup {o} /\ o \notin Retainers(p)
                        /\ Cardinality(Retainers(p)') = Cardinality(Retainers(p)) + 1
    OBVIOUS
  <2>2. Retainers(p)' = Retainers(p) \cup {o} /\ o \notin Retainers(p)
    BY <2>1, <1>a, <1>b, NoneNotObj DEF Retainers, IInv, TypeOK
  <2> QED  BY <2>2, RetainersFinite, FS_AddElement
<1>4. CountsOK'
  <2>1. ASSUME NEW x \in alive' \cap Counted
        PROVE  rc'[x] = Holds(x)' /\ rc'[x] > 0
    <3>1. x \in Obj  BY <1>b
    <3>2. Holds(x)' = own[x] + stray'[x] + Cardinality(Entries(x)') + Cardinality(Retainers(x)')
      BY <1>a DEF Holds
    <3>3. Cardinality(Entries(x)) \in Nat /\ Cardinality(Retainers(x)) \in Nat
          /\ own[x] \in Nat /\ stray[x] \in Nat /\ rc[x] \in Nat
      BY <3>1, EntriesFinite, RetainersFinite DEF IInv, PooledOK, TypeOK
    <3>4. CASE x = o
      <4>1. x # p  BY <3>4, <1>a, <1>b, NoneNotObj
      <4>2. Cardinality(Retainers(x)') = 0  BY <4>1, <3>1, <3>4, <1>2, <1>b
      <4>3. stray'[o] + Cardinality(Entries(o)') = 1  BY <1>b, <1>c
      <4>4. Cardinality(Entries(o)') \in Nat
        <5>1. IsFiniteSet(pooled') /\ Entries(o)' \subseteq pooled'
          BY <1>c DEF PooledOK, Entries
        <5>2. IsFiniteSet(Entries(o)')  BY <5>1, FS_Subset
        <5> QED  BY <5>2, FS_CardinalityType
      <4>5. stray'[o] \in Nat  BY <1>a, <1>c
      <4> QED  BY <3>1, <3>2, <3>4, <4>2, <4>3, <4>4, <4>5, <1>b
    <3>5. CASE x # o
      <4>1. x \in alive  BY <3>5, <1>b
      <4>2. rc[x] = Holds(x) /\ rc[x] > 0  BY <4>1 DEF IInv, CountsOK
      <4>3. stray'[x] = stray[x] /\ Cardinality(Entries(x)') = Cardinality(Entries(x))
        BY <3>1, <3>5, <1>c
      <4>4. CASE x = p
        <5>1. Cardinality(Retainers(x)') = Cardinality(Retainers(x)) + 1
          BY <4>4, <3>1, <1>3, NoneNotObj
        <5>2. rc'[x] = rc[x] + 1  BY <3>1, <3>5, <4>4
        <5>3. Holds(x) + 1 = own[x] + stray[x] + Cardinality(Entries(x))
                               + (Cardinality(Retainers(x)) + 1)
          BY <3>3 DEF Holds
        <5>4. Holds(x)' = Holds(x) + 1  BY <5>1, <5>3, <4>3, <3>2
        <5> QED  BY <5>2, <5>4, <4>2, <3>3
      <4>5. CASE x # p
        <5>1. Cardinality(Retainers(x)') = Cardinality(Retainers(x))
          BY <4>5, <3>1, <1>2
        <5>2. rc'[x] = rc[x]  BY <3>1, <3>5, <4>5
        <5> QED  BY <5>1, <5>2, <4>2, <4>3, <3>2, <3>3 DEF Holds
      <4> QED  BY <4>4, <4>5
    <3> QED  BY <3>4, <3>5
  <2> QED  BY <2>1 DEF CountsOK
<1>5. DeadOK'
  <2>1. ASSUME NEW x \in Obj \ alive'
        PROVE  own'[x] = 0 /\ stray'[x] = 0 /\ Entries(x)' = {} /\ Retainers(x)' = {}
    <3>1. x # o /\ x \in Obj \ alive  BY <1>b
    <3>2. x # p  BY <3>1, NoneNotObj
    <3> QED  BY <3>1, <3>2, <1>a, <1>c, <1>2 DEF IInv, DeadOK
  <2> QED  BY <2>1 DEF DeadOK
<1>6. LinksOK'
  <2>1. \A v \in Views : v # o /\ v \in Obj  BY TagsDisjoint DEF Obj
  <2>2. \A v \in Views : own'[v] = 0 /\ stray'[v] = 0
    BY <2>1, <1>a, <1>c DEF IInv, LinksOK
  <2>3. pass' \in [Obj -> Descriptors \cup {None}] /\ \A x \in Obj \ alive' : pass'[x] = None
    BY <1>a, <1>b DEF IInv, LinksOK
  <2> QED  BY <2>2, <2>3 DEF LinksOK
<1>7. PoolsOK'
  <2>1. \A q \in Pools : q # o /\ q \in Obj  BY DEF Obj, Counted
  <2> QED  BY <2>1, <1>a, <1>b, <1>c DEF IInv, PoolsOK
<1>8. ViewsFollowOwner'
  <2>1. alive' \cap Views = alive \cap Views  BY <1>b, TagsDisjoint
  <2> QED  BY <2>1, <1>a, <1>b, ViewsKept DEF IInv
<1> QED  BY <1>1, <1>4, <1>5, <1>6, <1>7, <1>8, <1>b, <1>c DEF IInv
\* A new view has a live owner and no counted holder.
LEMMA NewViewKeeps ==
  ASSUME IInv, NEW v \in Views, NEW p \in (IF v \in Colors THEN ColorArrays ELSE Descriptors),
         NewView(v, p)
  PROVE  IInv'
<1>a. v \in Obj /\ v \notin Counted /\ p \in Obj /\ p \in alive /\ Make(v)
      /\ rc' = [rc EXCEPT ![v] = 1] /\ owner' = [owner EXCEPT ![v] = p]
      /\ UNCHANGED <<scopes, pooled, pass, own, stray, pools>>
  BY TagsDisjoint DEF NewView, Born, Usable, Obj, Counted, Views
<1>b. /\ v \notin alive /\ alive' = alive \cup {v} /\ born' = born \cup {v}
      /\ own[v] = 0 /\ stray[v] = 0 /\ Entries(v) = {} /\ Cardinality(Entries(v)) = 0
      /\ Retainers(v) = {} /\ Cardinality(Retainers(v)) = 0 /\ pass[v] = None
      /\ TrackedOK' /\ tracked' \subseteq Obj /\ alive' \subseteq born' /\ born' \subseteq Obj
  BY <1>a, MakeFresh
<1>1. TypeOK'
  BY <1>a, <1>b DEF IInv, TypeOK
<1>2. \A x \in Obj : Retainers(x)' = Retainers(x) /\ Entries(x)' = Entries(x)
  BY <1>a, <1>b, RetainersKept DEF Entries
<1>3. PooledOK'
  BY <1>a DEF IInv, PooledOK, EntriesIn, Entries
<1>4. CountsOK'
  <2>1. ASSUME NEW x \in alive' \cap Counted
        PROVE  rc'[x] = Holds(x)' /\ rc'[x] > 0
    <3>1. x \in Obj /\ x # v /\ x \in alive  BY <1>a, <1>b
    <3>2. Holds(x)' = Holds(x)  BY <3>1, <1>a, <1>2 DEF Holds
    <3>3. rc'[x] = rc[x]  BY <3>1, <1>a DEF IInv, TypeOK
    <3> QED  BY <3>1, <3>2, <3>3 DEF IInv, CountsOK
  <2> QED  BY <2>1 DEF CountsOK
<1>5. DeadOK'
  BY <1>a, <1>b, <1>2 DEF IInv, DeadOK
<1>6. LinksOK'
  BY <1>a, <1>b DEF IInv, LinksOK
<1>7. PoolsOK'
  <2>1. v \notin Pools  BY <1>a DEF Counted
  <2> QED  BY <2>1, <1>a, <1>b DEF IInv, PoolsOK
<1>8. ViewsFollowOwner'
  <2>1. ASSUME NEW w \in alive' \cap Views
        PROVE  owner'[w] \in alive' \cap (IF w \in Colors THEN ColorArrays ELSE Descriptors)
    <3>1. CASE w = v
      BY <3>1, <1>a, <1>b DEF IInv, TypeOK
    <3>2. CASE w # v
      <4>1. w \in alive \cap Views /\ w \in Obj  BY <3>2, <1>b DEF Obj
      <4>2. owner'[w] = owner[w]  BY <4>1, <3>2, <1>a DEF IInv, TypeOK
      <4> QED  BY <4>1, <4>2, <1>b DEF IInv, ViewsFollowOwner
    <3> QED  BY <3>1, <3>2
  <2> QED  BY <2>1 DEF ViewsFollowOwner
<1> QED  BY <1>1, <1>3, <1>4, <1>5, <1>6, <1>7, <1>8, <1>b DEF IInv

-----------------------------------------------------------------------------
(* Reference-count calls.                                                   *)

\* retain: one more count, one more reference of the client's.
LEMMA RetainKeeps ==
  ASSUME IInv, NEW o \in Obj, Retain(o)
  PROVE  IInv'
<1>a. /\ o \in Counted \ Pools /\ o \in alive
      /\ rc' = [rc EXCEPT ![o] = @ + 1] /\ own' = [own EXCEPT ![o] = @ + 1]
      /\ UNCHANGED <<born, alive, tracked, scopes, pooled, pass, owner, stray, pools>>
  BY SharedType DEF Retain, Usable
<1>1. TypeOK'
  <2>1. own \in [Obj -> Nat] /\ rc \in [Obj -> Nat]  BY DEF IInv, TypeOK
  <2>2. own' \in [Obj -> Nat]  BY <1>a, <2>1
  <2>3. rc' \in [Obj -> Nat]  BY <1>a, <2>1
  <2> QED  BY <2>2, <2>3, <1>a DEF IInv, TypeOK
<1>2. \A x : Retainers(x)' = Retainers(x) /\ Entries(x)' = Entries(x)
  BY <1>a DEF Entries, Retainers
<1>3. PooledOK' /\ TrackedOK' /\ ViewsFollowOwner'
  BY <1>a DEF IInv, PooledOK, EntriesIn, Entries, TrackedOK, ViewsFollowOwner
<1>4. CountsOK'
  <2>1. ASSUME NEW x \in alive' \cap Counted
        PROVE  rc'[x] = Holds(x)' /\ rc'[x] > 0
    <3>1. x \in Obj /\ x \in alive  BY <1>a DEF Obj
    <3>2. Holds(x)' = own'[x] + stray[x] + Cardinality(Entries(x)) + Cardinality(Retainers(x))
      BY <1>a, <1>2 DEF Holds
    <3>3. Cardinality(Entries(x)) \in Nat /\ Cardinality(Retainers(x)) \in Nat
          /\ own[x] \in Nat /\ stray[x] \in Nat /\ rc[x] \in Nat
      BY <3>1, EntriesFinite, RetainersFinite DEF IInv, PooledOK, TypeOK
    <3>4. rc[x] = Holds(x) /\ rc[x] > 0  BY <3>1 DEF IInv, CountsOK
    <3>5. CASE x = o
      <4>1. rc'[x] = rc[x] + 1 /\ own'[x] = own[x] + 1
        BY <3>1, <3>5, <1>a DEF IInv, TypeOK
      <4> QED  BY <4>1, <3>2, <3>3, <3>4 DEF Holds
    <3>6. CASE x # o
      <4>1. rc'[x] = rc[x] /\ own'[x] = own[x]
        BY <3>1, <3>6, <1>a DEF IInv, TypeOK
      <4> QED  BY <4>1, <3>2, <3>4 DEF Holds
    <3> QED  BY <3>5, <3>6
  <2> QED  BY <2>1 DEF CountsOK
<1>5. DeadOK'
  BY <1>a, <1>2 DEF IInv, TypeOK, DeadOK
<1>6. LinksOK'
  <2>1. \A v \in Views : v # o /\ v \in Obj  BY <1>a, TagsDisjoint DEF Obj
  <2> QED  BY <2>1, <1>a DEF IInv, TypeOK, LinksOK
<1>7. PoolsOK'
  <2>1. \A q \in Pools : q # o /\ q \in Obj  BY <1>a DEF Obj, Counted
  <2> QED  BY <2>1, <1>a DEF IInv, TypeOK, PoolsOK
<1> QED  BY <1>1, <1>3, <1>4, <1>5, <1>6, <1>7 DEF IInv

\* autorelease: a reference of the client's becomes the innermost scope's.
LEMMA AutoreleaseKeeps ==
  ASSUME IInv, NEW o \in Obj, Autorelease(o)
  PROVE  IInv'
<1>a. /\ o \in Counted \ Pools /\ own[o] > 0 /\ Autoreleasing(o)
      /\ own' = [own EXCEPT ![o] = @ - 1]
      /\ UNCHANGED <<born, alive, rc, tracked, pass, owner, pools>>
  BY SharedType DEF Autorelease
<1>b. o \in alive  BY <1>a DEF IInv, DeadOK
<1>c. /\ scopes' = scopes /\ pooled' \subseteq (1..scopes) \X Obj \X Nat
      /\ stray' \in [Obj -> Nat] /\ PooledOK'
      /\ \A x \in Obj : x # o => Entries(x)' = Entries(x) /\ stray'[x] = stray[x]
      /\ stray'[o] + Cardinality(Entries(o)') = stray[o] + Cardinality(Entries(o)) + 1
  BY <1>a, AutoreleasingAdds DEF IInv
<1>1. TypeOK'
  <2>1. own' \in [Obj -> Nat]  BY <1>a DEF IInv, TypeOK
  <2>2. /\ born \subseteq Obj /\ alive \subseteq born /\ tracked \subseteq Obj
        /\ rc \in [Obj -> Nat] /\ pools \in Seq(Obj) /\ scopes = Len(pools)
        /\ pass \in [Obj -> Obj \cup {None}] /\ owner \in [Obj -> Obj \cup {None}]
    BY DEF IInv, TypeOK
  <2> QED  BY <2>1, <2>2, <1>a, <1>c DEF TypeOK
<1>2. \A x : Retainers(x)' = Retainers(x)
  BY <1>a DEF Retainers
<1>3. TrackedOK' /\ ViewsFollowOwner'
  BY <1>a DEF IInv, TrackedOK, ViewsFollowOwner
<1>4. CountsOK'
  <2>1. ASSUME NEW x \in alive' \cap Counted
        PROVE  rc'[x] = Holds(x)' /\ rc'[x] > 0
    <3>1. x \in Obj /\ x \in alive  BY <1>a DEF Obj
    <3>2. rc[x] = Holds(x) /\ rc[x] > 0 /\ rc'[x] = rc[x]
      BY <3>1, <1>a DEF IInv, CountsOK
    <3>3. Holds(x)' = own'[x] + stray'[x] + Cardinality(Entries(x)') + Cardinality(Retainers(x))
      BY <1>a, <1>2 DEF Holds
    <3>4. CASE x = o
      <4>1. Cardinality(Entries(o)') \in Nat
        <5>1. IsFiniteSet(pooled') /\ Entries(o)' \subseteq pooled'
          BY <1>c DEF PooledOK, Entries
        <5>2. IsFiniteSet(Entries(o)')  BY <5>1, FS_Subset
        <5> QED  BY <5>2, FS_CardinalityType
      <4>2. Cardinality(Entries(o)) \in Nat /\ Cardinality(Retainers(o)) \in Nat
            /\ own[o] \in Nat /\ stray[o] \in Nat /\ stray'[o] \in Nat
        BY <3>1, <3>4, <1>c, EntriesFinite, RetainersFinite DEF IInv, PooledOK, TypeOK
      <4>3. own'[o] = own[o] - 1  BY <3>1, <3>4, <1>a DEF IInv, TypeOK
      <4>4. Holds(x)' = Holds(x)  BY <3>3, <3>4, <4>1, <4>2, <4>3, <1>c DEF Holds
      <4> QED  BY <4>4, <3>2
    <3>5. CASE x # o
      <4>1. own'[x] = own[x] /\ stray'[x] = stray[x] /\ Entries(x)' = Entries(x)
        BY <3>1, <3>5, <1>a, <1>c DEF IInv, TypeOK
      <4> QED  BY <4>1, <3>2, <3>3 DEF Holds
    <3> QED  BY <3>4, <3>5
  <2> QED  BY <2>1 DEF CountsOK
<1>5. DeadOK'
  <2>1. ASSUME NEW x \in Obj \ alive'
        PROVE  own'[x] = 0 /\ stray'[x] = 0 /\ Entries(x)' = {} /\ Retainers(x)' = {}
    <3>1. x # o /\ x \in Obj \ alive  BY <1>a, <1>b
    <3> QED  BY <3>1, <1>a, <1>c, <1>2 DEF IInv, DeadOK, TypeOK
  <2> QED  BY <2>1 DEF DeadOK
<1>6. LinksOK'
  <2>1. \A v \in Views : v # o /\ v \in Obj  BY <1>a, TagsDisjoint DEF Obj
  <2> QED  BY <2>1, <1>a, <1>c DEF IInv, TypeOK, LinksOK
<1>7. PoolsOK'
  <2>1. \A q \in Pools : q # o /\ q \in Obj  BY <1>a DEF Obj, Counted
  <2> QED  BY <2>1, <1>a, <1>c DEF IInv, TypeOK, PoolsOK
<1> QED  BY <1>1, <1>3, <1>4, <1>5, <1>6, <1>7, <1>c DEF IInv
\* release of an object the client owns.
LEMMA ReleaseKeeps ==
  ASSUME IInv, NEW o \in Obj, Release(o)
  PROVE  IInv'
<1> DEFINE drops == One(o)
<1>a. /\ o \in Counted \ Pools /\ own[o] > 0 /\ Releasing(drops)
      /\ own' = [own EXCEPT ![o] = @ - 1]
      /\ UNCHANGED <<scopes, pooled, stray, pools>>
  BY DEF Release
<1>b. drops \in [Obj -> Nat] /\ \A v \in Views : drops[v] = 0
  BY <1>a, TagsDisjoint DEF One, Obj
<1>c. own' \in [Obj -> Nat]
  BY <1>a DEF IInv, TypeOK
<1>d. IsFiniteSet(pooled') /\ \A x : Entries(x)' = Entries(x)
  BY <1>a DEF IInv, PooledOK, Entries
<1>e. \A x \in Obj : own'[x] + Cardinality(Entries(x)') + drops[x]
                     = own[x] + Cardinality(Entries(x))
  <2>1. ASSUME NEW x \in Obj
        PROVE  own'[x] + Cardinality(Entries(x)') + drops[x] = own[x] + Cardinality(Entries(x))
    <3>1. own[x] \in Nat /\ Cardinality(Entries(x)) \in Nat
      BY EntriesFinite DEF IInv, TypeOK, PooledOK
    <3>2. own'[x] + drops[x] = own[x]  BY <3>1, <1>a DEF One, IInv, TypeOK
    <3>3. own'[x] \in Nat /\ drops[x] \in Nat  BY <1>b, <1>c
    <3>4. Cardinality(Entries(x)') = Cardinality(Entries(x))  BY <1>d
    <3> HIDE DEF drops
    <3> QED  BY <3>1, <3>2, <3>3, <3>4
  <2> QED  BY <2>1
<1>1. /\ alive' \subseteq alive /\ born' = born
      /\ rc' \in [Obj -> Nat] /\ tracked' \subseteq Obj
      /\ pass' \in [Obj -> Obj \cup {None}] /\ owner' \in [Obj -> Obj \cup {None}]
      /\ CountsOK' /\ DeadOK' /\ LinksOK' /\ ViewsFollowOwner' /\ TrackedOK'
  <2> HIDE DEF drops
  <2> QED  BY <1>a, <1>b, <1>c, <1>d, <1>e, ReleasingKeeps
<1>2. TypeOK'
  BY <1>1, <1>a, <1>c DEF IInv, TypeOK
<1>3. PooledOK'
  BY <1>a DEF IInv, PooledOK, EntriesIn, Entries
<1>4. PoolsOK'
  <2>1. \A q \in Pools : q \in Obj /\ own'[q] = own[q]
    BY <1>a DEF Obj, Counted, IInv, TypeOK
  <2>2. \A q \in Pools \cap alive : own'[q] = 1 /\ q \in alive'
    BY <2>1, <1>1 DEF IInv, PoolsOK, DeadOK
  <2> QED  BY <2>1, <2>2, <1>a, <1>1 DEF IInv, PoolsOK
<1> QED  BY <1>1, <1>2, <1>3, <1>4 DEF IInv

\* init on a pool opens an empty scope.
LEMMA PoolInitKeeps ==
  ASSUME IInv, NEW p \in Obj, PoolInit(p)
  PROVE  IInv'
<1>a. /\ p \in Pools \cap alive /\ \A i \in 1..Len(pools) : pools[i] # p
      /\ scopes' = scopes + 1 /\ pools' = Append(pools, p)
      /\ UNCHANGED <<born, alive, rc, tracked, pooled, pass, owner, own, stray>>
  BY DEF PoolInit
<1>b. pools \in Seq(Obj) /\ scopes = Len(pools) /\ scopes \in Nat
  BY DEF IInv, TypeOK
<1>1. /\ pools' \in Seq(Obj) /\ Len(pools') = scopes + 1
      /\ \A i \in 1..scopes : pools'[i] = pools[i]
      /\ pools'[scopes + 1] = p
  BY <1>a, <1>b
<1>2. TypeOK'
  <2>1. pooled' \subseteq (1..scopes') \X Obj \X Nat
    BY <1>a, <1>b DEF IInv, TypeOK
  <2> QED  BY <2>1, <1>a, <1>1 DEF IInv, TypeOK
<1>3. PooledOK' /\ TrackedOK' /\ ViewsFollowOwner' /\ LinksOK'
  BY <1>a DEF IInv, PooledOK, EntriesIn, Entries, TrackedOK, ViewsFollowOwner, LinksOK
<1>4. CountsOK' /\ DeadOK'
  BY <1>a DEF IInv, CountsOK, DeadOK, Holds, Entries, Retainers
<1>5. PoolsOK'
  <2>1. \A i \in 1..Len(pools') : i \in 1..scopes \/ i = scopes + 1
    BY <1>1, <1>b
  <2>2. \A i \in 1..Len(pools') : pools'[i] \in Pools \cap alive'
    BY <2>1, <1>1, <1>a, <1>b DEF IInv, PoolsOK
  <2>3. \A i, j \in 1..Len(pools') : pools'[i] = pools'[j] => i = j
    BY <2>1, <1>1, <1>a, <1>b DEF IInv, PoolsOK
  <2> QED  BY <2>2, <2>3, <1>a DEF IInv, PoolsOK
<1> QED  BY <1>2, <1>3, <1>4, <1>5 DEF IInv

\* release or drain of the innermost pool: its scope is popped and released.
LEMMA PoolReleaseKeeps ==
  ASSUME IInv, NEW p \in Obj, PoolRelease(p)
  PROVE  IInv'
<1> DEFINE drops == PoolDrops(p)
<1>a. /\ pools # <<>> /\ p = pools[Len(pools)] /\ Releasing(drops)
      /\ scopes' = scopes - 1 /\ pooled' = {x \in pooled : x[1] # scopes}
      /\ pools' = SubSeq(pools, 1, Len(pools) - 1)
      /\ own' = [own EXCEPT ![p] = 0] /\ stray' = stray
  BY DEF PoolRelease
<1>b. pools \in Seq(Obj) /\ scopes = Len(pools) /\ scopes \in Nat /\ scopes > 0
  BY <1>a DEF IInv, TypeOK
<1>c. p \in Pools \cap alive /\ own[p] = 1 /\ stray[p] = 0 /\ p \in Counted /\ p \notin Views
  BY <1>a, <1>b, TagsDisjoint DEF IInv, PoolsOK, Counted
<1>d. Entries(p) = {} /\ Retainers(p) = {}
  <2>1. Entries(p) = {}  BY <1>c DEF IInv, PooledOK, Entries
  <2>2. \A e \in RenderEncoders : pass[e] \in Descriptors \cup {None}
    BY DEF IInv, LinksOK, Obj, Counted
  <2>3. p \notin Descriptors \cup {None}  BY <1>c, NoneNotObj, TagsDisjoint
  <2> QED  BY <2>1, <2>2, <2>3 DEF Retainers
<1>e. \A x \in Obj : /\ Cardinality(Entries(x)) \in Nat
                     /\ Cardinality(EntriesIn(scopes, x)) \in Nat
                     /\ own[x] \in Nat
  BY EntriesFinite DEF IInv, PooledOK, TypeOK
<1>f. /\ drops \in [Obj -> Nat]
      /\ \A x \in Obj : drops[x] = Cardinality(EntriesIn(scopes, x)) + (IF x = p THEN 1 ELSE 0)
  BY <1>e DEF PoolDrops, One
<1>g. \A v \in Views : drops[v] = 0
  <2>1. ASSUME NEW v \in Views  PROVE drops[v] = 0
    <3>1. EntriesIn(scopes, v) = {}
      BY TagsDisjoint DEF IInv, PooledOK, EntriesIn, Entries
    <3>2. Cardinality(EntriesIn(scopes, v)) = 0  BY <3>1, FS_EmptySet
    <3> QED  BY <3>2, <1>c, <1>f DEF Obj
  <2> QED  BY <2>1
<1>h. own' \in [Obj -> Nat]
  BY <1>a DEF IInv, TypeOK
<1>i. IsFiniteSet(pooled')
  BY <1>a, FS_Subset DEF IInv, PooledOK
<1>j. \A x \in Obj : own'[x] + Cardinality(Entries(x)') + drops[x]
                     = own[x] + Cardinality(Entries(x))
  <2>1. ASSUME NEW x \in Obj
        PROVE  own'[x] + Cardinality(Entries(x)') + drops[x] = own[x] + Cardinality(Entries(x))
    <3>1. Entries(x)' = Entries(x) \ EntriesIn(scopes, x)
      BY <1>a DEF Entries, EntriesIn
    <3>2. Entries(x) \cap EntriesIn(scopes, x) = EntriesIn(scopes, x)
      BY DEF EntriesIn
    <3>3. IsFiniteSet(Entries(x))  BY EntriesFinite DEF IInv, PooledOK
    <3>4. Cardinality(Entries(x)') = Cardinality(Entries(x)) - Cardinality(EntriesIn(scopes, x))
      BY <3>1, <3>2, <3>3, FS_Difference
    <3>5. own'[x] + (IF x = p THEN 1 ELSE 0) = own[x]
      <4>1. own' = [own EXCEPT ![p] = 0] /\ own \in [Obj -> Nat]  BY <1>a DEF IInv, TypeOK
      <4>2. CASE x = p  BY <4>1, <4>2, <1>c
      <4>3. CASE x # p  BY <4>1, <4>3, <1>e
      <4> QED  BY <4>2, <4>3
    <3>6. drops[x] = Cardinality(EntriesIn(scopes, x)) + (IF x = p THEN 1 ELSE 0)
      BY <1>f
    <3>7. own'[x] \in Nat  BY <1>h
    <3> HIDE DEF drops
    <3> QED  BY <3>4, <3>5, <3>6, <3>7, <1>e
  <2> QED  BY <2>1
<1>1. /\ alive' \subseteq alive /\ born' = born
      /\ rc' \in [Obj -> Nat] /\ tracked' \subseteq Obj
      /\ pass' \in [Obj -> Obj \cup {None}] /\ owner' \in [Obj -> Obj \cup {None}]
      /\ CountsOK' /\ DeadOK' /\ LinksOK' /\ ViewsFollowOwner' /\ TrackedOK'
  <2> HIDE DEF drops
  <2> QED  BY <1>a, <1>f, <1>g, <1>h, <1>i, <1>j, ReleasingKeeps
<1>2. pools' \in Seq(Obj) /\ Len(pools') = scopes - 1 /\ \A i \in 1..Len(pools') : pools'[i] = pools[i]
  BY <1>a, <1>b
<1>3. TypeOK'
  <2>1. pooled' \subseteq (1..scopes') \X Obj \X Nat
    <3>1. ASSUME NEW x \in pooled'  PROVE x \in (1..scopes') \X Obj \X Nat
      <4>1. x \in (1..scopes) \X Obj \X Nat /\ x[1] # scopes  BY <1>a DEF IInv, TypeOK
      <4>2. x[1] \in 1..scopes'  BY <4>1, <1>a, <1>b
      <4> QED  BY <4>1, <4>2
    <3> QED  BY <3>1
  <2> QED  BY <2>1, <1>1, <1>2, <1>a, <1>h DEF IInv, TypeOK
<1>4. PooledOK'
  <2>1. \A i, x : i # scopes => EntriesIn(i, x)' = EntriesIn(i, x)
    BY <1>a DEF EntriesIn, Entries
  <2> QED  BY <2>1, <1>a, <1>i DEF IInv, PooledOK
<1>5. PoolsOK'
  <2>1. \A q \in Pools : q \in Obj /\ (q # p => own'[q] = own[q])
    BY <1>a DEF Obj, Counted, IInv, TypeOK
  <2>2. \A q \in Pools \cap alive : q # p => own'[q] = 1 /\ q \in alive'
    BY <2>1, <1>1 DEF IInv, PoolsOK, DeadOK
  <2>3. p \notin alive'
    <3>1. SUFFICES ASSUME p \in alive' PROVE FALSE  OBVIOUS
    <3>2. Holds(p)' > 0  BY <3>1, <1>1, <1>c DEF CountsOK
    <3>3. Entries(p)' = {}  BY <1>a, <1>d DEF Entries
    <3>4. Retainers(p)' = {}
      <4>1. \A e \in RenderEncoders : pass'[e] \in Descriptors \cup {None}
        BY <1>1 DEF LinksOK, Obj, Counted
      <4>2. p \notin Descriptors \cup {None}  BY <1>c, NoneNotObj, TagsDisjoint
      <4> QED  BY <4>1, <4>2 DEF Retainers
    <3>5. own'[p] = 0 /\ stray'[p] = 0  BY <1>a, <1>c DEF IInv, TypeOK
    <3>6. Cardinality(Entries(p)') = 0 /\ Cardinality(Retainers(p)') = 0
      BY <3>3, <3>4, FS_EmptySet
    <3>7. Holds(p)' = own'[p] + stray'[p] + Cardinality(Entries(p)') + Cardinality(Retainers(p)')
      BY DEF Holds
    <3> QED  BY <3>2, <3>5, <3>6, <3>7
  <2>4. \A i \in 1..Len(pools') : pools'[i] \in Pools \cap alive /\ pools'[i] # p
    BY <1>2, <1>a, <1>b DEF IInv, PoolsOK
  <2>5. \A i, j \in 1..Len(pools') : pools'[i] = pools'[j] => i = j
    BY <1>2, <1>a, <1>b DEF IInv, PoolsOK
  <2>6. \A q \in Pools : stray'[q] = 0 /\ (q \in alive' => own'[q] = 1)
    BY <2>2, <2>3, <1>1, <1>a DEF IInv, PoolsOK
  <2>7. \A i \in 1..Len(pools') : pools'[i] \in Pools \cap alive'
    BY <2>2, <2>4
  <2> QED  BY <2>5, <2>6, <2>7 DEF PoolsOK
<1> QED  BY <1>1, <1>3, <1>4, <1>5 DEF IInv
-----------------------------------------------------------------------------
(* The inductive invariant.                                                 *)

LEMMA InitEstablishes == Init => IInv
<1> SUFFICES ASSUME Init PROVE IInv  OBVIOUS
<1>1. TypeOK /\ PooledOK /\ PoolsOK /\ ViewsFollowOwner /\ TrackedOK /\ CountsOK
  BY FS_EmptySet DEF Init, TypeOK, PooledOK, PoolsOK, ViewsFollowOwner, TrackedOK, CountsOK, Obj,
     Counted
<1>2. DeadOK /\ LinksOK
  BY DEF Init, DeadOK, LinksOK, Entries, Retainers, Obj
<1> QED  BY <1>1, <1>2 DEF IInv

\* Every call of the object runtime keeps the invariant.
LEMMA NextKeeps == IInv /\ [Next]_objectVars => IInv'
<1> SUFFICES ASSUME IInv, [Next]_objectVars PROVE IInv'  OBVIOUS
<1>1. ASSUME NEW o \in Obj, Alloc(o) \/ Retain(o) \/ Autorelease(o) \/ Release(o)
      PROVE  IInv'
  <2>1. CASE Alloc(o)
    <3>1. o \in Counted /\ Owned(o)  BY <2>1 DEF Alloc, Counted
    <3> QED  BY <3>1, OwnedKeeps
  <2> QED  BY <1>1, <2>1, RetainKeeps, AutoreleaseKeeps, ReleaseKeeps
<1>2. ASSUME NEW d \in Devices, CreateDevice(d)  PROVE IInv'
  <2>1. d \in Counted /\ Owned(d)  BY <1>2 DEF CreateDevice, Counted
  <2> QED  BY <2>1, OwnedKeeps
<1>3. ASSUME NEW o \in Queues \cup Objects, NEW r \in Devices \cup Objects, NewFrom(o, r)  PROVE IInv'
  <2>1. o \in Counted /\ Owned(o)  BY <1>3 DEF NewFrom, Counted
  <2> QED  BY <2>1, OwnedKeeps
\* An object that is not an encoder retains no pass: as if it were given none.
<1>4. ASSUME NEW o \in Counted \ Pools, Given(o), Born(o), pass' = pass  PROVE IInv'
  <2>1. o \in Obj /\ Make(o)  BY <1>4 DEF Given, Obj
  <2>2. pass[o] = None  BY <2>1, MakeFresh
  <2>3. pass' = [pass EXCEPT ![o] = None]  BY <2>1, <2>2, <1>4 DEF IInv, TypeOK
  <2>4. rc' = [x \in Obj |-> IF x = o THEN 1 ELSE IF x = None THEN rc[None] + 1 ELSE rc[x]]
    BY <1>4, NoneNotObj DEF Born, IInv, TypeOK
  <2> QED  BY <2>3, <2>4, <1>4, GivenKeeps
<1>5. ASSUME NEW o \in Objects, NewString(o)  PROVE IInv'
  <2>1. o \in Counted \ Pools /\ Given(o) /\ Born(o) /\ pass' = pass
    BY <1>5, TagsDisjoint DEF NewString, Counted
  <2> QED  BY <2>1, <1>4
<1>6. ASSUME NEW c \in CmdBufs, NEW q \in Queues, NewCommandBuffer(c, q)  PROVE IInv'
  <2>1. c \in Counted \ Pools /\ Given(c) /\ Born(c) /\ pass' = pass
    BY <1>6, TagsDisjoint DEF NewCommandBuffer, Counted
  <2> QED  BY <2>1, <1>4
<1>7. ASSUME NEW c \in CmdBufs, NEW e \in ComputeEncoders, NewComputeEncoder(e, c)  PROVE IInv'
  <2>1. e \in Counted \ Pools /\ Given(e) /\ Born(e) /\ pass' = pass
    BY <1>7, TagsDisjoint DEF NewComputeEncoder, Counted
  <2> QED  BY <2>1, <1>4
<1>8. ASSUME NEW c \in CmdBufs, NEW e \in RenderEncoders, NEW p \in Descriptors \cup {None},
             NewRenderEncoder(e, c, p)
      PROVE  IInv'
  <2>1. e \in Counted \ Pools /\ Given(e) /\ pass' = [pass EXCEPT ![e] = p]
        /\ rc' = [x \in Obj |-> IF x = e THEN 1 ELSE IF x = p THEN rc[p] + 1 ELSE rc[x]]
        /\ (p # None => p \in alive)
    BY <1>8, TagsDisjoint DEF NewRenderEncoder, Counted, Usable
  <2> QED  BY <2>1, GivenKeeps
<1>9. ASSUME NEW v, NEW p, ColorAttachments(v, p) \/ DepthAttachment(v, p) \/ ColorAttachment(v, p)
       PROVE  IInv'
  <2>1. v \in Views /\ p \in (IF v \in Colors THEN ColorArrays ELSE Descriptors) /\ NewView(v, p)
    BY <1>9, TagsDisjoint DEF ColorAttachments, DepthAttachment, ColorAttachment, Views
  <2> QED  BY <2>1, NewViewKeeps
<1>10. ASSUME NEW p \in Pools, PoolInit(p) \/ PoolRelease(p)  PROVE IInv'
  <2>1. p \in Obj  BY DEF Obj, Counted
  <2> QED  BY <2>1, <1>10, PoolInitKeeps, PoolReleaseKeeps
<1>11. CASE UNCHANGED objectVars
  <2>1. /\ born' = born /\ alive' = alive /\ rc' = rc /\ tracked' = tracked
        /\ scopes' = scopes /\ pooled' = pooled /\ pass' = pass /\ owner' = owner
        /\ own' = own /\ stray' = stray /\ pools' = pools
    BY <1>11 DEF objectVars
  <2>2. TypeOK'  BY <2>1 DEF IInv, TypeOK
  <2>3. PooledOK'  BY <2>1 DEF IInv, PooledOK, EntriesIn, Entries
  <2>4. CountsOK'  BY <2>1 DEF IInv, CountsOK, Holds, Entries, Retainers
  <2>5. DeadOK'  BY <2>1 DEF IInv, DeadOK, Entries, Retainers
  <2>6. LinksOK' /\ ViewsFollowOwner'  BY <2>1 DEF IInv, LinksOK, ViewsFollowOwner
  <2>7. PoolsOK' /\ TrackedOK'  BY <2>1 DEF IInv, PoolsOK, TrackedOK
  <2> QED  BY <2>2, <2>3, <2>4, <2>5, <2>6, <2>7 DEF IInv
<1> QED
  BY <1>1, <1>2, <1>3, <1>5, <1>6, <1>7, <1>8, <1>9, <1>10, <1>11 DEF Next, ObjectCall

\* The counts are exact in every state the runtime can reach.
THEOREM Invariance == Spec => []IInv
<1>1. Init => IInv  BY InitEstablishes
<1>2. IInv /\ [Next]_objectVars => IInv'  BY NextKeeps
<1> QED  BY <1>1, <1>2, PTL DEF Spec

-----------------------------------------------------------------------------
(* What follows from the invariant.                                         *)

\* Every pointer and every count has its declared type.
THEOREM TypeCorrect == Spec => []TypeOK
<1>1. IInv => TypeOK  BY DEF IInv
<1> QED  BY <1>1, Invariance, PTL

\* Base::rc counts exactly the references that exist.
THEOREM CountsExact == Spec => []RefCountExact
<1>1. IInv => RefCountExact  BY DEF IInv, CountsOK, RefCountExact
<1> QED  BY <1>1, Invariance, PTL

\* No premature free: whatever is still held, retained or pooled is allocated.
THEOREM NoPrematureFree == Spec => []HoldersKeepAlive
<1>1. IInv => HoldersKeepAlive
  <2>1. ASSUME IInv, NEW o \in Counted, Held(o) \/ Retainers(o) # {}
        PROVE  o \in alive
    <3>1. o \in Obj  BY DEF Obj
    <3>2. own[o] \in Nat /\ stray[o] \in Nat  BY <2>1, <3>1 DEF IInv, TypeOK
    <3>3. ~(own[o] = 0 /\ stray[o] = 0 /\ Entries(o) = {} /\ Retainers(o) = {})
      BY <2>1, <3>2 DEF Held
    <3> QED  BY <2>1, <3>1, <3>3 DEF IInv, DeadOK
  <2> QED  BY <2>1 DEF HoldersKeepAlive
<1> QED  BY <1>1, Invariance, PTL

\* A descriptor's attachment views are freed with it.
THEOREM ViewsFreedWithDescriptor == Spec => []ViewsFollowOwner
<1>1. IInv => ViewsFollowOwner  BY DEF IInv
<1> QED  BY <1>1, Invariance, PTL

\* Views alone never survive: the last allocation alive is not a view.
LEMMA ViewsNeedOwner ==
  ASSUME TypeOK, ViewsFollowOwner, alive \cap Counted = {}
  PROVE  alive = {}
<1>1. alive \subseteq Views  BY DEF TypeOK, Obj
<1>2. Descriptors \cap alive = {}  BY DEF Counted
<1>3. ASSUME NEW v \in alive  PROVE FALSE
  <2>1. v \in Colors  BY <1>1, <1>2, <1>3 DEF ViewsFollowOwner
  <2>2. owner[v] \in ColorArrays \cap alive  BY <1>1, <2>1, <1>3 DEF ViewsFollowOwner
  <2>3. owner[v] \in Views /\ owner[v] \notin Colors
    BY <2>2, TagsDisjoint DEF Views
  <2>4. owner[owner[v]] \in alive \cap Descriptors
    BY <2>2, <2>3 DEF ViewsFollowOwner
  <2> QED  BY <2>4, <1>2
<1> QED  BY <1>3

\* With everything returned and nothing lost, there is no holder left.
LEMMA NothingHeld ==
  ASSUME IInv, Returned, \A o \in Obj : stray[o] = 0
  PROVE  alive = {}
<1>1. pooled = {}
  <2>1. pooled \subseteq (1..0) \X Obj \X Nat  BY DEF IInv, TypeOK, Returned
  <2>2. \A x \in pooled : x[1] \in 1..0  BY <2>1
  <2> QED  BY <2>2
<1>2. \A o \in Obj : ~Held(o)
  BY <1>1 DEF Held, Entries, Returned
<1>3. ASSUME NEW o \in alive \cap Counted  PROVE Retainers(o) # {}
  <2>1. o \in Obj  BY DEF Obj
  <2>2. Holds(o) > 0  BY <1>3 DEF IInv, CountsOK
  <2> QED  BY <1>2, <2>1, <2>2, HoldsNat DEF IInv
<1>4. ASSUME NEW o \in alive \cap Counted  PROVE FALSE
  <2>1. PICK e \in Retainers(o) : TRUE  BY <1>3
  <2>2. e \in RenderEncoders /\ e \in alive \cap Counted
    BY <2>1 DEF Retainers, Counted
  <2>3. PICK f \in Retainers(e) : TRUE  BY <1>3, <2>2
  <2>4. f \in Obj /\ pass[f] = e  BY <2>3 DEF Retainers, Obj, Counted
  <2>5. pass[f] \in Descriptors \cup {None}  BY <2>4 DEF IInv, LinksOK
  <2>6. e \notin Descriptors /\ e # None
    BY <2>2, TagsDisjoint, NoneNotObj DEF Obj
  <2> QED  BY <2>4, <2>5, <2>6
<1>5. alive \cap Counted = {}  BY <1>4
<1> QED  BY <1>5, ViewsNeedOwner DEF IInv

\* A client that gives everything back leaves nothing allocated.
THEOREM NothingLeaks == Spec => []CleanExit
<1>1. IInv => CleanExit  BY NothingHeld DEF CleanExit
<1> QED  BY <1>1, Invariance, PTL

\* The leak report neither hides a leak nor invents one.
THEOREM LeakReport == Spec => []LeakReportHonest
<1>1. ASSUME IInv, LeakCheck  PROVE live_objects = 0 <=> alive = {}
  <2>1. tracked = alive \cap Counted  BY <1>1, LeakCheckType DEF IInv, TrackedOK
  <2>2. IsFiniteSet(tracked)
    <3>1. tracked \subseteq Obj  BY <2>1 DEF Obj
    <3> QED  BY <3>1, ObjFinite, FS_Subset
  <2>3. live_objects = 0 <=> tracked = {}  BY <2>2, FS_EmptySet DEF live_objects
  <2>4. tracked = {} => alive = {}  BY <1>1, <2>1, ViewsNeedOwner DEF IInv
  <2> QED  BY <2>1, <2>3, <2>4
<1>2. ASSUME IInv, LeakCheck  PROVE live_objects \in Nat
  <2>1. tracked \subseteq Obj  BY <1>2 DEF IInv, TypeOK
  <2> QED  BY <2>1, ObjFinite, FS_Subset, FS_CardinalityType DEF live_objects
<1>3. ASSUME IInv, LeakCheck, Returned
      PROVE  live_objects > 0 <=> \E o \in Obj : stray[o] > 0
  <2>1. live_objects > 0 <=> alive # {}  BY <1>1, <1>2, <1>3
  <2>2. \A o \in Obj : stray[o] \in Nat  BY <1>3 DEF IInv, TypeOK
  <2>3. alive # {} => \E o \in Obj : stray[o] > 0
    BY <1>3, <2>2, NothingHeld
  <2>4. ASSUME NEW o \in Obj, stray[o] > 0  PROVE alive # {}
    BY <1>3, <2>4, <2>2 DEF IInv, DeadOK
  <2> QED  BY <2>1, <2>3, <2>4
<1>4. IInv => LeakReportHonest  BY <1>1, <1>3 DEF LeakReportHonest
<1> QED  BY <1>4, Invariance, PTL

-----------------------------------------------------------------------------
(* The runtime implements Ownership.                                        *)

\* A call makes one allocation, or it makes none and may free some.
LEMMA OneBirth ==
  ASSUME TypeOK, [Next]_objectVars
  PROVE  \/ \E o : Make(o)
         \/ alive' \subseteq alive /\ born' = born
<1>1. CASE ObjectCall
  BY <1>1 DEF ObjectCall, CreateDevice, Alloc, NewFrom, NewString,
     NewCommandBuffer, ColorAttachments, DepthAttachment, ColorAttachment, NewView,
     Owned, Given, Retain, Autorelease, Release, PoolInit, PoolRelease, Releasing
<1>2. ASSUME NEW c, NEW e, NEW p, NewComputeEncoder(e, c) \/ NewRenderEncoder(e, c, p)
      PROVE  \E o : Make(o)
  BY <1>2 DEF NewComputeEncoder, NewRenderEncoder, Given
<1>3. CASE UNCHANGED objectVars  BY <1>3 DEF objectVars
<1> QED  BY <1>1, <1>2, <1>3 DEF Next

HeldExactly ==
    /\ [o \in Counted |-> Holds(o)] \in [Counted -> Nat]
    /\ alive \cap Counted = {o \in Counted : Holds(o) > 0}

\* Something is allocated exactly while it has a holder.
LEMMA AliveIsHeld ==
  ASSUME IInv
  PROVE  HeldExactly
<1>1. ASSUME NEW o \in Counted
      PROVE  Holds(o) \in Nat /\ (o \in alive <=> Holds(o) > 0)
  <2>1. o \in Obj  BY DEF Obj
  <2>2. Holds(o) \in Nat /\ (Holds(o) > 0 <=> (Held(o) \/ Retainers(o) # {}))
    BY <2>1, HoldsNat DEF IInv
  <2>3. o \in alive => Holds(o) > 0  BY DEF IInv, CountsOK
  <2>4. o \notin alive => ~Held(o) /\ Retainers(o) = {}
    BY <2>1 DEF IInv, DeadOK, Held
  <2> QED  BY <2>2, <2>3, <2>4
<1> QED  BY <1>1 DEF HeldExactly

\* Reference counting keeps the promise of Ownership.
THEOREM Refinement == Spec => OwnershipKept
<1>1. Init => Promise!Init
  <2>1. ASSUME Init, NEW o \in Counted  PROVE Holds(o) = 0
    <3>1. Entries(o) = {} /\ Retainers(o) = {}
      BY <2>1 DEF Init, Entries, Retainers
    <3>2. own[o] = 0 /\ stray[o] = 0  BY <2>1 DEF Init, Obj
    <3> QED  BY <3>1, <3>2, FS_EmptySet DEF Holds
  <2> QED  BY <2>1 DEF Init, Promise!Init
<1>a. IInv => HeldExactly  BY AliveIsHeld DEF HeldExactly
<1>b. IInv' => HeldExactly'  BY <1>a, PTL
<1>2. ASSUME IInv, IInv', [Next]_objectVars
      PROVE  [Promise!Call]_(Promise!ownershipVars)
  <2>1. HeldExactly'  BY <1>2, <1>b
  <2>2. alive \subseteq born  BY <1>2 DEF IInv, TypeOK
  <2>3. CASE \E o : Make(o)
    <3>1. PICK o : Make(o)  BY <2>3
    <3>2. /\ o \notin born /\ alive' = alive \cup {o} /\ born' = born \cup {o}
      BY <3>1 DEF Make
    <3> QED  BY <2>1, <2>2, <3>2 DEF Promise!Call, HeldExactly
  <2>4. CASE alive' \subseteq alive /\ born' = born
    BY <2>1, <2>2, <2>4 DEF Promise!Call, HeldExactly
  <2> QED  BY <1>2, <2>3, <2>4, OneBirth DEF IInv
<1> QED  BY <1>1, <1>2, Invariance, PTL DEF Spec, OwnershipKept, Promise!Spec

-----------------------------------------------------------------------------
(* The raw pointers of MetalEncoding.                                        *)

\* Every pointer field names an allocation of its declared tag, or nothing.
PointersOK ==
    /\ encCb \in [AllEncoders -> CmdBufs \cup {None}]
    /\ bound \in [AllEncoders -> [Slots -> Objects \cup {None}]]
    /\ texture \in [Attachments -> Objects \cup {None}]
    /\ clears \subseteq Attachments
    /\ captured \in [CmdBufs -> SUBSET Objects]
    /\ committed \subseteq CmdBufs
    /\ handed \in [CmdBufs -> SUBSET Objects]

\* A live encoder knows its command buffer, and only a render encoder has a pass.
EncodersOK ==
    /\ \A e \in AllEncoders \cap alive : encCb[e] \in CmdBufs
    /\ \A o \in Obj \ RenderEncoders : pass[o] = None

\* Every pointer an encoder or a closure can reach was handed over by a call of the
\* client: the closures of c hold, and the bindings and the attachments of its
\* encoders name, nothing but what is in handed[c]. What is not allocated names nothing.
HandedOK ==
    /\ \A c \in CmdBufs : captured[c] \subseteq handed[c]
    /\ \A e \in AllEncoders \cap alive, i \in Slots : bound[e][i] \in handed[encCb[e]] \cup {None}
    /\ \A e \in RenderEncoders \cap alive, v \in Attachments \cap alive :
          Root(v) = pass[e] => texture[v] \in handed[encCb[e]] \cup {None}
    /\ \A e \in AllEncoders \ alive : bound[e] = Unbound
    /\ \A v \in Attachments \ alive : texture[v] = None

\* A step of the encoding model is a call of the object runtime, or leaves it be.
LEMMA EncodingSteps ==
  ASSUME [EncodingNext]_encodingVars
  PROVE  [Next]_objectVars
<1>1. CASE Object  BY <1>1 DEF Object, Next
<1>2. ASSUME NEW e \in ComputeEncoders, NEW c \in CmdBufs, ComputeEncoder(e, c)  PROVE Next
  BY <1>2 DEF ComputeEncoder, Next
<1>3. ASSUME NEW e \in RenderEncoders, NEW c \in CmdBufs, NEW p \in Descriptors \cup {None},
             RenderEncoder(e, c, p)
      PROVE  Next
  BY <1>3 DEF RenderEncoder, Next
<1>4. ASSUME NEW v, NEW x, SetLoadActionClear(v) \/ SetTexture(v, x)  PROVE UNCHANGED objectVars
  BY <1>4 DEF SetLoadActionClear, SetTexture
<1>5. ASSUME NEW e, NEW i, NEW x, Bind(e, i, x) \/ Dispatch(e) \/ Draw(e, x)
      PROVE  UNCHANGED objectVars
  BY <1>5 DEF Bind, Dispatch, Draw, Capture
<1>6. ASSUME NEW c, Commit(c)  PROVE UNCHANGED objectVars  BY <1>6 DEF Commit
<1>7. CASE UNCHANGED encodingVars  BY <1>7 DEF encodingVars
<1> QED  BY <1>1, <1>2, <1>3, <1>4, <1>5, <1>6, <1>7 DEF EncodingNext

\* The counts stay exact while the client encodes.
LEMMA RuntimeInvariance == EncodingSpec => []IInv
<1>1. EncodingInit => IInv  BY InitEstablishes DEF EncodingInit
<1>2. IInv /\ [EncodingNext]_encodingVars => IInv'  BY EncodingSteps, NextKeeps
<1> QED  BY <1>1, <1>2, PTL DEF EncodingSpec

\* The textures a pass's attachments name are textures.
LEMMA TargetsAreObjects ==
  ASSUME PointersOK, NEW views \in SUBSET Attachments
  PROVE  Targets(views) \subseteq Objects
BY DEF Targets, PointersOK

\* Pointer fields keep their types.
LEMMA PointersKept ==
  ASSUME PointersOK, [EncodingNext]_encodingVars
  PROVE  PointersOK'
<1> USE DEF PointersOK
<1>1. CASE Object
  <2>1. encCb' \in [AllEncoders -> CmdBufs \cup {None}]  BY <1>1 DEF Object
  <2>2. bound' \in [AllEncoders -> [Slots -> Objects \cup {None}]]  BY <1>1 DEF Object, Unbound
  <2>3. texture' \in [Attachments -> Objects \cup {None}]  BY <1>1 DEF Object
  <2>4. captured' \in [CmdBufs -> SUBSET Objects]  BY <1>1 DEF Object
  <2>5. /\ clears' \subseteq Attachments /\ committed' \subseteq CmdBufs
        /\ handed' \in [CmdBufs -> SUBSET Objects]
    BY <1>1 DEF Object
  <2> QED  BY <2>1, <2>2, <2>3, <2>4, <2>5
<1>2. ASSUME NEW e \in ComputeEncoders, NEW c \in CmdBufs, ComputeEncoder(e, c)
      PROVE  PointersOK'
  BY <1>2 DEF ComputeEncoder
<1>3. ASSUME NEW e \in RenderEncoders, NEW c \in CmdBufs, NEW p \in Descriptors \cup {None},
             RenderEncoder(e, c, p)
      PROVE  PointersOK'
  <2>1. Targets(AttachmentsOf(p) \cap clears) \subseteq Objects
    BY TargetsAreObjects DEF AttachmentsOf
  <2>2. captured' = [captured EXCEPT ![c] = @ \cup Targets(AttachmentsOf(p) \cap clears)]
    BY <1>3 DEF RenderEncoder
  <2>3. captured' \in [CmdBufs -> SUBSET Objects]  BY <2>1, <2>2
  <2>4. Targets(AttachmentsOf(p)) \subseteq Objects  BY TargetsAreObjects DEF AttachmentsOf
  <2>5. handed' \in [CmdBufs -> SUBSET Objects]  BY <1>3, <2>4 DEF RenderEncoder, Hand
  <2> QED  BY <1>3, <2>3, <2>5 DEF RenderEncoder
<1>4. ASSUME NEW v \in Attachments, NEW x \in Objects, SetTexture(v, x)
      PROVE  PointersOK'
  <2>1. handed' \in [CmdBufs -> SUBSET Objects]  BY <1>4 DEF SetTexture
  <2> QED  BY <1>4, <2>1 DEF SetTexture
<1>4a. ASSUME NEW v \in Attachments, SetLoadActionClear(v)  PROVE PointersOK'
  BY <1>4a DEF SetLoadActionClear
<1>5. ASSUME NEW e \in AllEncoders, NEW i \in Slots, NEW x \in Objects, Bind(e, i, x)
      PROVE  PointersOK'
  <2>1. bound' = [bound EXCEPT ![e] = [bound[e] EXCEPT ![i] = x]]  BY <1>5 DEF Bind
  <2>2. bound[e] \in [Slots -> Objects \cup {None}]  OBVIOUS
  <2>3. bound' \in [AllEncoders -> [Slots -> Objects \cup {None}]]  BY <2>1, <2>2
  <2> QED  BY <1>5, <2>3 DEF Bind, Hand
<1>6. ASSUME NEW c, NEW pointers \in SUBSET (Objects \cup {None}), Capture(c, pointers),
             NEW things \in SUBSET Objects, handed' = handed \/ Hand(c, things)
      PROVE  PointersOK'
  <2>1. captured' \in [CmdBufs -> SUBSET Objects]
    <3>1. captured' = [captured EXCEPT ![c] = captured[c] \cup (pointers \ {None})]
      BY <1>6 DEF Capture
    <3>2. pointers \ {None} \subseteq Objects  OBVIOUS
    <3> QED  BY <3>1, <3>2
  <2>2. handed' \in [CmdBufs -> SUBSET Objects]  BY <1>6 DEF Hand
  <2> QED  BY <1>6, <2>1, <2>2 DEF Capture
<1>7. ASSUME NEW e \in AllEncoders  PROVE Bindings(e) \subseteq Objects \cup {None}
  BY DEF Bindings
<1>8. ASSUME NEW e \in ComputeEncoders, Dispatch(e)  PROVE PointersOK'
  BY <1>6, <1>7, <1>8 DEF Dispatch, AllEncoders
<1>9. ASSUME NEW e \in RenderEncoders, NEW x \in Objects, Draw(e, x)  PROVE PointersOK'
  <2>1. Targets(AttachmentsOf(pass[e])) \subseteq Objects
    BY TargetsAreObjects DEF AttachmentsOf
  <2>2. Bindings(e) \cup {x} \cup Targets(AttachmentsOf(pass[e])) \subseteq Objects \cup {None}
    BY <1>7, <2>1 DEF AllEncoders
  <2> QED  BY <1>6, <1>9, <2>2 DEF Draw
<1>10. ASSUME NEW c \in CmdBufs, Commit(c)  PROVE PointersOK'
  BY <1>10 DEF Commit
<1>11. CASE UNCHANGED encodingVars
  BY <1>11 DEF encodingVars, pointerVars
<1> QED
  BY <1>1, <1>2, <1>3, <1>4, <1>4a, <1>5, <1>8, <1>9, <1>10, <1>11 DEF EncodingNext

\* Pointer fields have their types in every reachable state.
LEMMA PointersInvariance == EncodingSpec => []PointersOK
<1>1. EncodingInit => PointersOK
  BY DEF EncodingInit, PointersOK, Unbound
<1>2. PointersOK /\ [EncodingNext]_encodingVars => PointersOK'  BY PointersKept
<1> QED  BY <1>1, <1>2, PTL DEF EncodingSpec

\* The types of the whole encoding state.
THEOREM EncodingTypes == EncodingSpec => []EncodingTypeOK
<1>1. IInv /\ PointersOK => EncodingTypeOK  BY DEF IInv, PointersOK, EncodingTypeOK
<1> QED  BY <1>1, RuntimeInvariance, PointersInvariance, PTL

\* What the client holds, a command buffer or a resource, is allocated.
LEMMA HeldIsAlive ==
  ASSUME IInv, NEW o \in Counted, Held(o)
  PROVE  o \in alive
<1>1. o \in Obj  BY DEF Obj
<1>2. own[o] \in Nat /\ stray[o] \in Nat  BY <1>1 DEF IInv, TypeOK
<1> QED  BY <1>1, <1>2 DEF Held, IInv, DeadOK

\* Calls other than the two that create encoders create none, and never make a
\* pass out of nothing; what stays alive keeps its pass and its owner.
LEMMA ObjectCallEncoders ==
  ASSUME ObjectCall, TypeOK
  PROVE  /\ alive' \cap AllEncoders \subseteq alive
         /\ \A o \in Obj : pass'[o] \in {pass[o], None}
         /\ \A o \in alive \cap alive' : pass'[o] = pass[o] /\ owner'[o] = owner[o]
<1> DEFINE Linked == /\ \A o \in Obj : pass'[o] \in {pass[o], None}
                     /\ \A o \in alive \cap alive' : pass'[o] = pass[o] /\ owner'[o] = owner[o]
           Kept == alive' \cap AllEncoders \subseteq alive /\ Linked
<1> USE TagsDisjoint DEF AllEncoders
<1>1. ASSUME NEW o \in Obj, Owned(o), o \notin AllEncoders  PROVE Kept
  BY <1>1 DEF Owned, Make
<1>2. ASSUME NEW o \in Obj, Given(o), o \notin AllEncoders, pass' = pass  PROVE Kept
  BY <1>2 DEF Given, Make
<1>3. ASSUME NEW drops, Releasing(drops)  PROVE Kept
  BY <1>3 DEF Releasing, TypeOK
<1>4. ASSUME NEW o \in Obj, CreateDevice(o) \/ Alloc(o) \/ Retain(o) \/ Autorelease(o) \/ Release(o)
      PROVE  Kept
  <2>1. CASE Retain(o) \/ Autorelease(o)  BY <2>1 DEF Retain, Autorelease
  <2>2. CASE Release(o)  BY <1>3, <2>2 DEF Release
  <2>3. CASE CreateDevice(o) \/ Alloc(o)  BY <1>1, <2>3 DEF CreateDevice, Alloc
  <2> QED  BY <1>4, <2>1, <2>2, <2>3
<1>5. ASSUME NEW o \in Queues \cup Objects, NEW d, NewFrom(o, d)  PROVE Kept
  BY <1>1, <1>5 DEF NewFrom, Obj, Counted
<1>6. ASSUME NEW o \in Objects \cup CmdBufs, NEW q, NewString(o) \/ NewCommandBuffer(o, q)
      PROVE  Kept
  BY <1>2, <1>6 DEF NewString, NewCommandBuffer, Obj, Counted
<1>7. ASSUME NEW v, NEW p, ColorAttachments(v, p) \/ DepthAttachment(v, p) \/ ColorAttachment(v, p)
      PROVE  Kept
  <2>1. /\ NewView(v, p) /\ v \in Views
        /\ v \notin alive /\ alive' = alive \cup {v} /\ pass' = pass
        /\ owner' = [owner EXCEPT ![v] = p]
    BY <1>7 DEF ColorAttachments, DepthAttachment, ColorAttachment, NewView, Make, Views, TypeOK
  <2>2. v \notin AllEncoders  BY <2>1 DEF Views, Counted
  <2> QED  BY <2>1, <2>2 DEF TypeOK
<1>8. ASSUME NEW p, PoolInit(p) \/ PoolRelease(p)  PROVE Kept
  BY <1>3, <1>8 DEF PoolInit, PoolRelease
<1>9. Devices \subseteq Obj  BY DEF Obj, Counted
<1> HIDE DEF Kept
<1>10. Kept  BY <1>4, <1>5, <1>6, <1>7, <1>8, <1>9 DEF ObjectCall
<1> QED  BY <1>10 DEF Kept

\* An encoder's command buffer and pass are known from its creation on.
LEMMA EncodersKept ==
  ASSUME IInv, PointersOK, EncodersOK, [EncodingNext]_encodingVars
  PROVE  EncodersOK'
<1> USE DEF EncodersOK
<1>1. CASE Object
  <2>1. /\ alive' \cap AllEncoders \subseteq alive
        /\ \A o \in Obj : pass'[o] \in {pass[o], None}
    BY <1>1, ObjectCallEncoders DEF Object, IInv
  <2>2. \A e \in AllEncoders \cap alive' : encCb'[e] = encCb[e]  BY <1>1 DEF Object
  <2> QED  BY <2>1, <2>2
<1>2. ASSUME NEW e \in AllEncoders, NEW c \in CmdBufs,
             encCb' = [encCb EXCEPT ![e] = c], alive' = alive \cup {e},
             NEW p, pass' = pass \/ (e \in RenderEncoders /\ pass' = [pass EXCEPT ![e] = p])
      PROVE  EncodersOK'
  <2>1. \A x \in AllEncoders \cap alive' : encCb'[x] \in CmdBufs  BY <1>2 DEF PointersOK
  <2>2. pass \in [Obj -> Obj \cup {None}]  BY DEF IInv, TypeOK
  <2>3. \A o \in Obj \ RenderEncoders : pass'[o] = pass[o]  BY <1>2, <2>2
  <2> QED  BY <2>1, <2>3
<1>3. ASSUME NEW e \in ComputeEncoders, NEW c \in CmdBufs, ComputeEncoder(e, c)
      PROVE  EncodersOK'
  BY <1>2, <1>3 DEF ComputeEncoder, NewComputeEncoder, Given, Make, AllEncoders
<1>4. ASSUME NEW e \in RenderEncoders, NEW c \in CmdBufs, NEW p, RenderEncoder(e, c, p)
      PROVE  EncodersOK'
  BY <1>2, <1>4 DEF RenderEncoder, NewRenderEncoder, Given, Make, AllEncoders
<1>5. ASSUME UNCHANGED <<objectVars, encCb>>  PROVE EncodersOK'
  BY <1>5 DEF objectVars
<1>6. ASSUME NEW v, NEW i, NEW x, NEW c,
             \/ SetLoadActionClear(v) \/ SetTexture(v, x) \/ Bind(v, i, x)
             \/ Dispatch(v) \/ Draw(v, x) \/ Commit(c)
      PROVE  UNCHANGED <<objectVars, encCb>>
  BY <1>6 DEF SetLoadActionClear, SetTexture, Bind, Dispatch, Draw, Commit, Capture
<1>7. CASE UNCHANGED encodingVars  BY <1>5, <1>7 DEF encodingVars, pointerVars
<1> QED  BY <1>1, <1>3, <1>4, <1>5, <1>6, <1>7 DEF EncodingNext

\* A live encoder's command buffer and pass are known in every reachable state.
LEMMA EncodersInvariance == EncodingSpec => []EncodersOK
<1>1. EncodingInit => EncodersOK  BY DEF EncodingInit, Init, EncodersOK
<1>2. IInv /\ PointersOK /\ EncodersOK /\ [EncodingNext]_encodingVars => EncodersOK'
  BY EncodersKept
<1> QED  BY <1>1, <1>2, RuntimeInvariance, PointersInvariance, PTL DEF EncodingSpec

\* An encoder in use finds its pass allocated.
THEOREM EncodersSafe == EncodingSpec => []EncodingSafe
<1>1. IInv /\ EncodersOK => EncodingSafe
  <2>1. ASSUME IInv, EncodersOK, NEW e \in AllEncoders, Usable(e)
        PROVE  pass[e] \in alive \cup {None}
    <3>1. e \in alive  BY <2>1 DEF Usable
    <3>2. e \in Obj  BY DEF AllEncoders, Obj, Counted
    <3>3. CASE e \in RenderEncoders
      <4>1. e \in Retainers(pass[e])  BY <3>1, <3>3 DEF Retainers
      <4>2. pass[e] \in Obj \cup {None}  BY <2>1, <3>2 DEF IInv, TypeOK
      <4> QED  BY <2>1, <4>1, <4>2 DEF IInv, DeadOK
    <3>4. CASE e \notin RenderEncoders  BY <2>1, <3>2, <3>4 DEF EncodersOK
    <3> QED  BY <3>3, <3>4
  <2> QED  BY <2>1 DEF EncodingSafe
<1> QED  BY <1>1, RuntimeInvariance, EncodersInvariance, PTL

\* A view that stays alive stays in its descriptor.
LEMMA RootKept ==
  ASSUME TypeOK, ViewsFollowOwner, ViewsFollowOwner', NEW v \in Attachments, v \in alive, v \in alive',
         \A o \in alive \cap alive' : owner'[o] = owner[o]
  PROVE  Root(v)' = Root(v)
<1>1. v \in Views  BY DEF Attachments, Views
<1>2. owner'[v] = owner[v]  OBVIOUS
<1>3. CASE v \in Colors
  <2>1. owner[v] \in alive  BY <1>1, <1>3 DEF ViewsFollowOwner
  <2>2. owner'[v] \in alive'  BY <1>1, <1>3 DEF ViewsFollowOwner
  <2>3. owner'[owner[v]] = owner[owner[v]]  BY <1>2, <2>1, <2>2
  <2> QED  BY <1>2, <1>3, <2>3 DEF Root
<1>4. CASE v \notin Colors  BY <1>2, <1>4 DEF Root
<1> QED  BY <1>3, <1>4

\* A call of the object runtime gives the encoders nothing new.
LEMMA ObjectKeepsHanded ==
  ASSUME IInv, IInv', PointersOK, EncodersOK, HandedOK, Object
  PROVE  HandedOK'
<1> USE DEF HandedOK
<1>1. /\ alive' \cap AllEncoders \subseteq alive
      /\ \A o \in alive \cap alive' : pass'[o] = pass[o] /\ owner'[o] = owner[o]
  BY ObjectCallEncoders DEF Object, IInv
<1>2. /\ handed' = handed
      /\ \A c \in CmdBufs : captured'[c] \in {captured[c], {}}
      /\ \A e \in AllEncoders : encCb'[e] = IF e \in alive' THEN encCb[e] ELSE None
      /\ \A e \in AllEncoders : bound'[e] = IF e \in alive' THEN bound[e] ELSE Unbound
      /\ \A v \in Attachments : texture'[v] = IF v \in alive' THEN texture[v] ELSE None
  BY DEF Object
<1>3. \A c \in CmdBufs : captured'[c] \subseteq handed'[c]
  <2>1. ASSUME NEW c \in CmdBufs  PROVE captured'[c] \subseteq handed'[c]
    <3>1. captured'[c] = captured[c] \/ captured'[c] = {}  BY <1>2
    <3> QED  BY <1>2, <3>1
  <2> QED  BY <2>1
<1>4. ASSUME NEW e \in AllEncoders, e \in alive', NEW i \in Slots
      PROVE  bound'[e][i] \in handed'[encCb'[e]] \cup {None}
  BY <1>1, <1>2, <1>4
<1>5. ASSUME NEW e \in RenderEncoders, e \in alive', NEW v \in Attachments, v \in alive',
             Root(v)' = pass'[e]
      PROVE  texture'[v] \in handed'[encCb'[e]] \cup {None}
  <2>1. e \in AllEncoders /\ e \in alive  BY <1>1, <1>5 DEF AllEncoders
  <2>2. encCb'[e] = encCb[e] /\ pass'[e] = pass[e] /\ texture'[v] = texture[v]
    BY <1>1, <1>2, <1>5, <2>1
  <2>3. CASE v \in alive
    <3>1. Root(v)' = Root(v)  BY <1>1, <1>5, <2>3, RootKept DEF IInv
    <3> QED  BY <1>2, <1>5, <2>1, <2>2, <2>3, <3>1
  <2>4. CASE v \notin alive  BY <1>2, <1>5, <2>2, <2>4
  <2> QED  BY <2>3, <2>4
<1>6. /\ \A e \in AllEncoders \ alive' : bound'[e] = Unbound
      /\ \A v \in Attachments \ alive' : texture'[v] = None
  BY <1>2
<1>7. Unbound' = Unbound  BY DEF Unbound
<1> QED  BY <1>3, <1>4, <1>5, <1>6, <1>7

\* A new encoder has no bindings, and what its pass names is handed over with it.
LEMMA NewEncoderKeepsHanded ==
  ASSUME IInv, PointersOK, EncodersOK, HandedOK,
         NEW e \in AllEncoders, NEW c \in CmdBufs,
         e \notin alive, alive' = alive \cup {e}, owner' = owner,
         \A x \in Obj \ {e} : pass'[x] = pass[x],
         encCb' = [encCb EXCEPT ![e] = c], UNCHANGED <<bound, texture>>,
         \A k \in CmdBufs : handed[k] \subseteq handed'[k] /\ captured'[k] \subseteq handed'[k],
         e \in RenderEncoders => Targets(AttachmentsOf(pass'[e])) \subseteq handed'[c]
  PROVE  HandedOK'
<1> USE DEF HandedOK
<1>1. e \notin Attachments /\ e \in Obj
  BY TagsDisjoint DEF Attachments, AllEncoders, Views, Counted, Obj
<1>2. encCb'[e] = c /\ \A x \in AllEncoders \ {e} : encCb'[x] = encCb[x]  BY DEF PointersOK
<1>3. \A x \in AllEncoders \cap alive : encCb[x] \in CmdBufs  BY DEF EncodersOK
<1>4. ASSUME NEW x \in AllEncoders, x \in alive', NEW i \in Slots
      PROVE  bound'[x][i] \in handed'[encCb'[x]] \cup {None}
  <2>1. CASE x = e  BY <2>1 DEF Unbound
  <2>2. CASE x # e
    <3>1. x \in alive /\ encCb'[x] = encCb[x] /\ encCb[x] \in CmdBufs  BY <1>2, <1>3, <1>4, <2>2
    <3>2. bound[x][i] \in handed[encCb[x]] \cup {None}  BY <1>4, <3>1
    <3> QED  BY <3>1, <3>2
  <2> QED  BY <2>1, <2>2
<1>5. ASSUME NEW x \in RenderEncoders, x \in alive', NEW v \in Attachments, v \in alive',
             Root(v)' = pass'[x]
      PROVE  texture'[v] \in handed'[encCb'[x]] \cup {None}
  <2>1. v \in alive /\ Root(v)' = Root(v)  BY <1>1, <1>5 DEF Root
  <2>2. CASE x = e
    <3>1. v \in AttachmentsOf(pass'[e])  BY <1>5, <2>1, <2>2 DEF AttachmentsOf
    <3>2. texture[v] \in Targets(AttachmentsOf(pass'[e])) \cup {None}  BY <3>1 DEF Targets
    <3> QED  BY <1>2, <2>2, <3>2
  <2>3. CASE x # e
    <3>1. x \in AllEncoders /\ x \in Obj /\ x \in alive
      BY <1>5, <2>3 DEF AllEncoders, Obj, Counted
    <3>2. encCb'[x] = encCb[x] /\ encCb[x] \in CmdBufs /\ pass'[x] = pass[x]
      BY <1>2, <1>3, <2>3, <3>1
    <3>3. texture[v] \in handed[encCb[x]] \cup {None}  BY <1>5, <2>1, <3>1, <3>2
    <3> QED  BY <3>2, <3>3
  <2> QED  BY <2>2, <2>3
<1>6. /\ \A x \in AllEncoders \ alive' : bound'[x] = Unbound'
      /\ \A v \in Attachments \ alive' : texture'[v] = None
  BY DEF Unbound
<1> QED  BY <1>4, <1>5, <1>6

\* A call on an encoder hands over what it stores or captures.
LEMMA CallsKeepHanded ==
  ASSUME IInv, PointersOK, EncodersOK, HandedOK,
         UNCHANGED objectVars, UNCHANGED encCb,
         \A c \in CmdBufs : handed[c] \subseteq handed'[c]
  PROVE  /\ (UNCHANGED <<bound, texture>>
               /\ \A c \in CmdBufs : captured'[c] \subseteq handed'[c]) => HandedOK'
         /\ \A e \in AllEncoders, i \in Slots, x \in Objects : Bind(e, i, x) => HandedOK'
         /\ \A v \in Attachments, x \in Objects : SetTexture(v, x) => HandedOK'
<1> USE DEF HandedOK
<1>1. /\ alive' = alive /\ pass' = pass /\ owner' = owner
      /\ \A v : Root(v)' = Root(v)
      /\ Unbound' = Unbound
  BY DEF objectVars, Root, Unbound
<1>2. \A e \in AllEncoders \cap alive : encCb[e] \in CmdBufs /\ encCb'[e] = encCb[e]
  BY DEF EncodersOK
<1>3. RenderEncoders \subseteq AllEncoders  BY DEF AllEncoders
<1>4. ASSUME UNCHANGED bound
      PROVE  \A e \in AllEncoders \cap alive', i \in Slots :
                bound'[e][i] \in handed'[encCb'[e]] \cup {None}
  BY <1>1, <1>2, <1>4
<1>5. ASSUME UNCHANGED texture
      PROVE  \A e \in RenderEncoders \cap alive', v \in Attachments \cap alive' :
                Root(v)' = pass'[e] => texture'[v] \in handed'[encCb'[e]] \cup {None}
  BY <1>1, <1>2, <1>3, <1>5
<1>6. ASSUME UNCHANGED <<bound, texture>>, \A c \in CmdBufs : captured'[c] \subseteq handed'[c]
      PROVE  HandedOK'
  BY <1>1, <1>4, <1>5, <1>6
<1>7. ASSUME NEW e \in AllEncoders, NEW i \in Slots, NEW x \in Objects, Bind(e, i, x)
      PROVE  HandedOK'
  <2>1. e \in alive /\ encCb[e] \in CmdBufs  BY <1>2, <1>7 DEF Bind, Usable
  <2>2. handed' = [handed EXCEPT ![encCb[e]] = handed[encCb[e]] \cup {x}]  BY <1>7 DEF Bind, Hand
  <2>3. x \in handed'[encCb[e]]  BY <2>1, <2>2 DEF PointersOK
  <2>4. bound' = [bound EXCEPT ![e] = [bound[e] EXCEPT ![i] = x]]  BY <1>7 DEF Bind
  <2>5. \A f \in AllEncoders : bound[f] \in [Slots -> Objects \cup {None}]  BY DEF PointersOK
  <2>6. ASSUME NEW f \in AllEncoders, f \in alive', NEW j \in Slots
        PROVE  bound'[f][j] \in handed'[encCb'[f]] \cup {None}
    <3>1. f \in alive /\ encCb'[f] = encCb[f] /\ encCb[f] \in CmdBufs  BY <1>1, <1>2, <2>6
    <3>2. bound[f][j] \in handed'[encCb[f]] \cup {None}  BY <2>6, <3>1
    <3>3. bound'[f][j] = bound[f][j] \/ (f = e /\ bound'[f][j] = x)
      BY <2>4, <2>5 DEF PointersOK
    <3> QED  BY <2>3, <3>1, <3>2, <3>3
  <2>7. \A f \in AllEncoders \ alive' : bound'[f] = Unbound'
    BY <1>1, <2>1, <2>4 DEF PointersOK
  <2>8. texture' = texture /\ captured' = captured  BY <1>7 DEF Bind
  <2> QED  BY <1>1, <1>5, <2>6, <2>7, <2>8
<1>8. ASSUME NEW v \in Attachments, NEW x \in Objects, SetTexture(v, x)  PROVE HandedOK'
  <2>1. v \in alive  BY <1>8 DEF SetTexture, Usable
  <2>2. texture' = [texture EXCEPT ![v] = x] /\ bound' = bound /\ captured' = captured
    BY <1>8 DEF SetTexture
  <2>3. ASSUME NEW e \in RenderEncoders, e \in alive', NEW w \in Attachments, w \in alive',
               Root(w)' = pass'[e]
        PROVE  texture'[w] \in handed'[encCb'[e]] \cup {None}
    <3>1. e \in alive /\ encCb'[e] = encCb[e] /\ encCb[e] \in CmdBufs  BY <1>1, <1>2, <1>3, <2>3
    <3>2. Root(w) = pass[e] /\ w \in alive  BY <1>1, <2>3
    <3>3. CASE w = v
      <4>1. encCb[e] \in {encCb[f] : f \in Retainers(Root(v))}  BY <3>1, <3>2, <3>3 DEF Retainers
      <4>2. x \in handed'[encCb[e]]  BY <1>8, <3>1, <4>1 DEF SetTexture
      <4> QED  BY <2>2, <3>1, <3>3, <4>2 DEF PointersOK
    <3>4. CASE w # v
      <4>1. texture'[w] = texture[w]  BY <2>2, <3>4 DEF PointersOK
      <4> QED  BY <2>3, <3>1, <3>2, <4>1
    <3> QED  BY <3>3, <3>4
  <2>4. \A w \in Attachments \ alive' : texture'[w] = None
    BY <1>1, <2>1, <2>2 DEF PointersOK
  <2> QED  BY <1>1, <1>4, <2>2, <2>3, <2>4
<1> QED  BY <1>6, <1>7, <1>8

\* Nothing reaches an encoder or a closure but through the client's calls.
LEMMA HandedKept ==
  ASSUME IInv, IInv', PointersOK, EncodersOK, HandedOK, [EncodingNext]_encodingVars
  PROVE  HandedOK'
<1>1. CASE Object  BY <1>1, ObjectKeepsHanded
<1>2. ASSUME NEW e \in ComputeEncoders, NEW c \in CmdBufs, ComputeEncoder(e, c)
      PROVE  HandedOK'
  <2>1. /\ e \in AllEncoders /\ e \notin RenderEncoders
        /\ e \notin alive /\ alive' = alive \cup {e} /\ owner' = owner /\ pass' = pass
        /\ encCb' = [encCb EXCEPT ![e] = c]
        /\ UNCHANGED <<bound, texture, captured, handed>>
    BY <1>2, TagsDisjoint
       DEF ComputeEncoder, NewComputeEncoder, Given, Make, AllEncoders, IInv, TypeOK
  <2> QED  BY <2>1, NewEncoderKeepsHanded DEF HandedOK
<1>3. ASSUME NEW e \in RenderEncoders, NEW c \in CmdBufs, NEW p \in Descriptors \cup {None},
             RenderEncoder(e, c, p)
      PROVE  HandedOK'
  <2>1. /\ e \in AllEncoders /\ e \notin alive /\ alive' = alive \cup {e} /\ owner' = owner
        /\ pass' = [pass EXCEPT ![e] = p]
        /\ encCb' = [encCb EXCEPT ![e] = c] /\ UNCHANGED <<bound, texture>>
        /\ captured' = [captured EXCEPT ![c] = captured[c] \cup Targets(AttachmentsOf(p) \cap clears)]
        /\ handed' = [handed EXCEPT ![c] = handed[c] \cup Targets(AttachmentsOf(p))]
    BY <1>3 DEF RenderEncoder, NewRenderEncoder, Given, Make, AllEncoders, Hand, IInv, TypeOK
  <2>2. Targets(AttachmentsOf(p) \cap clears) \subseteq Targets(AttachmentsOf(p))  BY DEF Targets
  <2>3. \A k \in CmdBufs : handed[k] \subseteq handed'[k] /\ captured'[k] \subseteq handed'[k]
    BY <2>1, <2>2 DEF PointersOK, HandedOK
  <2>4. e \in Obj  BY DEF Obj, Counted
  <2>5. pass'[e] = p /\ \A x \in Obj \ {e} : pass'[x] = pass[x]  BY <2>1, <2>4 DEF IInv, TypeOK
  <2>6. Targets(AttachmentsOf(pass'[e])) \subseteq handed'[c]  BY <2>1, <2>5 DEF PointersOK
  <2> QED  BY <2>1, <2>3, <2>5, <2>6, NewEncoderKeepsHanded
<1>4. ASSUME NEW v \in Attachments, NEW x \in Objects, SetTexture(v, x)  PROVE HandedOK'
  <2>1. /\ UNCHANGED objectVars /\ UNCHANGED encCb
        /\ \A c \in CmdBufs : handed[c] \subseteq handed'[c]
    BY <1>4 DEF SetTexture
  <2> QED  BY <1>4, <2>1, CallsKeepHanded
<1>5. ASSUME NEW e \in AllEncoders, NEW i \in Slots, NEW x \in Objects, Bind(e, i, x)
      PROVE  HandedOK'
  <2>1. /\ UNCHANGED objectVars /\ UNCHANGED encCb
        /\ \A c \in CmdBufs : handed[c] \subseteq handed'[c]
    BY <1>5 DEF Bind, Hand, PointersOK
  <2> QED  BY <1>5, <2>1, CallsKeepHanded
<1>6. ASSUME NEW e \in AllEncoders, e \in alive, NEW pointers, NEW things,
             Capture(encCb[e], pointers), Hand(encCb[e], things) \/ handed' = handed,
             pointers \ {None} \subseteq handed'[encCb[e]]
      PROVE  HandedOK'
  <2>1. encCb[e] \in CmdBufs  BY <1>6 DEF EncodersOK
  <2>2. \A c \in CmdBufs : handed[c] \subseteq handed'[c]  BY <1>6 DEF Hand, PointersOK
  <2>3. captured' = [captured EXCEPT ![encCb[e]] = captured[encCb[e]] \cup (pointers \ {None})]
    BY <1>6 DEF Capture
  <2>4. \A c \in CmdBufs : captured'[c] \subseteq handed'[c]
    BY <1>6, <2>2, <2>3 DEF HandedOK, PointersOK
  <2>5. UNCHANGED objectVars /\ UNCHANGED encCb /\ UNCHANGED <<bound, texture>>
    BY <1>6 DEF Capture
  <2> QED  BY <2>2, <2>4, <2>5, CallsKeepHanded
<1>7. ASSUME NEW e \in AllEncoders, e \in alive
      PROVE  Bindings(e) \ {None} \subseteq handed[encCb[e]]
  BY <1>7 DEF Bindings, HandedOK
<1>8. ASSUME NEW e \in ComputeEncoders, Dispatch(e)  PROVE HandedOK'
  <2>1. e \in AllEncoders /\ e \in alive  BY <1>8 DEF AllEncoders, Dispatch, MayEncode, Usable
  <2> QED  BY <1>6, <1>7, <1>8, <2>1 DEF Dispatch
<1>9. ASSUME NEW e \in RenderEncoders, NEW x \in Objects, Draw(e, x)  PROVE HandedOK'
  <2>1. e \in AllEncoders /\ e \in alive  BY <1>9 DEF AllEncoders, Draw, MayEncode, Usable
  <2>2. encCb[e] \in CmdBufs  BY <2>1 DEF EncodersOK
  <2>3. Targets(AttachmentsOf(pass[e])) \subseteq handed[encCb[e]]
    BY <2>1 DEF Targets, AttachmentsOf, HandedOK
  <2>4. handed' = [handed EXCEPT ![encCb[e]] = handed[encCb[e]] \cup {x}]  BY <1>9 DEF Draw, Hand
  <2>5. (Bindings(e) \cup {x} \cup Targets(AttachmentsOf(pass[e]))) \ {None} \subseteq handed'[encCb[e]]
    BY <1>7, <2>1, <2>2, <2>3, <2>4 DEF PointersOK
  <2> QED  BY <1>6, <1>9, <2>1, <2>5 DEF Draw
<1>10. ASSUME UNCHANGED <<objectVars, encCb, bound, texture, captured, handed>>  PROVE HandedOK'
  BY <1>10, CallsKeepHanded DEF HandedOK
<1>11. ASSUME NEW v, NEW c, SetLoadActionClear(v) \/ Commit(c) \/ UNCHANGED encodingVars
       PROVE  HandedOK'
  BY <1>10, <1>11 DEF SetLoadActionClear, Commit, encodingVars, pointerVars
<1> QED  BY <1>1, <1>2, <1>3, <1>4, <1>5, <1>8, <1>9, <1>11 DEF EncodingNext

\* A client that holds what it handed over until it commits has every pointer the
\* queued work dereferences alive: no closure reaches anything else.
THEOREM CommitReadsLive ==
  ASSUME KeepsResources
  PROVE  EncodingSpec => []CommitSafe
<1>1. EncodingInit => HandedOK
  BY DEF EncodingInit, Init, HandedOK
<1>2. IInv /\ IInv' /\ PointersOK /\ EncodersOK /\ HandedOK /\ [EncodingNext]_encodingVars
        => HandedOK'
  BY HandedKept
<1>3. IInv /\ PointersOK /\ HandedOK => CommitSafe
  <2>1. ASSUME IInv, PointersOK, HandedOK, NEW c \in CmdBufs, MayCommit(c),
               NEW x \in captured[c]
        PROVE  x \in alive
    <3>1. x \in handed[c]  BY <2>1 DEF HandedOK
    <3>2. x \in Counted  BY <2>1, <3>1 DEF PointersOK, Counted
    <3>3. Held(x)  BY <2>1, <3>1 DEF MayCommit
    <3> QED  BY <2>1, <3>2, <3>3, HeldIsAlive
  <2> QED  BY <2>1 DEF CommitSafe
<1> QED
  BY <1>1, <1>2, <1>3, RuntimeInvariance, PointersInvariance, EncodersInvariance, PTL
     DEF EncodingSpec
=============================================================================
