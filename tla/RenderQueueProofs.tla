------------------------- MODULE RenderQueueProofs --------------------------
(***************************************************************************)
(* The order of clears and draws in the queue, for any number of command    *)
(* buffers, encoders, descriptors and attachments.                           *)
(***************************************************************************)
EXTENDS RenderQueue, TLAPS, WellFoundedInduction

\* The states of an attachment.
AttachmentStates == [texture : Textures \cup {None}, clear : BOOLEAN]

TypeInv ==
    /\ attachment \in [Descriptors -> [Attachments -> AttachmentStates]]
    /\ cb \in [Encoders -> CmdBufs \cup {None}]
    /\ pass \in [Encoders -> Descriptors \cup {None}]
    /\ vbuf \in [Encoders -> Vertices \cup {None}]
    /\ ftex \in [Encoders -> Samples \cup {None}]
    /\ work \in [CmdBufs -> Seq(Items)]
    /\ DOMAIN data = Textures
    /\ open \subseteq Encoders /\ sets \in 0..MaxSets /\ commits \in 0..MaxCommits

LEMMA Bounds == MaxSets \in Nat /\ MaxCommits \in Nat
BY BoundsType

\* Slot 0 and the depth slot are attachments.
LEMMA Slots == 0 \in Attachments /\ Depth \in Attachments
BY ColorType DEF Attachments

\* The textures of a pass.
LEMMA TargetType ==
  ASSUME TypeInv, NEW p \in Descriptors \cup {None}, NEW a \in Attachments
  PROVE  Target(p, a) \in Textures \cup {None}
BY DEF TypeInv, Target, AttachmentStates

\* A new encoder queues nothing, or one item that clears.
LEMMA LoadActionsType ==
  ASSUME TypeInv, NEW e \in Encoders, NEW p \in Descriptors \cup {None}
  PROVE  \/ LoadActions(e, p) = <<>> /\ LoadsClear(p) \ {None} = {}
         \/ \E x \in Items : /\ LoadActions(e, p) = <<x>>
                             /\ x.kind = "clear" /\ x.by = e /\ x.on = LoadsClear(p) \ {None}
<1> DEFINE on == LoadsClear(p) \ {None}
           x == [kind |-> "clear", by |-> e, on |-> on]
<1>1. on \subseteq Textures  BY TargetType DEF LoadsClear
<1>2. CASE on = {}  BY <1>2 DEF LoadActions
<1>3. CASE on # {}
  <2>1. on \in (SUBSET Textures) \ {{}}  BY <1>1, <1>3
  <2> HIDE DEF on
  <2>2. x \in Items  BY <2>1 DEF Items
  <2>3. x.kind = "clear" /\ x.by = e /\ x.on = on  OBVIOUS
  <2>4. LoadActions(e, p) = <<x>>  BY <1>3 DEF LoadActions, on
  <2> HIDE DEF x
  <2> QED  BY <2>2, <2>3, <2>4 DEF on
<1> QED  BY <1>2, <1>3

\* A draw is an item.
LEMMA DrawStateType ==
  ASSUME TypeInv, NEW e \in Encoders
  PROVE  DrawState(e) \in Items
<1>1. Target(pass[e], 0) \in Textures \cup {None} /\ Target(pass[e], Depth) \in Textures \cup {None}
  BY TargetType, Slots DEF TypeInv
<1>2. vbuf[e] \in Vertices \cup {None} /\ ftex[e] \in Samples \cup {None}  BY DEF TypeInv
<1> QED  BY <1>1, <1>2 DEF DrawState, Items

\* One item more in a queue.
LEMMA Appended ==
  ASSUME NEW S, NEW s \in Seq(S), NEW x \in S
  PROVE  /\ s \o <<x>> \in Seq(S)
         /\ Len(s) \in Nat /\ Len(s \o <<x>>) = Len(s) + 1
         /\ DOMAIN s = 1..Len(s) /\ DOMAIN (s \o <<x>>) = 1..Len(s) + 1
         /\ \A i \in 1..Len(s) : (s \o <<x>>)[i] = s[i]
         /\ (s \o <<x>>)[Len(s) + 1] = x
OBVIOUS

\* Types are kept.
LEMMA Types == Spec => []TypeInv
<1>1. Init => TypeInv
  BY Bounds DEF Init, TypeInv, AttachmentStates, Unset
<1>2. TypeInv /\ [Next]_vars => TypeInv'
  <2> SUFFICES ASSUME TypeInv, [Next]_vars  PROVE TypeInv'
    OBVIOUS
  <2> USE Bounds
  <2>1. ASSUME NEW p \in Descriptors, NEW a \in Attachments, NEW t \in Textures \cup {None},
               NEW clear \in BOOLEAN, SetAttachment(p, a, t, clear)
        PROVE  TypeInv'
    <3> DEFINE r == [texture |-> t, clear |-> clear]
    <3>1. r \in AttachmentStates  BY DEF AttachmentStates
    <3>2. attachment' = [attachment EXCEPT ![p][a] = r]  BY <2>1 DEF SetAttachment
    <3> HIDE DEF r
    <3>3. attachment' \in [Descriptors -> [Attachments -> AttachmentStates]]
      BY <3>1, <3>2 DEF TypeInv
    <3> QED  BY <2>1, <3>3 DEF SetAttachment, TypeInv
  <2>2. ASSUME NEW e \in Encoders, NEW c \in CmdBufs, NEW p \in Descriptors \cup {None},
               NewRenderEncoder(e, c, p)
        PROVE  TypeInv'
    <3>1. work' = [work EXCEPT ![c] = work[c] \o LoadActions(e, p)]
      BY <2>2 DEF NewRenderEncoder, Enqueue
    <3>2. work[c] \o LoadActions(e, p) \in Seq(Items)
      <4>1. work[c] \in Seq(Items)  BY DEF TypeInv
      <4>2. CASE LoadActions(e, p) = <<>>  BY <4>1, <4>2
      <4>3. CASE \E x \in Items : LoadActions(e, p) = <<x>>  BY <4>1, <4>3, Appended
      <4> QED  BY <4>2, <4>3, LoadActionsType
    <3>3. work' \in [CmdBufs -> Seq(Items)]  BY <3>1, <3>2 DEF TypeInv
    <3> QED  BY <2>2, <3>3 DEF NewRenderEncoder, TypeInv
  <2>3. ASSUME NEW e \in Encoders, NEW v \in Vertices, SetVertexBuffer(e, v)
        PROVE  TypeInv'
    BY <2>3 DEF SetVertexBuffer, TypeInv
  <2>4. ASSUME NEW e \in Encoders, NEW t \in Samples, SetFragmentTexture(e, t)
        PROVE  TypeInv'
    BY <2>4 DEF SetFragmentTexture, TypeInv
  <2>5. ASSUME NEW e \in Encoders, DrawIndexed(e)  PROVE TypeInv'
    <3>1. work' = [work EXCEPT ![cb[e]] = work[cb[e]] \o <<DrawState(e)>>]
          \/ work' = work
      <4>1. work' = [work EXCEPT ![cb[e]] = @ \o <<DrawState(e)>>]
        BY <2>5 DEF DrawIndexed, Enqueue
      <4>2. CASE cb[e] \in CmdBufs  BY <4>1, <4>2 DEF TypeInv
      <4>3. CASE cb[e] \notin CmdBufs  BY <4>1, <4>3 DEF TypeInv
      <4> QED  BY <4>2, <4>3
    <3>2. ASSUME cb[e] \in CmdBufs  PROVE work[cb[e]] \o <<DrawState(e)>> \in Seq(Items)
      <4>1. work[cb[e]] \in Seq(Items)  BY <3>2 DEF TypeInv
      <4> QED  BY <4>1, DrawStateType, Appended
    <3>3. work' \in [CmdBufs -> Seq(Items)]  BY <3>1, <3>2 DEF TypeInv
    <3> QED  BY <2>5, <3>3 DEF DrawIndexed, TypeInv
  <2>6. ASSUME NEW e \in Encoders, EndEncoding(e)  PROVE TypeInv'
    BY <2>6 DEF EndEncoding, TypeInv
  <2>7. ASSUME NEW c \in CmdBufs, Commit(c)  PROVE TypeInv'
    <3>1. DOMAIN data' = Textures  BY <2>7 DEF Commit, RunAll
    <3> QED  BY <2>7, <3>1 DEF Commit, TypeInv
  <2>8. CASE UNCHANGED vars  BY <2>8 DEF vars, TypeInv
  <2> QED  BY <2>1, <2>2, <2>3, <2>4, <2>5, <2>6, <2>7, <2>8 DEF Next
<1> QED  BY <1>1, <1>2, PTL DEF Spec

\* Every attachment, binding and queued item is of its kind, however long the queues are.
THEOREM QueueTypes == Spec => []QueueTypeOK
<1>1. TypeInv => QueueTypeOK
  <2> SUFFICES ASSUME TypeInv  PROVE QueueTypeOK
    OBVIOUS
  <2>1. \A c \in CmdBufs : \A i \in DOMAIN work[c] : work[c][i] \in Items  BY DEF TypeInv
  <2> QED  BY <2>1 DEF TypeInv, QueueTypeOK, AttachmentStates
<1> QED  BY <1>1, Types, PTL

-----------------------------------------------------------------------------
(* The order of the queue. ClearsLead is not inductive: it says nothing of    *)
(* where the items of an open encoder stand, so that a draw it queues next     *)
(* could follow another encoder's.                                            *)

\* A command buffer has at most one open encoder.
OneOpen ==
    /\ \A e \in open : cb[e] \in CmdBufs
    /\ \A e, f \in open : cb[e] = cb[f] => e = f

\* An encoder queues on the command buffer it was created on.
Placed == \A c \in CmdBufs : \A i \in DOMAIN work[c] : cb[work[c][i].by] = c

\* The items of an encoder stand together, and only the first may be a clear.
Blocks ==
    \A c \in CmdBufs : \A i, j \in DOMAIN work[c] :
        i < j /\ work[c][i].by = work[c][j].by =>
            work[c][j].kind = "draw" /\ \A k \in i..j : work[c][k].by = work[c][i].by

\* Nothing was queued after the items of an open encoder.
StillLast ==
    \A e \in open : \A i, j \in DOMAIN work[cb[e]] :
        i < j /\ work[cb[e]][i].by = e => work[cb[e]][j].by = e

QueueInv == OneOpen /\ Placed /\ Blocks /\ StillLast

\* A step that queues nothing and opens no encoder disturbs no order.
LEMMA QueuesNothing ==
  ASSUME QueueInv, UNCHANGED <<cb, work>>, open' \subseteq open
  PROVE  QueueInv'
<1>1. OneOpen'  BY DEF QueueInv, OneOpen
<1>2. Placed' /\ Blocks' /\ StillLast'  BY DEF QueueInv, Placed, Blocks, StillLast
<1> QED  BY <1>1, <1>2 DEF QueueInv

\* The order is kept when the open encoder e of c queues x, a draw or its first item.
LEMMA QueuesOne ==
  ASSUME TypeInv, QueueInv, NEW c \in CmdBufs, NEW e \in Encoders, NEW x \in Items,
         work' = [work EXCEPT ![c] = work[c] \o <<x>>],
         x.by = e, e \in open', cb'[e] = c, OneOpen',
         \A f \in Encoders \ {e} : cb'[f] = cb[f], open' \ {e} \subseteq open,
         \/ e \in open /\ cb[e] = c /\ x.kind = "draw"
         \/ cb[e] = None
  PROVE  Placed' /\ Blocks' /\ StillLast'
<1> DEFINE n == Len(work[c])
<1>1. /\ \A d \in CmdBufs : d # c => work'[d] = work[d]
      /\ n \in Nat /\ DOMAIN work[c] = 1..n /\ DOMAIN work'[c] = 1..n + 1
      /\ \A i \in 1..n : work'[c][i] = work[c][i]
      /\ work'[c][n + 1] = x
  <2>1. /\ \A d \in CmdBufs : d # c => work'[d] = work[d]
        /\ Len(work[c]) \in Nat /\ DOMAIN work[c] = 1..Len(work[c])
        /\ DOMAIN work'[c] = 1..Len(work[c]) + 1
        /\ \A i \in 1..Len(work[c]) : work'[c][i] = work[c][i]
        /\ work'[c][Len(work[c]) + 1] = x
    <3>1. work[c] \in Seq(Items) /\ work'[c] = work[c] \o <<x>>  BY DEF TypeInv
    <3>2. \A d \in CmdBufs : d # c => work'[d] = work[d]  BY DEF TypeInv
    <3> QED  BY <3>1, <3>2, Appended
  <2> QED  BY <2>1, Zenon DEF n
<1> HIDE DEF n
<1>2. \A d \in CmdBufs : \A i \in DOMAIN work[d] : work[d][i].by \in Encoders
  BY DEF TypeInv, Items
<1>3. \A d \in CmdBufs : \A i \in DOMAIN work[d] : cb[work[d][i].by] = d
  BY DEF QueueInv, Placed
<1>4. ASSUME cb[e] = None  PROVE \A d \in CmdBufs : \A i \in DOMAIN work[d] : work[d][i].by # e
  BY <1>3, <1>4, NoneType
<1>5. Placed'
  <2> SUFFICES ASSUME NEW d \in CmdBufs, NEW i \in DOMAIN work'[d]  PROVE cb'[work'[d][i].by] = d
    BY DEF Placed
  <2>1. CASE d = c /\ i = n + 1  BY <2>1, <1>1
  <2>2. CASE ~(d = c /\ i = n + 1)
    <3>1. i \in DOMAIN work[d] /\ work'[d][i] = work[d][i]  BY <2>2, <1>1
    <3>2. CASE work[d][i].by = e
      <4>1. cb[e] = d  BY <3>1, <3>2, <1>3
      <4>2. cb[e] # None  BY <4>1, NoneType
      <4> QED  BY <4>1, <4>2, <3>1, <3>2
    <3>3. CASE work[d][i].by # e  BY <3>1, <3>3, <1>2, <1>3
    <3> QED  BY <3>2, <3>3
  <2> QED  BY <2>1, <2>2
<1>6. ASSUME NEW i \in 1..n, work[c][i].by = e
      PROVE  x.kind = "draw" /\ \A k \in i..n : work[c][k].by = e
  <2>1. e \in open /\ cb[e] = c /\ x.kind = "draw"  BY <1>6, <1>4, <1>1
  <2>2. \A k \in i..n : k \in 1..n /\ (k = i \/ i < k)  BY <1>1
  <2>3. \A k \in DOMAIN work[cb[e]] : i < k => work[cb[e]][k].by = e
    <3>1. \A a, b \in DOMAIN work[cb[e]] :
            a < b /\ work[cb[e]][a].by = e => work[cb[e]][b].by = e
      BY <2>1, Zenon DEF QueueInv, StillLast
    <3>2. i \in DOMAIN work[cb[e]] /\ work[cb[e]][i].by = e  BY <2>1, <1>6, <1>1
    <3> QED  BY <3>1, <3>2
  <2> QED  BY <2>1, <2>2, <2>3, <1>1, <1>6
\* Only the items of c can disturb the blocks.
<1> DEFINE Good(s) == \A i, j \in DOMAIN s :
                        i < j /\ s[i].by = s[j].by
                          => s[j].kind = "draw" /\ \A k \in i..j : s[k].by = s[i].by
<1>b. Good(work'[c])
  <2> SUFFICES ASSUME NEW i \in DOMAIN work'[c], NEW j \in DOMAIN work'[c],
                      i < j, work'[c][i].by = work'[c][j].by
               PROVE  work'[c][j].kind = "draw" /\ \A k \in i..j : work'[c][k].by = work'[c][i].by
    BY ZenonT(30)
  <2>2. CASE j \in 1..n
    <3>1. i \in 1..n /\ \A k \in i..j : k \in 1..n
      <4>1. n \in Nat /\ i \in 1..n + 1  BY <1>1
      <4> QED  BY <2>2, <4>1
    <3>2. \A k \in 1..n : work'[c][k] = work[c][k]  BY <1>1
    <3>3. i \in DOMAIN work[c] /\ j \in DOMAIN work[c] /\ work[c][i].by = work[c][j].by
      <4>1. DOMAIN work[c] = 1..n  BY <1>1
      <4> QED  BY <2>2, <3>1, <3>2, <4>1
    <3>4. work[c][j].kind = "draw" /\ \A k \in i..j : work[c][k].by = work[c][i].by
      BY <3>3 DEF QueueInv, Blocks
    <3> QED  BY <2>2, <3>1, <3>2, <3>4
  <2>3. CASE j = n + 1
    <3>1. i \in 1..n /\ work[c][i].by = e  BY <2>3, <1>1
    <3>2. x.kind = "draw" /\ \A k \in i..n : work[c][k].by = e  BY <3>1, <1>6
    <3>3. \A k \in i..j : k = n + 1 \/ (k \in i..n /\ k \in 1..n)  BY <3>1, <2>3, <1>1
    <3>4. work'[c][i].by = e /\ work'[c][j].kind = "draw"  BY <2>3, <3>1, <3>2, <1>1
    <3>5. ASSUME NEW k \in i..j  PROVE work'[c][k].by = e
      <4>1. CASE k = n + 1  BY <4>1, <1>1
      <4>2. CASE k \in i..n /\ k \in 1..n  BY <4>2, <3>2, <1>1
      <4> QED  BY <3>3, <4>1, <4>2
    <3> QED  BY <3>4, <3>5, Zenon
  <2> QED  BY <2>2, <2>3, <1>1
<1>c. \A d \in CmdBufs : Good(work[d])  BY DEF QueueInv, Blocks
<1>7. Blocks'
  <2>1. \A d \in CmdBufs : Good(work'[d])
    <3> HIDE DEF Good
    <3> QED  BY <1>1, <1>b, <1>c, Zenon
  <2> QED  BY <2>1, Zenon DEF Blocks
<1>8. StillLast'
  <2> SUFFICES ASSUME NEW f \in open', NEW i \in DOMAIN work'[cb'[f]], NEW j \in DOMAIN work'[cb'[f]],
                      i < j, work'[cb'[f]][i].by = f
               PROVE  work'[cb'[f]][j].by = f
    BY DEF StillLast
  <2>1. CASE f = e
    <3>1. i \in 1..n /\ work[c][i].by = e  BY <2>1, <1>1
    <3>2. \A k \in i..n : work[c][k].by = e  BY <3>1, <1>6
    <3>3. CASE j = n + 1  BY <2>1, <3>3, <1>1
    <3>4. CASE j # n + 1
      <4>1. j \in 1..n /\ j \in i..n  BY <2>1, <3>1, <3>4, <1>1
      <4> QED  BY <2>1, <4>1, <3>2, <1>1
    <3> QED  BY <3>3, <3>4
  <2>2. CASE f # e
    <3>1. f \in open /\ f \in Encoders /\ cb'[f] = cb[f]  BY <2>2 DEF TypeInv
    <3>2. cb'[f] \in CmdBufs /\ cb'[f] # c  BY <2>2 DEF OneOpen
    <3>3. work'[cb[f]] = work[cb[f]]  BY <3>1, <3>2, <1>1
    <3>4. i \in DOMAIN work[cb[f]] /\ j \in DOMAIN work[cb[f]] /\ work[cb[f]][i].by = f
      BY <3>1, <3>3
    <3>5. work[cb[f]][j].by = f  BY <3>1, <3>4 DEF QueueInv, StillLast
    <3> QED  BY <3>1, <3>3, <3>5
  <2> QED  BY <2>1, <2>2
<1> QED  BY <1>5, <1>7, <1>8

\* The order is kept by every step.
LEMMA Order == Spec => []QueueInv
<1>1. Init => QueueInv
  BY DEF Init, QueueInv, OneOpen, Placed, Blocks, StillLast
<1>2. TypeInv /\ QueueInv /\ [Next]_vars => QueueInv'
  <2> SUFFICES ASSUME TypeInv, QueueInv, [Next]_vars  PROVE QueueInv'
    OBVIOUS
  <2>1. ASSUME NEW p \in Descriptors, NEW a \in Attachments, NEW t \in Textures \cup {None},
               NEW clear \in BOOLEAN, SetAttachment(p, a, t, clear)
        PROVE  QueueInv'
    BY <2>1, QueuesNothing DEF SetAttachment
  <2>2. ASSUME NEW e \in Encoders, NEW c \in CmdBufs, NEW p \in Descriptors \cup {None},
               NewRenderEncoder(e, c, p)
        PROVE  QueueInv'
    <3>1. /\ cb[e] = None /\ \A x \in open : cb[x] # c
          /\ cb' = [cb EXCEPT ![e] = c]
          /\ open' = open \cup {e}
          /\ work' = [work EXCEPT ![c] = work[c] \o LoadActions(e, p)]
      BY <2>2 DEF NewRenderEncoder, Enqueue
    <3>2. cb'[e] = c /\ \A f \in Encoders \ {e} : cb'[f] = cb[f]
      BY <3>1 DEF TypeInv
    <3>3. e \notin open  BY <3>1, NoneType DEF QueueInv, OneOpen
    <3>4. OneOpen'  BY <3>1, <3>2, <3>3 DEF QueueInv, OneOpen, TypeInv
    <3>5. \A d \in CmdBufs : \A i \in DOMAIN work[d] :
             work[d][i].by \in Encoders /\ work[d][i].by # e
      BY <3>1, NoneType DEF QueueInv, Placed, TypeInv, Items
    <3>6. CASE LoadActions(e, p) = <<>>
      <4>1. work' = work  BY <3>1, <3>6 DEF TypeInv
      <4>2. Placed'  BY <4>1, <3>2, <3>5 DEF QueueInv, Placed
      <4>3. Blocks'  BY <4>1 DEF QueueInv, Blocks
      <4>4. StillLast'
        <5> SUFFICES ASSUME NEW f \in open', NEW i \in DOMAIN work[cb'[f]],
                            NEW j \in DOMAIN work[cb'[f]], i < j, work[cb'[f]][i].by = f
                     PROVE  work[cb'[f]][j].by = f
          BY <4>1 DEF StillLast
        <5>1. f # e  BY <3>2, <3>5
        <5>2. f \in open /\ f \in Encoders /\ cb'[f] = cb[f]  BY <5>1, <3>1, <3>2 DEF TypeInv
        <5> QED  BY <5>2 DEF QueueInv, StillLast
      <4> QED  BY <3>4, <4>2, <4>3, <4>4 DEF QueueInv
    <3>7. ASSUME NEW x \in Items, LoadActions(e, p) = <<x>>, x.kind = "clear", x.by = e
          PROVE  QueueInv'
      <4>1. work' = [work EXCEPT ![c] = work[c] \o <<x>>]  BY <3>1, <3>7
      <4>2. open' \ {e} \subseteq open /\ e \in open' /\ cb[e] = None  BY <3>1
      <4>3. \A f \in Encoders \ {e} : cb'[f] = cb[f]  BY <3>2
      <4>4. Placed' /\ Blocks' /\ StillLast'
        BY <4>1, <4>2, <4>3, <3>2, <3>4, <3>7, QueuesOne
      <4> QED  BY <3>4, <4>4 DEF QueueInv
    <3> QED  BY <3>6, <3>7, LoadActionsType
  <2>3. ASSUME NEW e \in Encoders, NEW v \in Vertices, SetVertexBuffer(e, v)
        PROVE  QueueInv'
    BY <2>3, QueuesNothing DEF SetVertexBuffer
  <2>4. ASSUME NEW e \in Encoders, NEW t \in Samples, SetFragmentTexture(e, t)
        PROVE  QueueInv'
    BY <2>4, QueuesNothing DEF SetFragmentTexture
  <2>5. ASSUME NEW e \in Encoders, DrawIndexed(e)  PROVE QueueInv'
    <3> DEFINE c == cb[e]
               x == DrawState(e)
    <3>1. e \in open /\ UNCHANGED <<cb, open>> /\ c \in CmdBufs
          /\ work' = [work EXCEPT ![c] = work[c] \o <<x>>]
      <4>1. e \in open /\ UNCHANGED <<cb, open>> /\ c \in CmdBufs
        BY <2>5 DEF DrawIndexed, QueueInv, OneOpen
      <4> QED  BY <4>1, <2>5 DEF DrawIndexed, Enqueue
    <3>2. x \in Items  BY DrawStateType
    <3>3. x.kind = "draw" /\ x.by = e  BY DEF DrawState
    <3>4. OneOpen'  BY <3>1 DEF QueueInv, OneOpen
    <3>5. cb'[e] = c /\ cb[e] = c  BY <3>1
    <3> HIDE DEF x, c
    <3>6. Placed' /\ Blocks' /\ StillLast'
      <4>1. open' \ {e} \subseteq open /\ e \in open'  BY <3>1
      <4>2. \A f \in Encoders \ {e} : cb'[f] = cb[f]  BY <3>1
      <4> QED  BY <4>1, <4>2, <3>1, <3>2, <3>3, <3>4, <3>5, QueuesOne
    <3> QED  BY <3>4, <3>6 DEF QueueInv
  <2>6. ASSUME NEW e \in Encoders, EndEncoding(e)  PROVE QueueInv'
    BY <2>6, QueuesNothing DEF EndEncoding
  <2>7. ASSUME NEW c \in CmdBufs, Commit(c)  PROVE QueueInv'
    BY <2>7, QueuesNothing DEF Commit
  <2>8. CASE UNCHANGED vars  BY <2>8, QueuesNothing DEF vars
  <2> QED  BY <2>1, <2>2, <2>3, <2>4, <2>5, <2>6, <2>7, <2>8 DEF Next
<1> QED  BY <1>1, <1>2, Types, PTL DEF Spec

\* Clears come before the draws of their encoder and no other encoder's work stands between.
THEOREM ClearsFirst == Spec => []ClearsLead
<1>1. QueueInv => ClearsLead
  BY DEF QueueInv, Blocks, ClearsLead
<1> QED  BY <1>1, Order, PTL

-----------------------------------------------------------------------------
(* Recursion over a queue. The passes of a queue, what they leave on a        *)
(* texture, and what the closures leave on it are recursive functions of it;  *)
(* that < is well-founded on the naturals gives induction, and induction that *)
(* such functions exist and agree.                                            *)

\* A set of naturals with an element has a least one.
LEMMA Least ==
  ASSUME NEW T \in SUBSET Nat, T # {}
  PROVE  \E m \in T : \A n \in T : m <= n
<1>1. PICK m \in T : \A n \in T : ~ (<<n, m>> \in OpToRel(<, Nat))
  BY NatLessThanWellFounded, WFMin
<1>2. ASSUME NEW n \in T  PROVE ~ n < m
  <2>1. m \in Nat /\ n \in Nat  OBVIOUS
  <2>2. n < m => <<n, m>> \in {p \in Nat \X Nat : p[1] < p[2]}  BY <2>1
  <2>3. n < m => <<n, m>> \in OpToRel(<, Nat)  BY <2>2 DEF OpToRel
  <2> QED  BY <1>1, <2>3
<1> QED  BY <1>2

\* A set with 0, and the successor of each of its numbers up to k, has all numbers up to k.
LEMMA Induction ==
  ASSUME NEW S, NEW k \in Nat, 0 \in S, \A n \in 0..k - 1 : n \in S => n + 1 \in S
  PROVE  \A n \in 0..k : n \in S
<1> SUFFICES ASSUME NEW n \in 0..k, n \notin S  PROVE FALSE
  OBVIOUS
<1> DEFINE T == {m \in 0..k : m \notin S}
<1>1. T \in SUBSET Nat /\ T # {}  OBVIOUS
<1>2. PICK m \in T : \A i \in T : m <= i  BY <1>1, Least
<1>3. m # 0 /\ m - 1 \in 0..k - 1 /\ (m - 1) + 1 = m  BY <1>2
<1>4. m - 1 \in S  BY <1>2, <1>3
<1> QED  BY <1>2, <1>3, <1>4

\* f takes k steps in V, from its first value.
Steps(k, V) == [(1..k) \X V -> V]

Takes(f, k, V, first, next) ==
    f \in [0..k -> V] /\ f[0] = first /\ \A n \in 1..k : f[n] = next[<<n, f[n-1]>>]

\* A function may be defined by its first value and each next one.
LEMMA RecursionExists ==
  ASSUME NEW k \in Nat, NEW V, NEW first \in V, NEW next \in Steps(k, V)
  PROVE  \E f : Takes(f, k, V, first, next)
<1> USE DEF Steps
<1> DEFINE Defined(f, m) == /\ f \in [0..m -> V] /\ f[0] = first
                            /\ \A n \in 1..m : f[n] = next[<<n, f[n-1]>>]
           S == {m \in 0..k : \E f : Defined(f, m)}
<1>1. 0 \in S
  <2>1. Defined([n \in 0..0 |-> first], 0)  OBVIOUS
  <2> HIDE DEF Defined
  <2> QED  BY <2>1
<1>2. ASSUME NEW m \in 0..k - 1, m \in S  PROVE m + 1 \in S
  <2>1. PICK f : Defined(f, m)  BY <1>2
  <2> DEFINE g == [n \in 0..m + 1 |-> IF n = m + 1 THEN next[<<m + 1, f[m]>>] ELSE f[n]]
  <2>2. f[m] \in V /\ m + 1 \in 1..k  BY <2>1
  <2>3. next[<<m + 1, f[m]>>] \in V  BY <2>2
  <2>4. \A n \in 0..m : n \in 0..m + 1 /\ n # m + 1 /\ f[n] \in V  BY <2>1
  <2>5. g \in [0..m + 1 -> V]  BY <2>3, <2>4
  <2>6. \A n \in 0..m : g[n] = f[n]  BY <2>4
  <2>7. g[m + 1] = next[<<m + 1, f[m]>>]  OBVIOUS
  <2> HIDE DEF g
  <2>8. ASSUME NEW n \in 1..m + 1  PROVE g[n] = next[<<n, g[n-1]>>]
    <3>1. n - 1 \in 0..m  OBVIOUS
    <3>2. CASE n = m + 1  BY <2>6, <2>7, <3>1, <3>2
    <3>3. CASE n # m + 1
      <4>1. n \in 1..m /\ n \in 0..m  BY <3>3
      <4> QED  BY <2>1, <2>6, <3>1, <4>1
    <3> QED  BY <3>2, <3>3
  <2>9. Defined(g, m + 1)  BY <2>1, <2>5, <2>6, <2>8
  <2> QED  BY <2>2, <2>9
<1> HIDE DEF S, Defined
<1>3. k \in S  BY <1>1, <1>2, Induction
<1> QED  BY <1>3 DEF S, Defined, Takes

\* Two functions that begin alike and go on alike are the same.
Alike(f, g, k) == f[0] = g[0] /\ \A n \in 1..k : f[n-1] = g[n-1] => f[n] = g[n]

Same(f, g, k) == \A n \in 0..k : f[n] = g[n]

LEMMA Agree ==
  ASSUME NEW k \in Nat, NEW f, NEW g, Alike(f, g, k)
  PROVE  Same(f, g, k)
<1> USE DEF Alike
<1> DEFINE S == {n \in 0..k : f[n] = g[n]}
<1>1. 0 \in S  OBVIOUS
<1>2. ASSUME NEW n \in 0..k - 1, n \in S  PROVE n + 1 \in S
  <2>1. n + 1 \in 1..k /\ (n + 1) - 1 = n  OBVIOUS
  <2> QED  BY <1>2, <2>1
<1> HIDE DEF S
<1>3. \A n \in 0..k : n \in S  BY <1>1, <1>2, Induction
<1> QED  BY <1>3 DEF S, Same

-----------------------------------------------------------------------------
(* The passes of a queue, and what they leave.                               *)

Marks == (Vertices \cup {None}) \X (Samples \cup {None})
DrawRecords == [onto : SUBSET Textures, mark : Marks]
Passes == [clears : SUBSET Textures, draws : Seq(DrawRecords)]
MarkLists == Seq(Marks)
PassLists == Seq(Passes)
Contents == Seq({Cleared} \cup Marks)
Pictures == [Textures -> Contents]

\* The recursions of MarksOn, RunPasses, RunAll and PassesOf.
MarksRec(t, draws, f) ==
    f = [n \in 0..Len(draws) |->
           IF n = 0 THEN <<>>
           ELSE IF t \in draws[n].onto THEN Append(f[n-1], draws[n].mark) ELSE f[n-1]]

PicturesRec(content, passes, f) ==
    f = [n \in 0..Len(passes) |-> IF n = 0 THEN content ELSE Promise!RunPass(f[n-1], passes[n])]

ContentRec(items, t, f) ==
    f = [n \in 0..Len(items) |-> IF n = 0 THEN data[t] ELSE Run(items[n], t, f[n-1])]

PassesRec(items, f) ==
    f = [n \in 0..Len(items) |-> IF n = 0 THEN <<>> ELSE AddItem(items, n, f[n-1])]

\* The marks of the draws on a texture are those that its recursion makes.
LEMMA MarksAre ==
  ASSUME NEW t, NEW draws \in Seq(DrawRecords)
  PROVE  \E f \in [0..Len(draws) -> MarkLists] : MarksRec(t, draws, f) /\ Promise!MarksOn(t, draws) = f[Len(draws)]
<1> DEFINE k == Len(draws)
           V == MarkLists
           Step(n, old) == IF t \in draws[n].onto THEN Append(old, draws[n].mark) ELSE old
           next == [p \in (1..k) \X V |-> Step(p[1], p[2])]
           run == CHOOSE f : MarksRec(t, draws, f)
<1>1. k \in Nat  OBVIOUS
<1>2. \A n \in 1..k : n \in 0..k /\ n # 0 /\ n - 1 \in 0..k  BY <1>1
<1>3. <<>> \in V  BY DEF MarkLists
<1>4. ASSUME NEW n \in 1..k, NEW old \in V  PROVE Step(n, old) \in V
  <2>1. draws[n] \in DrawRecords  BY <1>1
  <2> QED  BY <2>1 DEF DrawRecords, MarkLists
<1>5. next \in Steps(k, V)
  <2> HIDE DEF Step, V
  <2> QED  BY <1>4 DEF Steps
<1>6. PICK f \in [0..k -> V] : f[0] = <<>> /\ \A n \in 1..k : f[n] = next[<<n, f[n-1]>>]
  <2> HIDE DEF next, V, k
  <2>1. \E f : Takes(f, k, V, <<>>, next)  BY <1>1, <1>3, <1>5, RecursionExists
  <2> QED  BY <2>1 DEF Takes
<1>7. ASSUME NEW n \in 1..k  PROVE f[n] = Step(n, f[n-1])
  <2>1. f[n-1] \in V  BY <1>2, <1>6
  <2> HIDE DEF Step, V
  <2> QED  BY <1>6, <2>1
<1>8. MarksRec(t, draws, f)
  <2>1. f = [n \in 0..k |-> IF n = 0 THEN <<>> ELSE Step(n, f[n-1])]
    <3> HIDE DEF Step, next, V
    <3> QED  BY <1>6, <1>7
  <2> QED  BY <2>1 DEF MarksRec
<1>9. MarksRec(t, draws, run)  BY <1>8
<1> HIDE DEF run
<1>10. run[0] = <<>> /\ \A n \in 1..k : run[n] = Step(n, run[n-1])
  <2>1. run = [n \in 0..k |-> IF n = 0 THEN <<>> ELSE Step(n, run[n-1])]  BY <1>9 DEF MarksRec
  <2> HIDE DEF Step
  <2> QED  BY <1>1, <1>2, <2>1
<1>11. \A n \in 0..k : run[n] = f[n]
  <2>1. \A n \in 1..k : run[n-1] = f[n-1] => run[n] = f[n]
    <3> HIDE DEF Step
    <3> QED  BY <1>7, <1>10
  <2>2. Alike(run, f, k)  BY <1>6, <1>10, <2>1 DEF Alike
  <2> HIDE DEF k
  <2> QED  BY <1>1, <2>2, Agree DEF Same
<1>12. Promise!MarksOn(t, draws) = run[k]  BY DEF Promise!MarksOn, MarksRec, run
<1> QED  BY <1>1, <1>6, <1>8, <1>11, <1>12

\* One draw more.
LEMMA MarksGrow ==
  ASSUME NEW t, NEW draws \in Seq(DrawRecords), NEW d \in DrawRecords
  PROVE  /\ Promise!MarksOn(t, draws) \in MarkLists
         /\ Promise!MarksOn(t, <<>>) = <<>>
         /\ Promise!MarksOn(t, Append(draws, d)) = IF t \in d.onto THEN Append(Promise!MarksOn(t, draws), d.mark) ELSE Promise!MarksOn(t, draws)
<1> DEFINE k == Len(draws)
           more == Append(draws, d)
<1>1. /\ k \in Nat /\ more \in Seq(DrawRecords) /\ Len(more) = k + 1 /\ more[k + 1] = d
      /\ \A n \in 1..k : more[n] = draws[n]
  OBVIOUS
<1>2. PICK f \in [0..k -> MarkLists] : MarksRec(t, draws, f) /\ Promise!MarksOn(t, draws) = f[k]
  BY MarksAre
<1>3. PICK g \in [0..Len(more) -> MarkLists] : MarksRec(t, more, g) /\ Promise!MarksOn(t, more) = g[Len(more)]
  BY <1>1, MarksAre
<1>4. PICK e \in [0..0 -> MarkLists] : MarksRec(t, <<>>, e) /\ Promise!MarksOn(t, <<>>) = e[0]
  <2>1. <<>> \in Seq(DrawRecords) /\ Len(<<>>) = 0  OBVIOUS
  <2> QED  BY <2>1, MarksAre
<1> HIDE DEF more
<1>5. \A n \in 0..k : f[n] = g[n]
  <2>1. f[0] = g[0]  BY <1>1, <1>2, <1>3 DEF MarksRec
  <2>2. ASSUME NEW n \in 1..k, f[n-1] = g[n-1]  PROVE f[n] = g[n]
    <3>1. n \in 0..k /\ n \in 0..k + 1 /\ n # 0  BY <1>1
    <3>2. f[n] = IF t \in draws[n].onto THEN Append(f[n-1], draws[n].mark) ELSE f[n-1]
      BY <1>2, <3>1 DEF MarksRec
    <3>3. g[n] = IF t \in more[n].onto THEN Append(g[n-1], more[n].mark) ELSE g[n-1]
      BY <1>1, <1>3, <3>1 DEF MarksRec
    <3> QED  BY <1>1, <2>2, <3>2, <3>3
  <2>3. k \in Nat /\ Alike(f, g, k)  BY <1>1, <2>1, <2>2 DEF Alike
  <2> HIDE DEF k
  <2> QED  BY <2>3, Agree DEF Same
<1>6. g[k + 1] = IF t \in more[k + 1].onto THEN Append(g[k], more[k + 1].mark) ELSE g[k]
  <2>1. k + 1 \in 0..k + 1 /\ k + 1 # 0 /\ (k + 1) - 1 = k  BY <1>1
  <2>2. g[k + 1] = IF t \in more[k + 1].onto THEN Append(g[(k + 1) - 1], more[k + 1].mark) ELSE g[(k + 1) - 1]
    BY <1>1, <1>3, <2>1, Zenon DEF MarksRec
  <2> QED  BY <2>1, <2>2
<1>7. e[0] = <<>>  BY <1>4 DEF MarksRec
<1>8. f[k] = g[k] /\ f[k] \in MarkLists
  <2> HIDE DEF k
  <2> QED  BY <1>1, <1>5
<1> QED  BY <1>1, <1>2, <1>3, <1>4, <1>6, <1>7, <1>8 DEF more

\* A pass turns pictures into pictures.
LEMMA RunPassType ==
  ASSUME NEW content \in Pictures, NEW p \in Passes
  PROVE  Promise!RunPass(content, p) \in Pictures
<1>1. p.draws \in Seq(DrawRecords)  BY DEF Passes
<1>2. ASSUME NEW t \in Textures
      PROVE  (IF t \in p.clears THEN <<Cleared>> ELSE content[t]) \o Promise!MarksOn(t, p.draws) \in Contents
  <2>1. Promise!MarksOn(t, p.draws) \in Seq(Marks)  BY <1>1, MarksAre DEF MarkLists
  <2> DEFINE base == IF t \in p.clears THEN <<Cleared>> ELSE content[t]
             marks == Promise!MarksOn(t, p.draws)
  <2>2. marks \in Contents  BY <2>1 DEF Contents
  <2>3. base \in Contents
    <3>1. content[t] \in Contents  BY DEF Pictures
    <3>2. <<Cleared>> \in Contents  BY DEF Contents
    <3> QED  BY <3>1, <3>2
  <2> HIDE DEF base, marks
  <2>4. base \o marks \in Contents  BY <2>2, <2>3 DEF Contents
  <2> QED  BY <2>4 DEF base, marks
<1> QED  BY <1>2 DEF Pictures, Promise!RunPass

\* The pictures after a sequence of passes are those that its recursion makes.
LEMMA PicturesAre ==
  ASSUME NEW content \in Pictures, NEW passes \in Seq(Passes)
  PROVE  \E f \in [0..Len(passes) -> Pictures] : PicturesRec(content, passes, f) /\ Promise!RunPasses(content, passes) = f[Len(passes)]
<1> DEFINE k == Len(passes)
           V == Pictures
           Step(n, old) == Promise!RunPass(old, passes[n])
           next == [p \in (1..k) \X V |-> Step(p[1], p[2])]
           run == CHOOSE f : PicturesRec(content, passes, f)
<1>1. k \in Nat  OBVIOUS
<1>2. \A n \in 1..k : n \in 0..k /\ n # 0 /\ n - 1 \in 0..k  BY <1>1
<1>3. content \in V  OBVIOUS
<1>4. ASSUME NEW n \in 1..k, NEW old \in V  PROVE Step(n, old) \in V
  <2>1. passes[n] \in Passes  BY <1>1
  <2> QED  BY <2>1, RunPassType
<1>5. next \in Steps(k, V)
  <2> HIDE DEF Step, V
  <2> QED  BY <1>4 DEF Steps
<1>6. PICK f \in [0..k -> V] : f[0] = content /\ \A n \in 1..k : f[n] = next[<<n, f[n-1]>>]
  <2> HIDE DEF next, V, k
  <2>1. \E f : Takes(f, k, V, content, next)  BY <1>1, <1>3, <1>5, RecursionExists
  <2> QED  BY <2>1 DEF Takes
<1>7. ASSUME NEW n \in 1..k  PROVE f[n] = Step(n, f[n-1])
  <2>1. f[n-1] \in V  BY <1>2, <1>6
  <2> HIDE DEF Step, V
  <2> QED  BY <1>6, <2>1
<1>8. PicturesRec(content, passes, f)
  <2>1. f = [n \in 0..k |-> IF n = 0 THEN content ELSE Step(n, f[n-1])]
    <3> HIDE DEF Step, next, V
    <3> QED  BY <1>6, <1>7
  <2> QED  BY <2>1 DEF PicturesRec
<1>9. PicturesRec(content, passes, run)  BY <1>8
<1> HIDE DEF run
<1>10. run[0] = content /\ \A n \in 1..k : run[n] = Step(n, run[n-1])
  <2>1. run = [n \in 0..k |-> IF n = 0 THEN content ELSE Step(n, run[n-1])]  BY <1>9 DEF PicturesRec
  <2> HIDE DEF Step
  <2> QED  BY <1>1, <1>2, <2>1
<1>11. \A n \in 0..k : run[n] = f[n]
  <2>1. \A n \in 1..k : run[n-1] = f[n-1] => run[n] = f[n]
    <3> HIDE DEF Step
    <3> QED  BY <1>7, <1>10
  <2>2. Alike(run, f, k)  BY <1>6, <1>10, <2>1 DEF Alike
  <2> HIDE DEF k
  <2> QED  BY <1>1, <2>2, Agree DEF Same
<1>12. Promise!RunPasses(content, passes) = run[k]  BY DEF Promise!RunPasses, PicturesRec, run
<1> QED  BY <1>1, <1>6, <1>8, <1>11, <1>12

\* One pass more.
LEMMA PicturesGrow ==
  ASSUME NEW content \in Pictures, NEW passes \in Seq(Passes), NEW p \in Passes
  PROVE  /\ Promise!RunPasses(content, passes) \in Pictures
         /\ Promise!RunPasses(content, <<>>) = content
         /\ Promise!RunPasses(content, Append(passes, p)) = Promise!RunPass(Promise!RunPasses(content, passes), p)
<1> DEFINE k == Len(passes)
           more == Append(passes, p)
<1>1. /\ k \in Nat /\ more \in Seq(Passes) /\ Len(more) = k + 1 /\ more[k + 1] = p
      /\ \A n \in 1..k : more[n] = passes[n]
  OBVIOUS
<1>2. PICK f \in [0..k -> Pictures] : PicturesRec(content, passes, f) /\ Promise!RunPasses(content, passes) = f[k]
  BY PicturesAre
<1>3. PICK g \in [0..Len(more) -> Pictures] : PicturesRec(content, more, g) /\ Promise!RunPasses(content, more) = g[Len(more)]
  BY <1>1, PicturesAre
<1>4. PICK e \in [0..0 -> Pictures] : PicturesRec(content, <<>>, e) /\ Promise!RunPasses(content, <<>>) = e[0]
  <2>1. <<>> \in Seq(Passes) /\ Len(<<>>) = 0  OBVIOUS
  <2> QED  BY <2>1, PicturesAre
<1> HIDE DEF more
<1>5. \A n \in 0..k : f[n] = g[n]
  <2>1. f[0] = g[0]  BY <1>1, <1>2, <1>3 DEF PicturesRec
  <2>2. ASSUME NEW n \in 1..k, f[n-1] = g[n-1]  PROVE f[n] = g[n]
    <3>1. n \in 0..k /\ n \in 0..k + 1 /\ n # 0  BY <1>1
    <3>2. f[n] = Promise!RunPass(f[n-1], passes[n])
      BY <1>2, <3>1 DEF PicturesRec
    <3>3. g[n] = Promise!RunPass(g[n-1], more[n])
      BY <1>1, <1>3, <3>1 DEF PicturesRec
    <3> QED  BY <1>1, <2>2, <3>2, <3>3
  <2>3. k \in Nat /\ Alike(f, g, k)  BY <1>1, <2>1, <2>2 DEF Alike
  <2> HIDE DEF k
  <2> QED  BY <2>3, Agree DEF Same
<1>6. g[k + 1] = Promise!RunPass(g[k], more[k + 1])
  <2>1. k + 1 \in 0..k + 1 /\ k + 1 # 0 /\ (k + 1) - 1 = k  BY <1>1
  <2>2. g[k + 1] = Promise!RunPass(g[(k + 1) - 1], more[k + 1])
    BY <1>1, <1>3, <2>1, Zenon DEF PicturesRec
  <2> QED  BY <2>1, <2>2
<1>7. e[0] = content  BY <1>4 DEF PicturesRec
<1>8. f[k] = g[k] /\ f[k] \in Pictures
  <2> HIDE DEF k
  <2> QED  BY <1>1, <1>5
<1> QED  BY <1>1, <1>2, <1>3, <1>4, <1>6, <1>7, <1>8 DEF more

\* What an item adds to a pass is of its kind.
LEMMA ItemType ==
  ASSUME NEW w \in Items
  PROVE  /\ w.kind = "clear" => w.on \in SUBSET Textures
         /\ w.kind # "clear" => [onto |-> Written(w), mark |-> MarkOf(w)] \in DrawRecords
         /\ \A p \in Passes : WithItem(p, w) \in Passes
         /\ WithItem(NewPass, w) \in Passes
<1>1. w.kind = "clear" => w.on \in SUBSET Textures  BY DEF Items
<1>2. w.kind # "clear" => Written(w) \in SUBSET Textures /\ MarkOf(w) \in Marks
  BY DEF Items, Written, MarkOf, Marks
<1>3. w.kind # "clear" => [onto |-> Written(w), mark |-> MarkOf(w)] \in DrawRecords
  BY <1>2 DEF DrawRecords
<1>4. ASSUME NEW p \in Passes  PROVE WithItem(p, w) \in Passes
  <2>1. CASE w.kind = "clear"  BY <1>1, <2>1 DEF Passes, WithItem
  <2>2. CASE w.kind # "clear"
    <3> DEFINE d == [onto |-> Written(w), mark |-> MarkOf(w)]
    <3>1. d \in DrawRecords  BY <1>3, <2>2
    <3>2. WithItem(p, w) = [p EXCEPT !.draws = Append(p.draws, d)]  BY <2>2 DEF WithItem
    <3> HIDE DEF d
    <3>3. p.draws \in Seq(DrawRecords)  BY DEF Passes
    <3>4. Append(p.draws, d) \in Seq(DrawRecords)  BY <3>1, <3>3
    <3> QED  BY <3>2, <3>4 DEF Passes
  <2> QED  BY <2>1, <2>2
<1>5. NewPass \in Passes  BY DEF NewPass, Passes
<1> QED  BY <1>1, <1>3, <1>4, <1>5

\* An item leads from contents to contents, and from passes to passes.
LEMMA RunType ==
  ASSUME NEW w \in Items, NEW t, NEW content \in Contents
  PROVE  Run(w, t, content) \in Contents
<1>1. CASE w.kind = "clear"
  <2>1. <<Cleared>> \in Contents  BY DEF Contents
  <2> QED  BY <1>1, <2>1 DEF Run
<1>2. CASE w.kind # "clear"
  <2>1. MarkOf(w) \in Marks  BY <1>2 DEF Items, MarkOf, Marks
  <2>2. Append(content, MarkOf(w)) \in Contents  BY <2>1 DEF Contents
  <2> QED  BY <1>2, <2>2 DEF Run
<1> QED  BY <1>1, <1>2

LEMMA AddItemType ==
  ASSUME NEW items \in Seq(Items), NEW n \in 1..Len(items), NEW passes \in PassLists
  PROVE  /\ AddItem(items, n, passes) \in PassLists
         /\ Len(AddItem(items, n, passes)) \in Nat
         /\ Len(AddItem(items, n, passes)) = IF Joins(items, n) THEN Len(passes) ELSE Len(passes) + 1
<1>1. items[n] \in Items /\ passes \in Seq(Passes)  BY DEF PassLists
<1>2. CASE Joins(items, n)
  <2> DEFINE i == Len(passes)
             p == WithItem(passes[i], items[n])
  <2>1. AddItem(items, n, passes) = [passes EXCEPT ![i] = p]  BY <1>2 DEF AddItem
  <2>2. CASE i = 0
    <3>1. DOMAIN passes = {}  BY <1>1, <2>2
    <3>2. [passes EXCEPT ![i] = p] = passes  BY <1>1, <2>2, <3>1
    <3> HIDE DEF p, i
    <3>3. AddItem(items, n, passes) = passes /\ Len(passes) \in Nat  BY <1>1, <2>1, <3>2
    <3> QED  BY <1>2, <3>3
  <2>3. CASE i # 0
    <3>1. i \in 1..Len(passes) /\ passes[i] \in Passes  BY <1>1, <2>3
    <3>2. p \in Passes  BY <1>1, <3>1, ItemType
    <3> HIDE DEF p, i
    <3>3. [passes EXCEPT ![i] = p] \in Seq(Passes) /\ Len([passes EXCEPT ![i] = p]) = Len(passes)
      BY <1>1, <3>1, <3>2
    <3> QED  BY <1>1, <1>2, <2>1, <3>3 DEF PassLists
  <2> QED  BY <2>2, <2>3
<1>3. CASE ~ Joins(items, n)
  <2> DEFINE p == WithItem(NewPass, items[n])
  <2>1. AddItem(items, n, passes) = Append(passes, p)  BY <1>3 DEF AddItem
  <2>2. p \in Passes  BY <1>1, ItemType
  <2> HIDE DEF p
  <2>3. Append(passes, p) \in Seq(Passes) /\ Len(Append(passes, p)) = Len(passes) + 1 /\ Len(passes) \in Nat
    BY <1>1, <2>2
  <2> QED  BY <1>3, <2>1, <2>3 DEF PassLists
<1> QED  BY <1>2, <1>3

\* What the closures leave on a texture is what its recursion makes.
LEMMA ContentsAre ==
  ASSUME NEW items \in Seq(Items), data \in Pictures, NEW t \in Textures
  PROVE  \E f \in [0..Len(items) -> Contents] : ContentRec(items, t, f) /\ RunAll(items)[t] = f[Len(items)]
<1> DEFINE k == Len(items)
           V == Contents
           Step(n, old) == Run(items[n], t, old)
           next == [p \in (1..k) \X V |-> Step(p[1], p[2])]
           run == CHOOSE f : ContentRec(items, t, f)
<1>1. k \in Nat  OBVIOUS
<1>2. \A n \in 1..k : n \in 0..k /\ n # 0 /\ n - 1 \in 0..k  BY <1>1
<1>3. data[t] \in V  BY DEF Pictures
<1>4. ASSUME NEW n \in 1..k, NEW old \in V  PROVE Step(n, old) \in V
  <2>1. items[n] \in Items  BY <1>1
  <2> QED  BY <2>1, RunType
<1>5. next \in Steps(k, V)
  <2> HIDE DEF Step, V
  <2> QED  BY <1>4 DEF Steps
<1>6. PICK f \in [0..k -> V] : f[0] = data[t] /\ \A n \in 1..k : f[n] = next[<<n, f[n-1]>>]
  <2> HIDE DEF next, V, k
  <2>1. \E f : Takes(f, k, V, data[t], next)  BY <1>1, <1>3, <1>5, RecursionExists
  <2> QED  BY <2>1 DEF Takes
<1>7. ASSUME NEW n \in 1..k  PROVE f[n] = Step(n, f[n-1])
  <2>1. f[n-1] \in V  BY <1>2, <1>6
  <2> HIDE DEF Step, V
  <2> QED  BY <1>6, <2>1
<1>8. ContentRec(items, t, f)
  <2>1. f = [n \in 0..k |-> IF n = 0 THEN data[t] ELSE Step(n, f[n-1])]
    <3> HIDE DEF Step, next, V
    <3> QED  BY <1>6, <1>7
  <2> QED  BY <2>1 DEF ContentRec
<1>9. ContentRec(items, t, run)  BY <1>8
<1> HIDE DEF run
<1>10. run[0] = data[t] /\ \A n \in 1..k : run[n] = Step(n, run[n-1])
  <2>1. run = [n \in 0..k |-> IF n = 0 THEN data[t] ELSE Step(n, run[n-1])]  BY <1>9 DEF ContentRec
  <2> HIDE DEF Step
  <2> QED  BY <1>1, <1>2, <2>1
<1>11. \A n \in 0..k : run[n] = f[n]
  <2>1. \A n \in 1..k : run[n-1] = f[n-1] => run[n] = f[n]
    <3> HIDE DEF Step
    <3> QED  BY <1>7, <1>10
  <2>2. Alike(run, f, k)  BY <1>6, <1>10, <2>1 DEF Alike
  <2> HIDE DEF k
  <2> QED  BY <1>1, <2>2, Agree DEF Same
<1>12. RunAll(items)[t] = run[k]  BY DEF RunAll, ContentRec, run
<1> QED  BY <1>1, <1>6, <1>8, <1>11, <1>12

\* The passes of a queue are those that its recursion makes.
LEMMA PassesAre ==
  ASSUME NEW items \in Seq(Items)
  PROVE  \E f \in [0..Len(items) -> PassLists] : PassesRec(items, f) /\ PassesOf(items) = f[Len(items)]
<1> DEFINE k == Len(items)
           V == PassLists
           Step(n, old) == AddItem(items, n, old)
           next == [p \in (1..k) \X V |-> Step(p[1], p[2])]
           run == CHOOSE f : PassesRec(items, f)
<1>1. k \in Nat  OBVIOUS
<1>2. \A n \in 1..k : n \in 0..k /\ n # 0 /\ n - 1 \in 0..k  BY <1>1
<1>3. <<>> \in V  BY DEF PassLists
<1>4. ASSUME NEW n \in 1..k, NEW old \in V  PROVE Step(n, old) \in V
  <2> QED  BY <1>1, AddItemType
<1>5. next \in Steps(k, V)
  <2> HIDE DEF Step, V
  <2> QED  BY <1>4 DEF Steps
<1>6. PICK f \in [0..k -> V] : f[0] = <<>> /\ \A n \in 1..k : f[n] = next[<<n, f[n-1]>>]
  <2> HIDE DEF next, V, k
  <2>1. \E f : Takes(f, k, V, <<>>, next)  BY <1>1, <1>3, <1>5, RecursionExists
  <2> QED  BY <2>1 DEF Takes
<1>7. ASSUME NEW n \in 1..k  PROVE f[n] = Step(n, f[n-1])
  <2>1. f[n-1] \in V  BY <1>2, <1>6
  <2> HIDE DEF Step, V
  <2> QED  BY <1>6, <2>1
<1>8. PassesRec(items, f)
  <2>1. f = [n \in 0..k |-> IF n = 0 THEN <<>> ELSE Step(n, f[n-1])]
    <3> HIDE DEF Step, next, V
    <3> QED  BY <1>6, <1>7
  <2> QED  BY <2>1 DEF PassesRec
<1>9. PassesRec(items, run)  BY <1>8
<1> HIDE DEF run
<1>10. run[0] = <<>> /\ \A n \in 1..k : run[n] = Step(n, run[n-1])
  <2>1. run = [n \in 0..k |-> IF n = 0 THEN <<>> ELSE Step(n, run[n-1])]  BY <1>9 DEF PassesRec
  <2> HIDE DEF Step
  <2> QED  BY <1>1, <1>2, <2>1
<1>11. \A n \in 0..k : run[n] = f[n]
  <2>1. \A n \in 1..k : run[n-1] = f[n-1] => run[n] = f[n]
    <3> HIDE DEF Step
    <3> QED  BY <1>7, <1>10
  <2>2. Alike(run, f, k)  BY <1>6, <1>10, <2>1 DEF Alike
  <2> HIDE DEF k
  <2> QED  BY <1>1, <2>2, Agree DEF Same
<1>12. PassesOf(items) = run[k]  BY DEF PassesOf, PassesRec, run
<1> QED  BY <1>1, <1>6, <1>8, <1>11, <1>12

\* One item more.
LEMMA PassesGrow ==
  ASSUME NEW items \in Seq(Items), NEW x \in Items
  PROVE  /\ PassesOf(items) \in PassLists
         /\ PassesOf(<<>>) = <<>>
         /\ PassesOf(Append(items, x)) = AddItem(Append(items, x), Len(items) + 1, PassesOf(items))
<1> DEFINE k == Len(items)
           more == Append(items, x)
<1>1. /\ k \in Nat /\ more \in Seq(Items) /\ Len(more) = k + 1 /\ more[k + 1] = x
      /\ \A n \in 1..k : more[n] = items[n]
  OBVIOUS
<1>2. PICK f \in [0..k -> PassLists] : PassesRec(items, f) /\ PassesOf(items) = f[k]
  BY PassesAre
<1>3. PICK g \in [0..Len(more) -> PassLists] : PassesRec(more, g) /\ PassesOf(more) = g[Len(more)]
  BY <1>1, PassesAre
<1>4. PICK e \in [0..0 -> PassLists] : PassesRec(<<>>, e) /\ PassesOf(<<>>) = e[0]
  <2>1. <<>> \in Seq(Items) /\ Len(<<>>) = 0  OBVIOUS
  <2> QED  BY <2>1, PassesAre
<1> HIDE DEF more
<1>5. \A n \in 0..k : f[n] = g[n]
  <2>1. f[0] = g[0]  BY <1>1, <1>2, <1>3 DEF PassesRec
  <2>2. ASSUME NEW n \in 1..k, f[n-1] = g[n-1]  PROVE f[n] = g[n]
    <3>1. n \in 0..k /\ n \in 0..k + 1 /\ n # 0  BY <1>1
    <3>2. f[n] = AddItem(items, n, f[n-1])
      BY <1>2, <3>1 DEF PassesRec
    <3>3. g[n] = AddItem(more, n, g[n-1])
      BY <1>1, <1>3, <3>1 DEF PassesRec
    <3>4. more[n] = items[n] /\ (n > 1 => more[n-1] = items[n-1])  BY <1>1
    <3>5. Joins(more, n) <=> Joins(items, n)  BY <3>4 DEF Joins
    <3>6. AddItem(more, n, g[n-1]) = AddItem(items, n, g[n-1])  BY <3>4, <3>5 DEF AddItem
    <3> QED  BY <2>2, <3>2, <3>3, <3>6
  <2>3. k \in Nat /\ Alike(f, g, k)  BY <1>1, <2>1, <2>2 DEF Alike
  <2> HIDE DEF k
  <2> QED  BY <2>3, Agree DEF Same
<1>6. g[k + 1] = AddItem(more, k + 1, g[k])
  <2>1. k + 1 \in 0..k + 1 /\ k + 1 # 0 /\ (k + 1) - 1 = k  BY <1>1
  <2>2. g[k + 1] = AddItem(more, k + 1, g[(k + 1) - 1])
    BY <1>1, <1>3, <2>1, Zenon DEF PassesRec
  <2> QED  BY <2>1, <2>2
<1>7. e[0] = <<>>  BY <1>4 DEF PassesRec
<1>8. f[k] = g[k] /\ f[k] \in PassLists
  <2> HIDE DEF k
  <2> QED  BY <1>1, <1>5
<1> QED  BY <1>1, <1>2, <1>3, <1>4, <1>6, <1>7, <1>8 DEF more

\* Sequences that agree everywhere are the same.
LEMMA SeqEqual ==
  ASSUME NEW S, NEW s \in Seq(S), NEW r \in Seq(S), Len(s) = Len(r), \A i \in 1..Len(s) : s[i] = r[i]
  PROVE  s = r
OBVIOUS

\* A mark more at the end.
LEMMA MarkAppended ==
  ASSUME NEW content \in Contents, NEW marks \in MarkLists, NEW m \in Marks
  PROVE  /\ content \o Append(marks, m) = Append(content \o marks, m)
         /\ content \o <<>> = content
BY DEF Contents, MarkLists

\* No draws leave no marks.
LEMMA MarksOfNone ==
  ASSUME NEW t
  PROVE  Promise!MarksOn(t, <<>>) = <<>>
<1>1. <<>> \in Seq(DrawRecords) /\ Len(<<>>) = 0  OBVIOUS
<1>2. PICK f \in [0..0 -> MarkLists] : MarksRec(t, <<>>, f) /\ Promise!MarksOn(t, <<>>) = f[0]
  BY <1>1, MarksAre
<1> QED  BY <1>2 DEF MarksRec

\* A sequence with an element is one more than its front.
WithLast(s, x) == [s EXCEPT ![Len(s)] = x]

LEMMA LastChanged ==
  ASSUME NEW s \in Seq(Passes), s # <<>>, NEW x \in Passes
  PROVE  \E front \in Seq(Passes) : s = Append(front, s[Len(s)]) /\ WithLast(s, x) = Append(front, x)
<1> DEFINE k == Len(s)
           front == [i \in 1..k - 1 |-> s[i]]
<1>1. k \in Nat /\ k # 0 /\ DOMAIN s = 1..k /\ \A i \in 1..k : s[i] \in Passes  OBVIOUS
<1>2. front \in Seq(Passes) /\ Len(front) = k - 1  BY <1>1
<1>3. \A i \in 1..k - 1 : front[i] = s[i]  OBVIOUS
<1> HIDE DEF front
<1>4. ASSUME NEW y \in Passes  PROVE [s EXCEPT ![k] = y] = Append(front, y)
  <2>1. Append(front, y) \in Seq(Passes) /\ Len(Append(front, y)) = (k - 1) + 1
    BY <1>2
  <2>2. \A i \in 1..k - 1 : Append(front, y)[i] = s[i]  BY <1>2, <1>3
  <2>3. Append(front, y)[(k - 1) + 1] = y  BY <1>2
  <2> DEFINE changed == [s EXCEPT ![k] = y]
  <2>4. changed \in Seq(Passes) /\ Len(changed) = k  OBVIOUS
  <2>5. \A i \in 1..k : changed[i] = IF i = k THEN y ELSE s[i]  BY <1>1
  <2> HIDE DEF changed, k
  <2>6. (k - 1) + 1 = k /\ \A i \in 1..k : i = k \/ i \in 1..k - 1  BY <1>1
  <2>7. \A i \in 1..k : Append(front, y)[i] = changed[i]  BY <2>2, <2>3, <2>5, <2>6
  <2> QED  BY <1>1, <2>1, <2>4, <2>6, <2>7, SeqEqual DEF changed
<1>5. s = [s EXCEPT ![k] = s[k]] /\ s[k] \in Passes  BY <1>1
<1> QED  BY <1>2, <1>4, <1>5 DEF WithLast

\* A pass begun by an item does what running the item does.
LEMMA BegunRuns ==
  ASSUME NEW content \in Pictures, NEW w \in Items, NEW t \in Textures
  PROVE  Promise!RunPass(content, WithItem(NewPass, w))[t] = Run(w, t, content[t])
<1> DEFINE old == content[t]
           d == [onto |-> Written(w), mark |-> MarkOf(w)]
           p == WithItem(NewPass, w)
<1>1. old \in Contents  BY DEF Pictures
<1>2. Promise!RunPass(content, p)[t]
        = (IF t \in p.clears THEN <<Cleared>> ELSE old) \o Promise!MarksOn(t, p.draws)
  BY DEF Promise!RunPass
<1>3. <<>> \in Seq(DrawRecords) /\ <<>> \in MarkLists  BY DEF MarkLists
<1>4. CASE w.kind = "clear"
  <2>1. p.clears = w.on /\ p.draws = <<>>  BY <1>4 DEF WithItem, NewPass
  <2>2. Promise!MarksOn(t, <<>>) = <<>>
    BY MarksOfNone
  <2>3. Run(w, t, old) = IF t \in w.on THEN <<Cleared>> ELSE old  BY <1>4 DEF Run
  <2>4. <<Cleared>> \o <<>> = <<Cleared>> /\ old \o <<>> = old
    <3> HIDE DEF old
    <3> QED  BY <1>1 DEF Contents
  <2> HIDE DEF old, p
  <2>5. Promise!RunPass(content, p)[t] = (IF t \in w.on THEN <<Cleared>> ELSE old) \o <<>>
    BY <1>2, <2>1, <2>2
  <2>6. Promise!RunPass(content, p)[t] = IF t \in w.on THEN <<Cleared>> ELSE old
    BY <2>4, <2>5
  <2>7. Promise!RunPass(content, p)[t] = Run(w, t, old)  BY <2>3, <2>6
  <2> QED  BY <2>7, Zenon DEF old, p
<1>5. CASE w.kind # "clear"
  <2>1. p.clears = {} /\ p.draws = Append(<<>>, d)  BY <1>5 DEF WithItem, NewPass
  <2>2. Run(w, t, old) = IF t \in d.onto THEN Append(old, d.mark) ELSE old  BY <1>5 DEF Run
  <2>3. d \in DrawRecords  BY <1>5, ItemType
  <2> HIDE DEF d, p
  <2>4. d.mark \in Marks  BY <2>3 DEF DrawRecords
  <2>5. Promise!MarksOn(t, Append(<<>>, d)) = IF t \in d.onto THEN Append(<<>>, d.mark) ELSE <<>>
    <3>1. /\ Promise!MarksOn(t, <<>>) = <<>>
          /\ Promise!MarksOn(t, Append(<<>>, d)) =
               IF t \in d.onto THEN Append(Promise!MarksOn(t, <<>>), d.mark) ELSE Promise!MarksOn(t, <<>>)
      BY <1>3, <2>3, MarksGrow
    <3> QED  BY <3>1
  <2>6. old \o Append(<<>>, d.mark) = Append(old, d.mark) /\ old \o <<>> = old
    <3> HIDE DEF old
    <3>1. old \o Append(<<>>, d.mark) = Append(old \o <<>>, d.mark) /\ old \o <<>> = old
      BY <1>1, <1>3, <2>4, MarkAppended
    <3> QED  BY <3>1
  <2> HIDE DEF old
  <2>7. Promise!RunPass(content, p)[t] = old \o Promise!MarksOn(t, Append(<<>>, d))
    BY <1>2, <2>1
  <2>8. Promise!RunPass(content, p)[t] = Run(w, t, old)
    <3>1. CASE t \in d.onto  BY <2>2, <2>5, <2>6, <2>7, <3>1
    <3>2. CASE t \notin d.onto  BY <2>2, <2>5, <2>6, <2>7, <3>2
    <3> QED  BY <3>1, <3>2
  <2> QED  BY <2>8, Zenon DEF old, p
<1> QED  BY <1>4, <1>5

\* A pass a draw joins does what it did and then what running the draw does.
LEMMA JoinedRuns ==
  ASSUME NEW content \in Pictures, NEW q \in Passes, NEW w \in Items, w.kind # "clear",
         NEW t \in Textures
  PROVE  Promise!RunPass(content, WithItem(q, w))[t] = Run(w, t, Promise!RunPass(content, q)[t])
<1> DEFINE d == [onto |-> Written(w), mark |-> MarkOf(w)]
           p == WithItem(q, w)
           base == IF t \in q.clears THEN <<Cleared>> ELSE content[t]
           marks == Promise!MarksOn(t, q.draws)
           old == Promise!RunPass(content, q)[t]
<1>1. d \in DrawRecords  BY ItemType
<1>2. p.clears = q.clears /\ p.draws = Append(q.draws, d)  BY DEF WithItem, Passes
<1>3. Run(w, t, old) = IF t \in d.onto THEN Append(old, d.mark) ELSE old  BY DEF Run
<1> HIDE DEF d, p
<1>4. d.mark \in Marks  BY <1>1 DEF DrawRecords
<1>5. old = base \o marks  BY DEF Promise!RunPass
<1>6. Promise!RunPass(content, p)[t] = base \o Promise!MarksOn(t, Append(q.draws, d))
  BY <1>2 DEF Promise!RunPass
<1>7. /\ marks \in MarkLists
      /\ Promise!MarksOn(t, Append(q.draws, d)) = IF t \in d.onto THEN Append(marks, d.mark) ELSE marks
  <2>1. q.draws \in Seq(DrawRecords)  BY DEF Passes
  <2> QED  BY <1>1, <2>1, MarksGrow
<1>8. base \in Contents
  <2>1. content[t] \in Contents  BY DEF Pictures
  <2>2. <<Cleared>> \in Contents  BY DEF Contents
  <2> QED  BY <2>1, <2>2
<1> HIDE DEF base, marks, old
<1>9. base \o Append(marks, d.mark) = Append(base \o marks, d.mark)
  BY <1>4, <1>7, <1>8, MarkAppended
<1>10. Promise!RunPass(content, p)[t] = Run(w, t, old)
  <2>1. CASE t \in d.onto  BY <1>3, <1>5, <1>6, <1>7, <1>9, <2>1
  <2>2. CASE t \notin d.onto  BY <1>3, <1>5, <1>6, <1>7, <2>2
  <2> QED  BY <2>1, <2>2
<1> QED  BY <1>10, Zenon DEF old, p

\* An item adds to the passes what running its closure does.
LEMMA AddItemRuns ==
  ASSUME NEW content \in Pictures, NEW items \in Seq(Items), NEW n \in 1..Len(items),
         NEW passes \in PassLists,
         Joins(items, n) => passes # <<>> /\ items[n].kind # "clear",
         NEW t \in Textures
  PROVE  Promise!RunPasses(content, AddItem(items, n, passes))[t]
           = Run(items[n], t, Promise!RunPasses(content, passes)[t])
<1>1. items[n] \in Items /\ passes \in Seq(Passes)  BY DEF PassLists
<1>2. Promise!RunPasses(content, passes) \in Pictures  BY <1>1, PicturesAre
<1>4. CASE ~ Joins(items, n)
  <2>1. AddItem(items, n, passes) = Append(passes, WithItem(NewPass, items[n]))
    BY <1>4 DEF AddItem
  <2>2. WithItem(NewPass, items[n]) \in Passes  BY <1>1, ItemType
  <2>3. ASSUME NEW p \in Passes
        PROVE  Promise!RunPasses(content, Append(passes, p)) = Promise!RunPass(Promise!RunPasses(content, passes), p)
    BY <1>1, PicturesGrow
  <2>4. Promise!RunPasses(content, AddItem(items, n, passes))
          = Promise!RunPass(Promise!RunPasses(content, passes), WithItem(NewPass, items[n]))
    BY <2>1, <2>2, <2>3
  <2> QED  BY <1>1, <1>2, <2>4, BegunRuns
<1>5. CASE Joins(items, n)
  <2>1. passes # <<>> /\ items[n].kind # "clear"  BY <1>5
  <2>2. PICK q \in Passes : q = passes[Len(passes)]  BY <1>1, <2>1
  <2>3. WithItem(q, items[n]) \in Passes  BY <1>1, <2>1, ItemType
  <2>4. AddItem(items, n, passes) = WithLast(passes, WithItem(q, items[n]))
    BY <1>5, <2>2 DEF AddItem, WithLast
  <2>5. PICK front \in Seq(Passes) : passes = Append(front, q) /\ AddItem(items, n, passes) = Append(front, WithItem(q, items[n]))
    <3> DEFINE p == WithItem(q, items[n])
    <3> HIDE DEF p
    <3>2. p \in Passes  BY <2>3 DEF p
    <3>3. PICK front \in Seq(Passes) : /\ passes = Append(front, passes[Len(passes)])
                                       /\ WithLast(passes, p) = Append(front, p)
      BY <1>1, <2>1, <3>2, LastChanged
    <3>4. AddItem(items, n, passes) = Append(front, p)  BY <2>4, <3>3 DEF p
    <3> QED  BY <2>2, <3>3, <3>4, Zenon DEF p
  <2>6. ASSUME NEW p \in Passes
        PROVE  Promise!RunPasses(content, Append(front, p)) = Promise!RunPass(Promise!RunPasses(content, front), p)
    BY PicturesGrow
  <2>7. /\ Promise!RunPasses(content, passes) = Promise!RunPass(Promise!RunPasses(content, front), q)
        /\ Promise!RunPasses(content, AddItem(items, n, passes))
             = Promise!RunPass(Promise!RunPasses(content, front), WithItem(q, items[n]))
    BY <2>3, <2>5, <2>6
  <2>8. Promise!RunPasses(content, front) \in Pictures  BY PicturesGrow
  <2> QED  BY <1>1, <2>1, <2>7, <2>8, JoinedRuns
<1> QED  BY <1>4, <1>5

\* No passes leave the pictures as they are.
LEMMA PicturesOfNone ==
  ASSUME NEW content \in Pictures
  PROVE  Promise!RunPasses(content, <<>>) = content
<1>1. <<>> \in Seq(Passes) /\ Len(<<>>) = 0  OBVIOUS
<1>2. PICK f \in [0..0 -> Pictures] : PicturesRec(content, <<>>, f) /\ Promise!RunPasses(content, <<>>) = f[0]
  BY <1>1, PicturesAre
<1> QED  BY <1>2 DEF PicturesRec

\* An item leaves a pass to join.
LEMMA PassesFull ==
  ASSUME NEW items \in Seq(Items), NEW f \in [0..Len(items) -> PassLists], PassesRec(items, f)
  PROVE  \A n \in 1..Len(items) : f[n] # <<>>
<1> DEFINE k == Len(items)
           S == {n \in 0..k : n = 0 \/ f[n] # <<>>}
<1>1. k \in Nat /\ 0 \in S  OBVIOUS
<1>2. ASSUME NEW n \in 0..k - 1, n \in S  PROVE n + 1 \in S
  <2>1. n + 1 \in 0..k /\ n + 1 # 0 /\ (n + 1) - 1 = n /\ n \in 0..k /\ n + 1 \in 1..k  BY <1>1
  <2>2. f[n + 1] = AddItem(items, n + 1, f[n])
    <3>1. f[n + 1] = AddItem(items, n + 1, f[(n + 1) - 1])  BY <2>1, Zenon DEF PassesRec
    <3> QED  BY <2>1, <3>1
  <2>3. f[n] \in PassLists  BY <2>1
  <2> HIDE DEF k
  <2>4. Len(f[n + 1]) = IF Joins(items, n + 1) THEN Len(f[n]) ELSE Len(f[n]) + 1
    BY <2>1, <2>2, <2>3, AddItemType DEF k
  <2>5. Joins(items, n + 1) => Len(f[n]) # 0
    <3>1. Joins(items, n + 1) => n # 0  BY DEF Joins
    <3>2. f[n] \in Seq(Passes)  BY <2>3 DEF PassLists
    <3> QED  BY <1>2, <3>1, <3>2
  <2>6. Len(f[n + 1]) # 0
    <3>1. Len(f[n]) \in Nat  BY <2>3 DEF PassLists
    <3> QED  BY <2>4, <2>5, <3>1
  <2>7. f[n + 1] # <<>>  BY <2>6
  <2> QED  BY <2>1, <2>7
<1> HIDE DEF S
<1>3. \A n \in 0..k : n \in S  BY <1>1, <1>2, Induction
<1> QED  BY <1>3 DEF S

\* The closures of a queue do what its passes do.
LEMMA RunsAlike ==
  ASSUME NEW items \in Seq(Items), data \in Pictures,
         \A n \in 1..Len(items) : Joins(items, n) => items[n].kind # "clear"
  PROVE  /\ RunAll(items) = Promise!RunPasses(data, PassesOf(items))
         /\ RunAll(items) \in Pictures
<1> DEFINE k == Len(items)
<1>1. k \in Nat  OBVIOUS
<1>2. PICK g \in [0..k -> PassLists] : PassesRec(items, g) /\ PassesOf(items) = g[k]
  BY PassesAre
<1>3. \A n \in 1..k : g[n] # <<>>  BY <1>2, PassesFull
<1>4. \A n \in 0..k : g[n] \in Seq(Passes)  BY <1>2 DEF PassLists
<1>5. ASSUME NEW t \in Textures
      PROVE  RunAll(items)[t] = Promise!RunPasses(data, g[k])[t] /\ RunAll(items)[t] \in Contents
  <2>1. PICK f \in [0..k -> Contents] : ContentRec(items, t, f) /\ RunAll(items)[t] = f[k]
    BY ContentsAre
  <2> DEFINE h == [n \in 0..k |-> Promise!RunPasses(data, g[n])[t]]
  <2>2. f[0] = h[0]
    <3>1. f[0] = data[t]  BY <1>1, <2>1 DEF ContentRec
    <3>2. g[0] = <<>>  BY <1>1, <1>2 DEF PassesRec
    <3> QED  BY <1>1, <3>1, <3>2, PicturesOfNone
  <2>3. ASSUME NEW n \in 1..k, f[n-1] = h[n-1]  PROVE f[n] = h[n]
    <3>1. n \in 0..k /\ n # 0 /\ n - 1 \in 0..k /\ n \in 1..Len(items)  BY <1>1
    <3>2. f[n] = Run(items[n], t, f[n-1])  BY <2>1, <3>1 DEF ContentRec
    <3>3. g[n] = AddItem(items, n, g[n-1])  BY <1>2, <3>1 DEF PassesRec
    <3>4. g[n-1] \in PassLists  BY <3>1
    <3>5. Joins(items, n) => g[n-1] # <<>> /\ items[n].kind # "clear"
      <4>1. Joins(items, n) => n - 1 \in 1..k  BY <3>1 DEF Joins
      <4> QED  BY <1>3, <4>1
    <3>6. Promise!RunPasses(data, AddItem(items, n, g[n-1]))[t]
            = Run(items[n], t, Promise!RunPasses(data, g[n-1])[t])
      <4> HIDE DEF k, h
      <4> QED  BY <3>1, <3>4, <3>5, AddItemRuns
    <3>7. h[n-1] = Promise!RunPasses(data, g[n-1])[t] /\ h[n] = Promise!RunPasses(data, g[n])[t]
      BY <3>1
    <3> HIDE DEF h
    <3> QED  BY <2>3, <3>2, <3>3, <3>6, <3>7
  <2> HIDE DEF h
  <2>4. Alike(f, h, k)  BY <2>2, <2>3 DEF Alike
  <2>5. f[k] = h[k]
    <3> HIDE DEF k
    <3>1. k \in 0..k  BY <1>1
    <3> QED  BY <1>1, <2>4, <3>1, Agree DEF Same
  <2>6. h[k] = Promise!RunPasses(data, g[k])[t]  BY <1>1 DEF h
  <2>7. f[k] \in Contents  BY <1>1, <2>1
  <2> QED  BY <2>1, <2>5, <2>6, <2>7
<1>6. RunAll(items) = [t \in Textures |-> RunAll(items)[t]]  BY DEF RunAll
<1>7. Promise!RunPasses(data, g[k]) \in Pictures
  <2> DEFINE passes == g[k]
  <2>1. passes \in Seq(Passes)  BY <1>1, <1>4
  <2> HIDE DEF passes
  <2>2. PICK f \in [0..Len(passes) -> Pictures] : Promise!RunPasses(data, passes) = f[Len(passes)]
    BY <2>1, PicturesAre
  <2>3. Len(passes) \in 0..Len(passes)  BY <2>1
  <2>4. Promise!RunPasses(data, passes) \in Pictures  BY <2>2, <2>3
  <2> QED  BY <2>4 DEF passes
<1>8. RunAll(items) \in Pictures
  <2> DEFINE r == RunAll(items)
  <2> HIDE DEF r
  <2> QED  BY <1>5, <1>6 DEF Pictures, r
<1>9. RunAll(items) = Promise!RunPasses(data, g[k])
  <2> DEFINE r == RunAll(items)
             s == Promise!RunPasses(data, g[k])
  <2>1. r \in Pictures /\ s \in Pictures /\ \A t \in Textures : r[t] = s[t]  BY <1>5, <1>7, <1>8
  <2> HIDE DEF r, s
  <2>2. r = s  BY <2>1 DEF Pictures
  <2> QED  BY <2>2 DEF r, s
<1> QED  BY <1>2, <1>8, <1>9

-----------------------------------------------------------------------------
(* The refinement. An item queued is a pass begun or a draw in the last pass;  *)
(* that a clear never joins a pass is what Blocks says of the queue.           *)

\* A clear is the first item of its encoder.
LEMMA ClearsBegin ==
  ASSUME TypeInv, QueueInv, NEW c \in CmdBufs, NEW n \in 1..Len(work[c]), Joins(work[c], n)
  PROVE  work[c][n].kind # "clear"
<1>1. work[c] \in Seq(Items)  BY DEF TypeInv
<1>2. n - 1 \in DOMAIN work[c] /\ n \in DOMAIN work[c] /\ n - 1 < n  BY <1>1 DEF Joins
<1>3. work[c][n].kind = "draw"  BY <1>2 DEF QueueInv, Blocks, Joins
<1> QED  BY <1>3

\* What a texture holds came from clears and draws.
LEMMA PicturesKept == Spec => [](data \in Pictures)
<1>1. Init => data \in Pictures
  <2>1. <<>> \in Contents  BY DEF Contents
  <2> QED  BY <2>1 DEF Init, Pictures
<1>2. TypeInv /\ QueueInv /\ data \in Pictures /\ [Next]_vars => (data \in Pictures)'
  <2> SUFFICES ASSUME TypeInv, QueueInv, data \in Pictures, [Next]_vars  PROVE data' \in Pictures
    OBVIOUS
  <2>1. ASSUME NEW c \in CmdBufs, Commit(c)  PROVE data' \in Pictures
    <3>1. work[c] \in Seq(Items)  BY DEF TypeInv
    <3> QED  BY <2>1, <3>1, ClearsBegin, RunsAlike DEF Commit
  <2>2. CASE data' = data  BY <2>2
  <2> QED  BY <2>1, <2>2 DEF Next, vars, SetAttachment, NewRenderEncoder, SetVertexBuffer,
                            SetFragmentTexture, DrawIndexed, EndEncoding
<1> QED  BY <1>1, <1>2, Types, Order, PTL DEF Spec

\* A pass is a pass of the promise.
LEMMA PassesPass ==
  ASSUME NEW p \in Passes
  PROVE  Promise!IsPass(p)
<1>1. p.draws \in Seq(DrawRecords)  BY DEF Passes
<1>2. \A i \in DOMAIN p.draws : p.draws[i] \in DrawRecords  BY <1>1
<1> QED  BY <1>2 DEF Passes, DrawRecords, Marks, Promise!IsPass, Promise!IsDraw

\* An item queued encodes a pass or a draw.
LEMMA ItemEncodes ==
  ASSUME TypeInv, NEW c \in CmdBufs, NEW x \in Items,
         work' = [work EXCEPT ![c] = work[c] \o <<x>>], data' = data,
         x.kind = "clear" => \A i \in DOMAIN work[c] : work[c][i].by # x.by
  PROVE  Promise!Encode(c)
<1> DEFINE old == PassesOf(work[c])
           new == PassesOf(work'[c])
           more == Append(work[c], x)
           k == Len(work[c])
           n == Len(old)
<1>1. /\ work[c] \in Seq(Items) /\ k \in Nat /\ work'[c] = more /\ more \in Seq(Items)
      /\ Len(more) = k + 1 /\ more[k + 1] = x /\ \A i \in 1..k : more[i] = work[c][i]
  BY DEF TypeInv
<1>2. old \in PassLists /\ old \in Seq(Passes) /\ n \in Nat
  BY <1>1, PassesGrow DEF PassLists
<1>3. new = AddItem(more, k + 1, old)  BY <1>1, PassesGrow
<1>4. new \in PassLists /\ new \in Seq(Passes)
  <2>1. PassesOf(more) \in PassLists  BY <1>1, PassesGrow
  <2> QED  BY <1>1, <2>1 DEF PassLists
<1>5. [d \in CmdBufs |-> PassesOf(work'[d])] = [[d \in CmdBufs |-> PassesOf(work[d])] EXCEPT ![c] = new]
  <2>1. \A d \in CmdBufs : d # c => work'[d] = work[d]  BY DEF TypeInv
  <2> HIDE DEF new
  <2>2. \A d \in CmdBufs : PassesOf(work'[d]) = IF d = c THEN new ELSE PassesOf(work[d])  BY <2>1 DEF new
  <2> QED  BY <2>2
<1> HIDE DEF more
<1>6. CASE ~ Joins(more, k + 1)
  <2> DEFINE p == WithItem(NewPass, x)
  <2>1. new = Append(old, p)  BY <1>1, <1>3, <1>6 DEF AddItem
  <2>2. p \in Passes  BY ItemType
  <2>3. Len(p.draws) <= 1
    <3> DEFINE d == [onto |-> Written(x), mark |-> MarkOf(x)]
               draws == p.draws
    <3>1. draws = <<>> \/ draws = Append(<<>>, d)  BY DEF WithItem, NewPass
    <3> HIDE DEF d, draws
    <3>2. Len(<<>>) = 0 /\ Len(Append(<<>>, d)) = 1  OBVIOUS
    <3>3. Len(draws) = 0 \/ Len(draws) = 1  BY <3>1, <3>2
    <3>4. \A m \in 0..1 : m <= 1  OBVIOUS
    <3>5. Len(draws) \in 0..1  BY <3>3
    <3>6. Len(draws) <= 1  BY <3>4, <3>5, Zenon
    <3> QED  BY <3>6 DEF draws
  <2> HIDE DEF p, old, new
  <2>4. Len(new) = n + 1 /\ new[Len(new)] = p  BY <1>2, <2>1, <2>2
  <2>5. Promise!IsPass(p)  BY <2>2, PassesPass
  <2>6. Promise!BeginsPass(old, new)  BY <2>1, <2>3, <2>4, <2>5 DEF Promise!BeginsPass
  <2>7. new # old  BY <1>2, <2>4
  <2> QED  BY <1>5, <2>4, <2>6, <2>7, c \in CmdBufs DEF Promise!Encode, old, new
<1>7. CASE Joins(more, k + 1)
  <2> DEFINE q == old[n]
             d == [onto |-> Written(x), mark |-> MarkOf(x)]
             p == WithItem(q, x)
  <2>1. k # 0 /\ work[c][k].by = x.by
    <3> HIDE DEF k, n, q, p, d, old, new
    <3>1. k + 1 > 1 /\ more[(k + 1) - 1].by = more[k + 1].by  BY <1>7 DEF Joins
    <3>2. k \in Nat /\ k # 0  BY <1>1, <3>1
    <3>3. (k + 1) - 1 = k /\ k \in 1..k  BY <3>2
    <3>4. more[k] = work[c][k] /\ more[k + 1] = x  BY <1>1, <3>3
    <3>5. more[k].by = x.by  BY <3>1, <3>3, <3>4
    <3> QED  BY <3>2, <3>4, <3>5
  <2>2. x.kind # "clear"
    <3>1. k \in DOMAIN work[c]  BY <1>1, <2>1
    <3> QED  BY <2>1, <3>1
  <2>3. old # <<>>
    <3>1. PICK g \in [0..k -> PassLists] : PassesRec(work[c], g) /\ old = g[k]
      BY <1>1, PassesAre
    <3>2. k \in 1..k  BY <1>1, <2>1
    <3>3. \A m \in 1..k : g[m] # <<>>  BY <1>1, <3>1, PassesFull
    <3>4. g[k] # <<>>
      <4> HIDE DEF k
      <4> QED  BY <3>2, <3>3
    <3> QED  BY <3>1, <3>4
  <2> HIDE DEF old, new
  <2>4. n # 0 /\ n \in 1..n /\ q \in Passes /\ DOMAIN old = 1..n  BY <1>2, <2>3
  <2>5. p.draws = Append(q.draws, d) /\ p = [q EXCEPT !.draws = Append(@, d)]
    BY <2>2, <2>4 DEF WithItem, Passes
  <2>6. d \in DrawRecords /\ p \in Passes  BY <2>2, <2>4, ItemType
  <2>7. new = [old EXCEPT ![n] = p]  BY <1>1, <1>3, <1>7 DEF AddItem
  <2>8. Len(new) = n /\ new[n] = p  BY <1>2, <2>4, <2>6, <2>7
  <2> HIDE DEF d
  <2>9. Len(p.draws) = Len(q.draws) + 1 /\ Len(q.draws) \in Nat /\ p.draws[Len(p.draws)] = d
    <3>1. q.draws \in Seq(DrawRecords)  BY <2>4 DEF Passes
    <3> DEFINE draws == q.draws
    <3> HIDE DEF draws
    <3>2. /\ Len(Append(draws, d)) = Len(draws) + 1 /\ Len(draws) \in Nat
          /\ Append(draws, d)[Len(draws) + 1] = d
      BY <2>6, <3>1 DEF draws
    <3> QED  BY <2>5, <3>2 DEF draws
  <2>10. p.draws # <<>>
    <3>1. Len(p.draws) # 0  BY <2>9
    <3> QED  BY <3>1
  <2>11. new # old
    <3>1. p # q  BY <2>9
    <3> QED  BY <2>4, <2>8, <3>1
  <2>12. Promise!IsDraw(d)  BY <2>6 DEF DrawRecords, Marks, Promise!IsDraw
  <2>13. new = [old EXCEPT ![n].draws = Append(@, d)]
    BY <2>4, <2>5, <2>7
  <2>14. Promise!AddsDraw(old, new)
    <3>1. new[n].draws = p.draws  BY <2>8
    <3> HIDE DEF p, q
    <3> QED  BY <1>2, <2>4, <2>8, <2>9, <2>10, <2>12, <2>13, <3>1 DEF Promise!AddsDraw
  <2>15. Len(new) # n + 1  BY <1>2, <2>8
  <2> QED  BY <1>5, <2>8, <2>11, <2>14, <2>15 DEF Promise!Encode, old, new
<1> QED  BY <1>6, <1>7

\* What leaves the queues and the textures alone is no step of the promise.
LEMMA SameWork ==
  ASSUME work' = work, data' = data
  PROVE  UNCHANGED Promise!passesVars
<1>1. [d \in CmdBufs |-> PassesOf(work'[d])] = [d \in CmdBufs |-> PassesOf(work[d])]  OBVIOUS
<1> QED  BY <1>1 DEF Promise!passesVars

\* A commit runs the passes encoded.
LEMMA CommitCommits ==
  ASSUME TypeInv, QueueInv, data \in Pictures, NEW c \in CmdBufs, Commit(c)
  PROVE  Promise!Commit(c) \/ UNCHANGED Promise!passesVars
<1>1. work[c] \in Seq(Items)  BY DEF TypeInv
<1>2. data' = Promise!RunPasses(data, PassesOf(work[c]))
  BY <1>1, ClearsBegin, RunsAlike DEF Commit
<1>3. work' = work  BY DEF Commit
<1>4. [d \in CmdBufs |-> PassesOf(work'[d])] = [d \in CmdBufs |-> PassesOf(work[d])]  BY <1>3
<1>5. [d \in CmdBufs |-> PassesOf(work[d])][c] = PassesOf(work[c])  OBVIOUS
<1> QED  BY <1>2, <1>4, <1>5 DEF Promise!Commit, Promise!passesVars

\* What a sequence of passes promises, the queue of closures does: for any number of command
\* buffers, encoders, textures and draws, every call encodes a pass or a draw, commits the passes
\* encoded, or changes nothing the promise speaks of.
THEOREM PassesRefined == Spec => PassesKept
<1>1. Init => Promise!Init
  <2> SUFFICES ASSUME Init  PROVE Promise!Init
    OBVIOUS
  <2>1. \A c \in CmdBufs : PassesOf(work[c]) = <<>>
    <3>1. <<>> \in Seq(Items) /\ Len(<<>>) = 0  OBVIOUS
    <3>2. PICK f \in [0..0 -> PassLists] : PassesRec(<<>>, f) /\ PassesOf(<<>>) = f[0]
      BY <3>1, PassesAre
    <3>3. PassesOf(<<>>) = <<>>  BY <3>2 DEF PassesRec
    <3> QED  BY <3>3 DEF Init
  <2>2. [c \in CmdBufs |-> PassesOf(work[c])] = [c \in CmdBufs |-> <<>>]  BY <2>1
  <2> QED  BY <2>2 DEF Init, Promise!Init
<1>2. TypeInv /\ QueueInv /\ data \in Pictures /\ [Next]_vars => [Promise!Next]_(Promise!passesVars)
  <2> SUFFICES ASSUME TypeInv, QueueInv, data \in Pictures, [Next]_vars
               PROVE  [Promise!Next]_(Promise!passesVars)
    OBVIOUS
  <2>1. ASSUME NEW e \in Encoders, NEW c \in CmdBufs, NEW p \in Descriptors \cup {None},
               NewRenderEncoder(e, c, p)
        PROVE  [Promise!Next]_(Promise!passesVars)
    <3>1. work' = [work EXCEPT ![c] = work[c] \o LoadActions(e, p)] /\ data' = data
      BY <2>1 DEF NewRenderEncoder, Enqueue
    <3>2. CASE LoadActions(e, p) = <<>>
      <4>1. work' = work  BY <3>1, <3>2 DEF TypeInv
      <4> QED  BY <3>1, <4>1, SameWork
    <3>3. ASSUME NEW x \in Items, LoadActions(e, p) = <<x>>, x.kind = "clear", x.by = e
          PROVE  Promise!Encode(c)
      <4>1. \A i \in DOMAIN work[c] : work[c][i].by # e
        BY <2>1, NoneType DEF QueueInv, Placed, NewRenderEncoder
      <4> QED  BY <3>1, <3>3, <4>1, ItemEncodes
    <3> QED  BY <3>2, <3>3, LoadActionsType DEF Promise!Next
  <2>2. ASSUME NEW e \in Encoders, DrawIndexed(e)
        PROVE  [Promise!Next]_(Promise!passesVars)
    <3>1. cb[e] \in CmdBufs  BY <2>2 DEF DrawIndexed, QueueInv, OneOpen
    <3>2. work' = [work EXCEPT ![cb[e]] = work[cb[e]] \o <<DrawState(e)>>] /\ data' = data
      BY <2>2 DEF DrawIndexed, Enqueue
    <3>3. DrawState(e) \in Items /\ DrawState(e).kind # "clear"
      BY DrawStateType DEF DrawState
    <3>4. Promise!Encode(cb[e])  BY <3>1, <3>2, <3>3, ItemEncodes
    <3> QED  BY <3>1, <3>4 DEF Promise!Next
  <2>3. ASSUME NEW c \in CmdBufs, Commit(c)
        PROVE  [Promise!Next]_(Promise!passesVars)
    BY <2>3, CommitCommits DEF Promise!Next
  <2>4. CASE work' = work /\ data' = data  BY <2>4, SameWork
  <2> QED  BY <2>1, <2>2, <2>3, <2>4 DEF Next, vars, SetAttachment, SetVertexBuffer,
                                        SetFragmentTexture, EndEncoding
<1> QED  BY <1>1, <1>2, Types, Order, PicturesKept, PTL DEF Spec, PassesKept, Promise!Spec

=============================================================================
