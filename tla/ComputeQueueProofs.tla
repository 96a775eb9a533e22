------------------------- MODULE ComputeQueueProofs -------------------------
(***************************************************************************)
(* What a kernel is called with, for any number of encoders, dispatches,    *)
(* kernels and bindings. The calls of a commit are a recursive function of   *)
(* the queue, so the proof first derives induction over the naturals from    *)
(* the library's theorem that < is well-founded.                             *)
(***************************************************************************)
EXTENDS ComputeQueue, FiniteSetTheorems, TLAPS, WellFoundedInduction

\* A set of naturals with an element has a least one.
LEMMA Least ==
  ASSUME NEW T \in SUBSET Nat, T # {}
  PROVE  \E m \in T : \A n \in T : m <= n
<1>1. \E x \in T : \A y \in T : ~ (<<y, x>> \in OpToRel(<, Nat))
  BY NatLessThanWellFounded, WFMin
<1>2. ASSUME NEW x \in Nat, NEW y \in Nat, y < x
      PROVE  <<y, x>> \in OpToRel(<, Nat)
  <2>1. <<y, x>> \in {p \in Nat \X Nat : p[1] < p[2]}  BY <1>2
  <2> QED  BY <2>1 DEF OpToRel
<1>3. PICK m \in T : \A y \in T : ~ (<<y, m>> \in OpToRel(<, Nat))  BY <1>1
<1>4. ASSUME NEW n \in T  PROVE ~ n < m
  <2>1. m \in Nat /\ n \in Nat  OBVIOUS
  <2> QED  BY <2>1, <1>2, <1>3
<1>5. \A n \in T : m <= n  BY <1>4
<1> QED  BY <1>5

\* Induction: a set with 0 and every successor has all naturals.
LEMMA Induction ==
  ASSUME NEW S, 0 \in S, \A n \in Nat : n \in S => n + 1 \in S
  PROVE  \A n \in Nat : n \in S
<1> SUFFICES ASSUME NEW k \in Nat, k \notin S  PROVE FALSE
  OBVIOUS
<1>1. PICK m \in Nat \ S : \A n \in Nat \ S : m <= n
  BY Least
<1>2. m # 0 /\ m - 1 \in Nat /\ m - 1 \in S
  BY <1>1
<1>3. (m - 1) + 1 = m  BY <1>1
<1> QED  BY <1>1, <1>2, <1>3

-----------------------------------------------------------------------------
(* The pointers of a call.                                                  *)

Bindings == [Indices -> Buffers \cup {Nil, Unbound}]

Dispatches == [fn : Names \cup {Nil}, bufs : Bindings]

\* The highest index bound exists, and the pointers reach just up to it.
LEMMA PtrCountType ==
  ASSUME NEW d \in Dispatches
  PROVE  /\ PtrCount(d) \in Nat \ {0}
         /\ \A i \in BoundIn(d) : i < PtrCount(d)
<1>1. MaxIndex \in Nat  BY BoundsType
<1>2. BoundIn(d) \subseteq Indices /\ Indices \subseteq Nat  BY <1>1 DEF BoundIn, Indices
<1>3. CASE BoundIn(d) = {}  BY <1>3 DEF PtrCount
<1>4. CASE BoundIn(d) # {}
  <2> DEFINE below == {n \in Nat : MaxIndex - n \in BoundIn(d)}
  <2>1. below # {}
    <3>1. PICK i \in BoundIn(d) : TRUE  BY <1>4
    <3>2. MaxIndex - i \in Nat /\ MaxIndex - (MaxIndex - i) = i
      BY <1>1, <1>2, <3>1 DEF Indices
    <3> QED  BY <3>1, <3>2
  <2>2. PICK m \in below : \A n \in below : m <= n  BY <2>1, Least
  <2>3. ASSUME NEW j \in BoundIn(d)  PROVE j <= MaxIndex - m
    <3>1. j \in Nat /\ MaxIndex - j \in Nat /\ MaxIndex - (MaxIndex - j) = j
      BY <1>1, <1>2, <2>3 DEF Indices
    <3>2. MaxIndex - j \in below  BY <3>1, <2>3
    <3>3. m <= MaxIndex - j  BY <3>2, <2>2
    <3> QED  BY <3>1, <3>3, <1>1, <2>2
  <2>4. \E i \in BoundIn(d) : \A j \in BoundIn(d) : j <= i  BY <2>2, <2>3
  <2> DEFINE top == CHOOSE i \in BoundIn(d) : \A j \in BoundIn(d) : j <= i
  <2>5. top \in BoundIn(d) /\ \A j \in BoundIn(d) : j <= top  BY <2>4
  <2>6. PtrCount(d) = 1 + top  BY <1>4 DEF PtrCount
  <2> HIDE DEF top
  <2>7. top \in Nat  BY <1>2, <2>5
  <2>8. ASSUME NEW i \in BoundIn(d)  PROVE i < PtrCount(d)
    <3>1. i \in Nat /\ i <= top  BY <1>2, <2>5
    <3> QED  BY <3>1, <2>6, <2>7
  <2> QED  BY <2>6, <2>7, <2>8
<1> QED  BY <1>3, <1>4

\* The pointers made for a dispatch are what KernelSeesBindings asks of a call.
LEMMA PtrsFit ==
  ASSUME NEW d \in Dispatches
  PROVE  /\ 0 \in DOMAIN Ptrs(d)
         /\ \A i \in Indices :
               IF d.bufs[i] \in Buffers
               THEN i \in DOMAIN Ptrs(d) /\ Ptrs(d)[i] = d.bufs[i]
               ELSE i \in DOMAIN Ptrs(d) => Ptrs(d)[i] = Nil
<1>1. PtrCount(d) \in Nat \ {0} /\ \A i \in BoundIn(d) : i < PtrCount(d)
  BY PtrCountType
<1>2. DOMAIN Ptrs(d) = 0..PtrCount(d) - 1  BY DEF Ptrs
<1>3. ASSUME NEW i \in Indices
      PROVE  /\ d.bufs[i] \in Buffers \cup {Nil, Unbound}
             /\ i \in BoundIn(d) <=> d.bufs[i] # Unbound
             /\ i \in Nat
  BY BoundsType DEF Dispatches, Bindings, BoundIn, Indices
<1>4. ASSUME NEW i \in Indices, d.bufs[i] \in Buffers
      PROVE  i \in DOMAIN Ptrs(d) /\ Ptrs(d)[i] = d.bufs[i]
  <2>1. i \in BoundIn(d) /\ i \in Nat  BY <1>3, <1>4, UnboundType
  <2>2. i \in 0..PtrCount(d) - 1  BY <2>1, <1>1
  <2> QED  BY <1>2, <2>1, <2>2 DEF Ptrs
<1>5. ASSUME NEW i \in Indices, d.bufs[i] \notin Buffers, i \in DOMAIN Ptrs(d)
      PROVE  Ptrs(d)[i] = Nil
  BY <1>2, <1>3, <1>5 DEF Ptrs
<1> QED  BY <1>1, <1>2, <1>4, <1>5

-----------------------------------------------------------------------------
(* The calls of a commit.                                                   *)

\* A call that was made: a registered kernel, and the pointers of its dispatch.
GoodCalls == {x \in [item : Dispatches, ptrs : {Ptrs(d) : d \in Dispatches}, kernel : Kernels] :
                x.ptrs = Ptrs(x.item)}

\* The recursion of CallsOf, up to the k-th dispatch.
AddCall(items, n, before) ==
    IF Runs(items[n])
    THEN Append(before, [item |-> items[n], ptrs |-> Ptrs(items[n]),
                         kernel |-> kernels[items[n].fn]])
    ELSE before

Recursion(items, k, f) ==
    f = [n \in 0..k |-> IF n = 0 THEN <<>> ELSE AddCall(items, n, f[n-1])]

LEMMA RecursionExists ==
  ASSUME NEW items, NEW k \in Nat
  PROVE  \E f : Recursion(items, k, f)
<1> DEFINE S == {n \in Nat : \E f : Recursion(items, n, f)}
<1>1. 0 \in S
  <2>1. Recursion(items, 0, [n \in 0..0 |-> <<>>])  BY DEF Recursion
  <2> QED  BY <2>1
<1>2. ASSUME NEW n \in Nat, n \in S  PROVE n + 1 \in S
  <2>1. PICK f : Recursion(items, n, f)  BY <1>2
  <2> DEFINE g == [m \in 0..n + 1 |-> IF m = 0 THEN <<>> ELSE AddCall(items, m, f[m-1])]
  <2>2. ASSUME NEW m \in 0..n  PROVE g[m] = f[m]
    BY <2>1, <2>2 DEF Recursion
  <2>3. ASSUME NEW m \in 0..n + 1, m # 0  PROVE f[m-1] = g[m-1]
    BY <2>2, <2>3
  <2>4. g = [m \in 0..n + 1 |-> IF m = 0 THEN <<>> ELSE AddCall(items, m, g[m-1])]
    <3> DEFINE h == [m \in 0..n + 1 |-> IF m = 0 THEN <<>> ELSE AddCall(items, m, g[m-1])]
    <3>1. ASSUME NEW m \in 0..n + 1  PROVE g[m] = h[m]
      <4>1. CASE m = 0  BY <4>1
      <4>2. CASE m # 0
        <5>1. f[m-1] = g[m-1]  BY <2>3, <4>2
        <5>2. g[m] = AddCall(items, m, f[m-1])  BY <4>2
        <5>3. h[m] = AddCall(items, m, g[m-1])  BY <4>2
        <5> HIDE DEF g, h
        <5> QED  BY <5>1, <5>2, <5>3
      <4> QED  BY <4>1, <4>2
    <3> QED  BY <3>1
  <2>5. Recursion(items, n + 1, g)  BY <2>4 DEF Recursion
  <2> QED  BY <2>5
<1> HIDE DEF S
<1>3. k \in S  BY <1>1, <1>2, Induction
<1> QED  BY <1>3 DEF S

\* A commit makes good calls only.
LEMMA CallsOfGood ==
  ASSUME NEW items \in Seq(Dispatches), kernels \in [Names -> Kernels \cup {Unbound}]
  PROVE  CallsOf(items) \in Seq(GoodCalls)
<1> DEFINE L == Len(items)
           after == CHOOSE f : Recursion(items, L, f)
<1>1. L \in Nat  OBVIOUS
<1>2. Recursion(items, L, after)  BY <1>1, RecursionExists
<1>3. CallsOf(items) = after[L]  BY DEF CallsOf, Recursion, AddCall
<1> HIDE DEF after
<1> DEFINE S == {n \in Nat : n <= L => after[n] \in Seq(GoodCalls)}
<1>4. 0 \in S  BY <1>2 DEF Recursion
<1>5. ASSUME NEW n \in Nat, n \in S  PROVE n + 1 \in S
  <2> SUFFICES ASSUME n + 1 <= L  PROVE after[n + 1] \in Seq(GoodCalls)
    OBVIOUS
  <2>1. after[n] \in Seq(GoodCalls)  BY <1>1, <1>5
  <2>2. after[n + 1] = AddCall(items, n + 1, after[n])
    BY <1>1, <1>2 DEF Recursion
  <2>3. items[n + 1] \in Dispatches  BY <1>1
  <2> DEFINE d == items[n + 1]
             x == [item |-> d, ptrs |-> Ptrs(d), kernel |-> kernels[d.fn]]
  <2>4. ASSUME Runs(d)  PROVE x \in GoodCalls
    <3>1. d.fn \in Names /\ kernels[d.fn] \in Kernels
      BY <2>3, <2>4 DEF Runs, Registered, Dispatches
    <3> QED  BY <2>3, <3>1 DEF GoodCalls
  <2>5. CASE Runs(d)
    <3>1. after[n + 1] = Append(after[n], x)  BY <2>2, <2>5 DEF AddCall
    <3> HIDE DEF x
    <3> QED  BY <2>1, <2>4, <2>5, <3>1
  <2>6. CASE ~ Runs(d)
    BY <2>1, <2>2, <2>6 DEF AddCall
  <2> QED  BY <2>5, <2>6
<1> HIDE DEF S
<1>6. L \in S  BY <1>1, <1>4, <1>5, Induction
<1> QED  BY <1>1, <1>3, <1>6 DEF S

\* The dispatches that run, among the first k.
RunningTo(items, k) == {m \in 1..k : Runs(items[m])}

LEMMA RunningGrows ==
  ASSUME NEW items, NEW k \in Nat
  PROVE  /\ Cardinality(RunningTo(items, k)) \in Nat
         /\ RunningTo(items, 0) = {} /\ Cardinality(RunningTo(items, 0)) = 0
         /\ Runs(items[k + 1]) =>
              /\ RunningTo(items, k + 1) = RunningTo(items, k) \cup {k + 1}
              /\ Cardinality(RunningTo(items, k + 1)) = Cardinality(RunningTo(items, k)) + 1
         /\ ~ Runs(items[k + 1]) => RunningTo(items, k + 1) = RunningTo(items, k)
<1>1. IsFiniteSet(RunningTo(items, k))
  BY FS_Interval, FS_Subset, 1 \in Int, k \in Int DEF RunningTo
<1>2. Cardinality(RunningTo(items, k)) \in Nat  BY <1>1, FS_CardinalityType
<1>3. RunningTo(items, 0) = {}  BY DEF RunningTo
<1>4. ASSUME Runs(items[k + 1])  PROVE RunningTo(items, k + 1) = RunningTo(items, k) \cup {k + 1}
  BY <1>4 DEF RunningTo
<1>5. ASSUME ~ Runs(items[k + 1])  PROVE RunningTo(items, k + 1) = RunningTo(items, k)
  <2>1. \A m \in 1..k + 1 : m \in 1..k \/ m = k + 1  OBVIOUS
  <2>2. 1..k \subseteq 1..k + 1  OBVIOUS
  <2> QED  BY <1>5, <2>1, <2>2 DEF RunningTo
<1>6. k + 1 \notin RunningTo(items, k)  BY DEF RunningTo
<1>7. Cardinality(RunningTo(items, k) \cup {k + 1}) = Cardinality(RunningTo(items, k)) + 1
  BY <1>1, <1>6, FS_AddElement
<1> QED  BY <1>2, <1>3, <1>4, <1>5, <1>7, FS_EmptySet

\* The k-th call of a commit is of the k-th dispatch that runs.
LEMMA CallsOfOrder ==
  ASSUME NEW items \in Seq(Dispatches), kernels \in [Names -> Kernels \cup {Unbound}]
  PROVE  /\ Len(CallsOf(items)) = Cardinality(RunningTo(items, Len(items)))
         /\ \A m \in RunningTo(items, Len(items)) :
              LET k == Cardinality(RunningTo(items, m))
              IN  /\ k \in 1..Len(CallsOf(items))
                  /\ CallsOf(items)[k].item = items[m]
                  /\ CallsOf(items)[k].kernel = kernels[items[m].fn]
<1> DEFINE L == Len(items)
           after == CHOOSE f : Recursion(items, L, f)
           Nth(s, m) == LET k == Cardinality(RunningTo(items, m))
                        IN  /\ k \in 1..Len(s)
                            /\ s[k].item = items[m]
                            /\ s[k].kernel = kernels[items[m].fn]
           Ordered(s, n) == /\ s \in Seq(GoodCalls)
                            /\ Len(s) = Cardinality(RunningTo(items, n))
                            /\ \A m \in RunningTo(items, n) : Nth(s, m)
<1>1. L \in Nat  OBVIOUS
<1>2. Recursion(items, L, after)  BY <1>1, RecursionExists
<1>3. CallsOf(items) = after[L]  BY DEF CallsOf, Recursion, AddCall
<1> HIDE DEF after
<1> DEFINE S == {n \in Nat : n <= L => Ordered(after[n], n)}
<1>4. 0 \in S
  <2>1. after[0] = <<>>  BY <1>2 DEF Recursion
  <2>2. <<>> \in Seq(GoodCalls) /\ Len(<<>>) = 0  OBVIOUS
  <2>3. RunningTo(items, 0) = {} /\ Cardinality(RunningTo(items, 0)) = 0  BY RunningGrows
  <2> HIDE DEF Nth
  <2> QED  BY <2>1, <2>2, <2>3
<1>5. ASSUME NEW n \in Nat, n \in S  PROVE n + 1 \in S
  <2> SUFFICES ASSUME n + 1 <= L  PROVE Ordered(after[n + 1], n + 1)
    OBVIOUS
  <2> DEFINE d == items[n + 1]
             x == [item |-> d, ptrs |-> Ptrs(d), kernel |-> kernels[d.fn]]
             s == after[n]
  <2>1. Ordered(s, n)  BY <1>1, <1>5
  <2>2. after[n + 1] = AddCall(items, n + 1, s)  BY <1>1, <1>2 DEF Recursion
  <2>3. d \in Dispatches  BY <1>1
  <2>4. CASE Runs(d)
    <3>1. after[n + 1] = Append(s, x)  BY <2>2, <2>4 DEF AddCall
    <3>2. x \in GoodCalls
      <4>1. d.fn \in Names /\ kernels[d.fn] \in Kernels
        BY <2>3, <2>4 DEF Runs, Registered, Dispatches
      <4> QED  BY <2>3, <4>1 DEF GoodCalls
    <3>3. x.item = d /\ x.kernel = kernels[d.fn]  OBVIOUS
    <3> HIDE DEF x, s
    <3>4. /\ Append(s, x) \in Seq(GoodCalls) /\ Len(Append(s, x)) = Len(s) + 1 /\ Len(s) \in Nat
          /\ Append(s, x)[Len(s) + 1] = x
          /\ \A k \in 1..Len(s) : Append(s, x)[k] = s[k]
      BY <2>1, <3>2
    <3>5. /\ RunningTo(items, n + 1) = RunningTo(items, n) \cup {n + 1}
          /\ Cardinality(RunningTo(items, n + 1)) = Len(s) + 1
      BY <2>1, <2>4, RunningGrows
    <3>6. ASSUME NEW m \in RunningTo(items, n)  PROVE Nth(Append(s, x), m)
      <4>1. Nth(s, m)  BY <2>1
      <4> QED  BY <3>4, <4>1
    <3>7. Nth(Append(s, x), n + 1)  BY <3>3, <3>4, <3>5
    <3> HIDE DEF Nth
    <3> QED  BY <3>1, <3>4, <3>5, <3>6, <3>7
  <2>5. CASE ~ Runs(d)
    <3>1. after[n + 1] = s  BY <2>2, <2>5 DEF AddCall
    <3>2. RunningTo(items, n + 1) = RunningTo(items, n)  BY <2>5, RunningGrows
    <3> HIDE DEF Nth
    <3> QED  BY <2>1, <3>1, <3>2
  <2> QED  BY <2>4, <2>5
<1> HIDE DEF S, Ordered, Nth
<1>6. L \in S  BY <1>1, <1>4, <1>5, Induction
<1> QED  BY <1>1, <1>3, <1>6 DEF S, Ordered, Nth

-----------------------------------------------------------------------------
(* The invariant.                                                           *)

\* What ComputeTypeOK needs to be inductive: the queues and the calls in full.
ComputeInv ==
    /\ kernels \in [Names -> Kernels \cup {Unbound}]
    /\ cb \in [Encoders -> CmdBufs \cup {Unbound}]
    /\ fn \in [Encoders -> Names \cup {Nil}]
    /\ bufs \in [Encoders -> Bindings]
    /\ work \in [CmdBufs -> Seq(Dispatches)]
    /\ \A c \in CmdBufs : Len(work[c]) <= MaxDispatches
    /\ calls \in Seq(GoodCalls)
    /\ commits \in 0..MaxCommits

LEMMA Bounds == MaxIndex \in Nat /\ MaxDispatches \in Nat /\ MaxCommits \in Nat
BY BoundsType

LEMMA ComputeInvariant == Spec => []ComputeInv
<1>1. Init => ComputeInv
  BY Bounds DEF Init, ComputeInv, Bindings
<1>2. ComputeInv /\ [Next]_vars => ComputeInv'
  <2> SUFFICES ASSUME ComputeInv, [Next]_vars  PROVE ComputeInv'
    OBVIOUS
  <2> USE Bounds DEF ComputeInv
  <2>1. ASSUME NEW f \in Names, NEW k \in Kernels, register_kernel(f, k)
        PROVE  ComputeInv'
    BY <2>1 DEF register_kernel
  <2>2. ASSUME NEW e \in Encoders, NEW c \in CmdBufs, NewEncoder(e, c)
        PROVE  ComputeInv'
    BY <2>2 DEF NewEncoder
  <2>3. ASSUME NEW e \in Encoders, NEW f \in Names \cup {Nil}, SetPipeline(e, f)
        PROVE  ComputeInv'
    BY <2>3 DEF SetPipeline
  <2>4. ASSUME NEW e \in Encoders, NEW i \in Indices, NEW b \in Buffers \cup {Nil},
               SetBuffer(e, i, b)
        PROVE  ComputeInv'
    <3>1. bufs' \in [Encoders -> Bindings]  BY <2>4 DEF SetBuffer, Bindings
    <3> QED  BY <2>4, <3>1 DEF SetBuffer
  <2>5. ASSUME NEW e \in Encoders, Dispatch(e)  PROVE ComputeInv'
    <3> DEFINE c == cb[e]
               d == [fn |-> fn[e], bufs |-> bufs[e]]
    <3>1. c \in CmdBufs  BY <2>5 DEF Dispatch
    <3>2. d \in Dispatches  BY DEF Dispatches
    <3>3. work' = [work EXCEPT ![c] = Append(work[c], d)] /\ Len(work[c]) < MaxDispatches
      BY <2>5 DEF Dispatch
    <3>4. /\ Append(work[c], d) \in Seq(Dispatches)
          /\ Len(Append(work[c], d)) = Len(work[c]) + 1
          /\ Len(work[c]) \in Nat
      BY <3>1, <3>2
    <3> HIDE DEF c, d
    <3>5. work' \in [CmdBufs -> Seq(Dispatches)]  BY <3>1, <3>3, <3>4
    <3>6. \A x \in CmdBufs : Len(work'[x]) <= MaxDispatches  BY <3>1, <3>3, <3>4
    <3> QED  BY <2>5, <3>5, <3>6 DEF Dispatch
  <2>6. ASSUME NEW c \in CmdBufs, Commit(c)  PROVE ComputeInv'
    <3>1. calls' = calls \/ calls' = calls \o CallsOf(work[c])  BY <2>6 DEF Commit
    <3>2. CallsOf(work[c]) \in Seq(GoodCalls)  BY CallsOfGood
    <3>3. calls \o CallsOf(work[c]) \in Seq(GoodCalls)  BY <3>2
    <3>4. calls' \in Seq(GoodCalls)  BY <3>1, <3>3
    <3>5. /\ GoodCalls' = GoodCalls
          /\ commits' \in 0..MaxCommits
          /\ UNCHANGED <<kernels, cb, fn, bufs, work>>
      BY <2>6 DEF Commit, GoodCalls
    <3> QED  BY <3>4, <3>5
  <2>7. CASE UNCHANGED vars  BY <2>7 DEF vars
  <2> QED  BY <2>1, <2>2, <2>3, <2>4, <2>5, <2>6, <2>7 DEF Next
<1> QED  BY <1>1, <1>2, PTL DEF Spec

\* Whether a pointer was dereferenced is a truth value: a commit decides it.
LEMMA CrashedType == Spec => [](crashed \in BOOLEAN)
<1>1. Init => crashed \in BOOLEAN  BY Zenon DEF Init
<1>2. crashed \in BOOLEAN /\ [Next]_vars => (crashed \in BOOLEAN)'
  BY Zenon DEF Next, vars, register_kernel, NewEncoder, SetPipeline, SetBuffer, Dispatch, Commit
<1> QED  BY <1>1, <1>2, PTL DEF Spec

\* Maps hold what was stored under keys that exist, queues stay within their bounds, and
\* every call that was made was of a registered kernel.
THEOREM ComputeTypes == Spec => []ComputeTypeOK
<1>1. ComputeInv /\ crashed \in BOOLEAN => ComputeTypeOK
  <2> SUFFICES ASSUME ComputeInv, crashed \in BOOLEAN  PROVE ComputeTypeOK
    OBVIOUS
  <2>1. \A n \in DOMAIN calls : calls[n].kernel \in Kernels
    BY DEF ComputeInv, GoodCalls
  <2> QED  BY <2>1 DEF ComputeInv, ComputeTypeOK, Bindings
<1> QED  BY <1>1, ComputeInvariant, CrashedType, PTL

\* Every kernel call has a pointer vector that reaches each binding of its dispatch, with
\* null where nothing was bound, whatever was bound and dispatched before.
THEOREM BindingsSeen == Spec => []KernelSeesBindings
<1>1. ComputeInv => KernelSeesBindings
  <2> SUFFICES ASSUME ComputeInv, NEW n \in DOMAIN calls
               PROVE  LET ptrs == calls[n].ptrs
                          bound == calls[n].item.bufs
                      IN  /\ 0 \in DOMAIN ptrs
                          /\ \A i \in Indices :
                                IF bound[i] \in Buffers
                                THEN i \in DOMAIN ptrs /\ ptrs[i] = bound[i]
                                ELSE i \in DOMAIN ptrs => ptrs[i] = Nil
    BY DEF KernelSeesBindings
  <2>1. calls[n] \in GoodCalls  BY DEF ComputeInv
  <2>2. calls[n].item \in Dispatches /\ calls[n].ptrs = Ptrs(calls[n].item)
    BY <2>1 DEF GoodCalls
  <2> QED  BY <2>2, PtrsFit
<1> QED  BY <1>1, ComputeInvariant, PTL

\* A commit adds to the calls one of each dispatch of its buffer whose name has a kernel, in the
\* order they were encoded, and takes none of the earlier calls back, however long the queue.
THEOREM CallsInOrder == Spec => EncodedOrder
<1> DEFINE Commits(c) ==
             LET run == {n \in DOMAIN work[c] : Registered(work[c][n])}
             IN  /\ Len(calls') = Len(calls) + Cardinality(run)
                 /\ \A n \in DOMAIN calls : calls'[n] = calls[n]
                 /\ \A n \in run :
                       LET call == calls'[Len(calls) + Cardinality({m \in run : m <= n})]
                       IN  call.item = work[c][n] /\ call.kernel = kernels[work[c][n].fn]
<1>1. ASSUME ComputeInv, NEW c \in CmdBufs, Commit(c), ~ crashed'  PROVE Commits(c)
  <2> DEFINE items == work[c]
             new == CallsOf(items)
             run == {n \in DOMAIN work[c] : Registered(work[c][n])}
  <2>1. calls' = calls \o new  BY <1>1 DEF Commit
  <2>2. items \in Seq(Dispatches) /\ kernels \in [Names -> Kernels \cup {Unbound}]
        /\ calls \in Seq(GoodCalls)
    BY <1>1 DEF ComputeInv
  <2>3. new \in Seq(GoodCalls)  BY <2>2, CallsOfGood
  <2>4. run = RunningTo(items, Len(items))  BY <2>2 DEF RunningTo, Runs
  <2>5. ASSUME NEW n \in run  PROVE {m \in run : m <= n} = RunningTo(items, n)
    BY <2>2, <2>4 DEF RunningTo
  <2>6. /\ Len(new) = Cardinality(run)
        /\ \A n \in run : LET k == Cardinality({m \in run : m <= n})
                          IN  /\ k \in 1..Len(new) /\ new[k].item = items[n]
                              /\ new[k].kernel = kernels[items[n].fn]
    <3> HIDE DEF items, new, run
    <3>1. /\ Len(new) = Cardinality(RunningTo(items, Len(items)))
          /\ \A n \in RunningTo(items, Len(items)) :
               LET k == Cardinality(RunningTo(items, n))
               IN  /\ k \in 1..Len(new) /\ new[k].item = items[n]
                   /\ new[k].kernel = kernels[items[n].fn]
      BY <2>2, CallsOfOrder DEF new
    <3> QED  BY <2>4, <2>5, <3>1
  <2> HIDE DEF new, run
  <2>7. /\ Len(calls') = Len(calls) + Len(new)
        /\ \A n \in DOMAIN calls : calls'[n] = calls[n]
        /\ \A k \in 1..Len(new) : calls'[Len(calls) + k] = new[k]
    BY <2>1, <2>2, <2>3
  <2> QED  BY <2>6, <2>7 DEF run
<1> HIDE DEF Commits
<1>2. ASSUME ComputeInv, [Next]_vars, commits' > commits, ~ crashed'
      PROVE  \E c \in CmdBufs : Commits(c)
  <2>1. commits \in Nat  BY <1>2, Bounds DEF ComputeInv
  <2>2. commits' # commits  BY <1>2, <2>1
  <2>3. PICK c \in CmdBufs : Commit(c)
    BY <1>2, <2>2 DEF Next, vars, register_kernel, NewEncoder, SetPipeline, SetBuffer, Dispatch
  <2> QED  BY <1>1, <1>2, <2>3
<1>3. ComputeInv /\ [Next]_vars =>
        [commits' > commits /\ ~ crashed' => \E c \in CmdBufs : Commits(c)]_vars
  BY <1>2
<1> QED  BY <1>3, ComputeInvariant, PTL DEF Spec, EncodedOrder, Commits
=============================================================================
