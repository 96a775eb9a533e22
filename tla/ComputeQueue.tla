---------------------------- MODULE ComputeQueue ----------------------------
(***************************************************************************)
(* The compute path of the emulated device (emulated_metal.cpp): kernels    *)
(* registered by name, encoders that collect a pipeline and buffer bindings, *)
(* dispatches queued with a copy of them, and commit, which looks the kernel *)
(* up and calls it with a vector of pointers.                                *)
(*                                                                           *)
(* Objects live throughout (MetalObjects is about when they do not), and the *)
(* shape of a dispatch is left to Dispatch.                                  *)
(***************************************************************************)
EXTENDS Naturals, Sequences, FiniteSets

CONSTANTS CmdBufs, Encoders, Buffers,
          Names,      \* the function names pipelines are built for
          Kernels,    \* the C++ stand-ins registered under them
          MaxIndex,   \* bound: the highest binding index
          Nil,        \* the null pointer, bound or passed
          Unbound,    \* no entry in the encoder's map, no kernel, no encoder yet
          MaxDispatches, MaxCommits   \* bounds: calls of each

ASSUME UnboundType == Unbound \notin Buffers \cup CmdBufs \cup Kernels
ASSUME BoundsType == {MaxIndex, MaxDispatches, MaxCommits} \subseteq Nat

VARIABLES
    kernels,  \* kernels[f]: the stand-in registered under f
    cb,       \* cb[e]: Enc::cb
    fn,       \* fn[e]: Enc::fn, Nil when no pipeline was set or nil was
    bufs,     \* bufs[e][i]: Enc::bufs
    work,     \* work[c]: the dispatches CmdBuf::work holds
    calls,    \* the kernel calls made, with the pointers passed
    crashed,  \* a null pointer was dereferenced
    commits   \* commits so far

vars == <<kernels, cb, fn, bufs, work, calls, crashed, commits>>

Indices == 0..MaxIndex

Init ==
    /\ kernels = [f \in Names |-> Unbound]
    /\ cb = [e \in Encoders |-> Unbound]
    /\ fn = [e \in Encoders |-> Nil]
    /\ bufs = [e \in Encoders |-> [i \in Indices |-> Unbound]]
    /\ work = [c \in CmdBufs |-> <<>>]
    /\ calls = <<>>
    /\ crashed = FALSE
    /\ commits = 0

-----------------------------------------------------------------------------
(* Running a dispatch.                                                      *)

BoundIn(d) == {i \in Indices : d.bufs[i] # Unbound}

\* Mutant: as many pointers as there are bindings.
CountBindings(d) ==
    LET count[n \in 0..MaxIndex + 1] ==
            IF n = 0 THEN 0 ELSE count[n-1] + IF n - 1 \in BoundIn(d) THEN 1 ELSE 0
    IN  count[MaxIndex + 1]

\* One more than the highest index bound, and never none.
PtrCount(d) ==
    IF BoundIn(d) = {} THEN 1
    ELSE 1 + CHOOSE i \in BoundIn(d) : \A j \in BoundIn(d) : j <= i

Ptrs(d) ==
    [i \in 0..PtrCount(d) - 1 |->
        IF i \in BoundIn(d) THEN d.bufs[i] ELSE Nil]

Registered(d) == d.fn # Nil /\ kernels[d.fn] # Unbound

\* A dispatch whose name has no kernel returns before it touches its bindings.
Runs(d) == Registered(d)

\* A binding of nil is dereferenced to find the buffer's data.
Crashes(d) == Runs(d) /\ \E i \in Indices : d.bufs[i] = Nil

\* The kernel calls that running the items makes, up to a crash.
CallsOf(items) ==
    LET after[n \in 0..Len(items)] ==
          IF n = 0 THEN <<>>
          ELSE IF Runs(items[n])
               THEN Append(after[n-1], [item |-> items[n], ptrs |-> Ptrs(items[n]),
                                        kernel |-> kernels[items[n].fn]])
               ELSE after[n-1]
    IN  after[Len(items)]

-----------------------------------------------------------------------------
(* The calls.                                                               *)

\* register_kernel: the latest registration of a name replaces the earlier.
register_kernel(f, k) ==
    /\ kernels' = [kernels EXCEPT ![f] = k]
    /\ UNCHANGED <<cb, fn, bufs, work, calls, crashed, commits>>

\* computeCommandEncoder
NewEncoder(e, c) ==
    /\ cb[e] = Unbound
    /\ cb' = [cb EXCEPT ![e] = c]
    /\ UNCHANGED <<kernels, fn, bufs, work, calls, crashed, commits>>

\* setComputePipelineState: with a pipeline for f, or nil
SetPipeline(e, f) ==
    /\ cb[e] # Unbound
    /\ fn' = [fn EXCEPT ![e] = f]
    /\ UNCHANGED <<kernels, cb, bufs, work, calls, crashed, commits>>

\* setBuffer:offset:atIndex:, which takes nil for a buffer
SetBuffer(e, i, b) ==
    /\ cb[e] # Unbound
    /\ bufs' = [bufs EXCEPT ![e][i] = b]
    /\ UNCHANGED <<kernels, cb, fn, work, calls, crashed, commits>>

\* dispatchThreads: and dispatchThreadgroups:
Dispatch(e) ==
    /\ cb[e] # Unbound
    /\ Len(work[cb[e]]) < MaxDispatches
    /\ work' = [work EXCEPT ![cb[e]] = Append(@, [fn |-> fn[e], bufs |-> bufs[e]])]
    /\ UNCHANGED <<kernels, cb, fn, bufs, calls, crashed, commits>>

\* Mutant: each dispatch of a commit is taken with the first one's bindings.
CommitFirstBindings(c) ==
    /\ commits < MaxCommits /\ ~crashed
    /\ crashed' = FALSE
    /\ calls' = calls \o CallsOf([i \in DOMAIN work[c] |->
                                    [fn |-> work[c][i].fn, bufs |-> work[c][1].bufs]])
    /\ commits' = commits + 1
    /\ UNCHANGED <<kernels, cb, fn, bufs, work>>

\* commit runs the dispatches in order; a crash ends the program.
Commit(c) ==
    /\ commits < MaxCommits /\ ~crashed
    /\ crashed' = \E n \in DOMAIN work[c] : Crashes(work[c][n])
    /\ IF crashed' THEN UNCHANGED calls ELSE calls' = calls \o CallsOf(work[c])
    /\ commits' = commits + 1
    /\ UNCHANGED <<kernels, cb, fn, bufs, work>>

Next ==
    /\ ~crashed
    /\ \/ \E f \in Names, k \in Kernels : register_kernel(f, k)
       \/ \E e \in Encoders :
             \/ \E c \in CmdBufs : NewEncoder(e, c)
             \/ \E f \in Names \cup {Nil} : SetPipeline(e, f)
             \/ \E i \in Indices, b \in Buffers \cup {Nil} : SetBuffer(e, i, b)
             \/ Dispatch(e)
       \/ \E c \in CmdBufs : Commit(c)

Spec == Init /\ [][Next]_vars

-----------------------------------------------------------------------------
(* Properties.                                                              *)

ComputeTypeOK ==
    /\ kernels \in [Names -> Kernels \cup {Unbound}]
    /\ cb \in [Encoders -> CmdBufs \cup {Unbound}]
    /\ fn \in [Encoders -> Names \cup {Nil}]
    /\ bufs \in [Encoders -> [Indices -> Buffers \cup {Nil, Unbound}]]
    /\ \A c \in CmdBufs : Len(work[c]) <= MaxDispatches
    /\ \A n \in DOMAIN calls : calls[n].kernel \in Kernels
    /\ crashed \in BOOLEAN /\ commits \in 0..MaxCommits

\* "buffers[i] is the bound buffer at index i (or null)" (emulated.hpp:48, 62): a
\* kernel is passed at least one pointer, reaches every binding, and finds null
\* where nothing was bound.
KernelSeesBindings ==
    \A n \in DOMAIN calls :
        LET ptrs == calls[n].ptrs
            bound == calls[n].item.bufs
        IN  /\ 0 \in DOMAIN ptrs
            /\ \A i \in Indices :
                  IF bound[i] \in Buffers
                  THEN i \in DOMAIN ptrs /\ ptrs[i] = bound[i]
                  ELSE i \in DOMAIN ptrs => ptrs[i] = Nil

\* A commit calls the kernels of its dispatches in the order they were encoded,
\* with the pipeline and bindings each was encoded with, and the kernel each name
\* has when the commit comes: one registered after the dispatch still runs, and a
\* dispatch whose name has none is passed over.
EncodedOrder ==
    [][ commits' > commits /\ ~crashed' =>
          \E c \in CmdBufs :
             LET run == {n \in DOMAIN work[c] : Registered(work[c][n])}
             IN  /\ Len(calls') = Len(calls) + Cardinality(run)
                 /\ \A n \in DOMAIN calls : calls'[n] = calls[n]
                 /\ \A n \in run :
                       LET call == calls'[Len(calls) + Cardinality({m \in run : m <= n})]
                       IN  call.item = work[c][n] /\ call.kernel = kernels[work[c][n].fn] ]_vars
=============================================================================
