--------------------------- MODULE BackendProofs ----------------------------
(***************************************************************************)
(* What the notice of warn_backend_selection guarantees for any number of   *)
(* threads, and what it guarantees only to a single one.                     *)
(***************************************************************************)
EXTENDS BackendSelection, TLAPS

Labels == {"out", "emitted", "silenced", "getenv", "mark", "print"}

\* The flags are Boolean, and a call that began muted finds the flag still set.
MutedInv ==
    /\ pc \in [Threads -> Labels] /\ silenced \in BOOLEAN
    /\ hushed # {} => silenced
    /\ \A t \in Threads : pc[t] \in {"getenv", "mark", "print"} => t \notin hushed
    /\ \A t \in Threads : pc[t] \in {"mark", "print"} => ~env

\* Quiet was asked for whenever a flag says so, and the guard is set only by a
\* call that has printed or is about to.
LoudInv ==
    /\ pc \in [Threads -> Labels] /\ printed \in Nat
    /\ silenced => wasMuted
    /\ env => wasMuted
    /\ emitted => printed > 0 \/ \E t \in Threads : pc[t] = "print"
    /\ HasNotice(build) /\ answered /\ ~wasMuted =>
          printed > 0 \/ \E t \in Threads : pc[t] = "print"

\* The guard is set before a notice is out, and a call that began after that stops
\* at the guard.
LateInv ==
    /\ pc \in [Threads -> Labels] /\ printed \in Nat
    /\ printed > 0 \/ late # {} => emitted
    /\ \A t \in Threads : pc[t] = "print" => emitted
    /\ \A t \in Threads : pc[t] \notin {"out", "emitted"} => t \notin late

\* The thread past the first check is the only one, and has found the guard clear.
OnceInv ==
    /\ pc \in [Threads -> Labels] /\ printed \in Nat
    /\ printed <= 1
    /\ ~emitted => printed = 0
    /\ \A t \in Threads : pc[t] \in {"silenced", "getenv", "mark"} => ~emitted
    /\ \A t \in Threads : pc[t] = "print" => emitted /\ printed = 0

\* No call that began muted reaches the print, with any number of threads.
THEOREM Muted == Spec => []MutedIsQuiet
<1>1. Init => MutedInv  BY DEF Init, MutedInv, Labels
<1>2. MutedInv /\ [Next]_vars => MutedInv'
  <2> SUFFICES ASSUME MutedInv, [Next]_vars  PROVE MutedInv'
    OBVIOUS
  <2> USE DEF MutedInv, Labels
  <2>1. ASSUME NEW t \in Threads, NEW s \in BOOLEAN, Silence(t, s)  PROVE MutedInv'
    BY <2>1 DEF Silence
  <2>2. ASSUME NEW t \in Threads, Call(t)  PROVE MutedInv'
    BY <2>2 DEF Call, Goto
  <2>3. ASSUME NEW t \in Threads, ReadEmitted(t)  PROVE MutedInv'
    BY <2>3 DEF ReadEmitted, Goto, Return
  <2>4. ASSUME NEW t \in Threads, ReadSilenced(t)  PROVE MutedInv'
    BY <2>4 DEF ReadSilenced, Goto, Return
  <2>5. ASSUME NEW t \in Threads, GetEnv(t)  PROVE MutedInv'
    BY <2>5 DEF GetEnv, Goto, Return
  <2>6. ASSUME NEW t \in Threads, MarkEmitted(t) \/ PrintNotice(t)  PROVE MutedInv'
    BY <2>6 DEF MarkEmitted, PrintNotice, Goto, Return
  <2>7. CASE UNCHANGED vars  BY <2>7 DEF vars
  <2> QED  BY <2>1, <2>2, <2>3, <2>4, <2>5, <2>6, <2>7 DEF Next
<1>3. MutedInv => MutedIsQuiet  BY DEF MutedInv, MutedIsQuiet
<1> QED  BY <1>1, <1>2, <1>3, PTL DEF Spec

\* An unmuted process hears of a poor selection, with any number of threads.
THEOREM Loud == Spec => []LoudByDefault
<1>1. Init => LoudInv  BY DEF Init, LoudInv, Labels
<1>2. LoudInv /\ [Next]_vars => LoudInv'
  <2> SUFFICES ASSUME LoudInv, [Next]_vars  PROVE LoudInv'
    OBVIOUS
  <2> USE DEF LoudInv, Labels
  <2>1. ASSUME NEW t \in Threads, NEW s \in BOOLEAN, Silence(t, s)  PROVE LoudInv'
    BY <2>1 DEF Silence
  <2>2. ASSUME NEW t \in Threads, Call(t)  PROVE LoudInv'
    BY <2>2 DEF Call, Goto
  <2>3. ASSUME NEW t \in Threads, ReadEmitted(t)  PROVE LoudInv'
    BY <2>3 DEF ReadEmitted, Goto, Return
  <2>4. ASSUME NEW t \in Threads, ReadSilenced(t)  PROVE LoudInv'
    BY <2>4 DEF ReadSilenced, Goto, Return
  <2>5. ASSUME NEW t \in Threads, GetEnv(t)  PROVE LoudInv'
    BY <2>5 DEF GetEnv, Goto, Return
  <2>6. ASSUME NEW t \in Threads, MarkEmitted(t)  PROVE LoudInv'
    BY <2>6 DEF MarkEmitted, Goto
  <2>7. ASSUME NEW t \in Threads, PrintNotice(t)  PROVE LoudInv'
    BY <2>7 DEF PrintNotice, Goto, Return
  <2>8. CASE UNCHANGED vars  BY <2>8 DEF vars
  <2> QED  BY <2>1, <2>2, <2>3, <2>4, <2>5, <2>6, <2>7, <2>8 DEF Next
<1>3. LoudInv => LoudByDefault  BY DEF LoudInv, LoudByDefault
<1> QED  BY <1>1, <1>2, <1>3, PTL DEF Spec

\* No call that began when a notice was out prints, with any number of threads.
THEOREM NoneLater == Spec => []NoLaterNotice
<1>1. Init => LateInv  BY DEF Init, LateInv, Labels
<1>2. LateInv /\ [Next]_vars => LateInv'
  <2> SUFFICES ASSUME LateInv, [Next]_vars  PROVE LateInv'
    OBVIOUS
  <2> USE DEF LateInv, Labels
  <2>1. ASSUME NEW t \in Threads, NEW s \in BOOLEAN, Silence(t, s)  PROVE LateInv'
    BY <2>1 DEF Silence
  <2>2. ASSUME NEW t \in Threads, Call(t)  PROVE LateInv'
    BY <2>2 DEF Call, Goto
  <2>3. ASSUME NEW t \in Threads, ReadEmitted(t)  PROVE LateInv'
    BY <2>3 DEF ReadEmitted, Goto, Return
  <2>4. ASSUME NEW t \in Threads, ReadSilenced(t) \/ GetEnv(t)  PROVE LateInv'
    BY <2>4 DEF ReadSilenced, GetEnv, Goto, Return
  <2>5. ASSUME NEW t \in Threads, MarkEmitted(t)  PROVE LateInv'
    BY <2>5 DEF MarkEmitted, Goto
  <2>6. ASSUME NEW t \in Threads, PrintNotice(t)  PROVE LateInv'
    BY <2>6 DEF PrintNotice, Goto, Return
  <2>7. CASE UNCHANGED vars  BY <2>7 DEF vars
  <2> QED  BY <2>1, <2>2, <2>3, <2>4, <2>5, <2>6, <2>7 DEF Next
<1>3. LateInv => NoLaterNotice  BY DEF LateInv, NoLaterNotice
<1> QED  BY <1>1, <1>2, <1>3, PTL DEF Spec

\* The notice appears at most once in a process whose calls are all of one thread.
THEOREM OnceForOneThread ==
  ASSUME \A s, t \in Threads : s = t
  PROVE  Spec => []AtMostOnce
<1>1. Init => OnceInv  BY DEF Init, OnceInv, Labels
<1>2. OnceInv /\ [Next]_vars => OnceInv'
  <2> SUFFICES ASSUME OnceInv, [Next]_vars  PROVE OnceInv'
    OBVIOUS
  <2> USE DEF OnceInv, Labels
  <2>1. ASSUME NEW t \in Threads, NEW s \in BOOLEAN, Silence(t, s)  PROVE OnceInv'
    BY <2>1 DEF Silence
  <2>2. ASSUME NEW t \in Threads, Call(t)  PROVE OnceInv'
    BY <2>2 DEF Call, Goto
  <2>3. ASSUME NEW t \in Threads, ReadEmitted(t)  PROVE OnceInv'
    BY <2>3 DEF ReadEmitted, Goto, Return
  <2>4. ASSUME NEW t \in Threads, ReadSilenced(t) \/ GetEnv(t)  PROVE OnceInv'
    BY <2>4 DEF ReadSilenced, GetEnv, Goto, Return
  <2>5. ASSUME NEW t \in Threads, MarkEmitted(t)  PROVE OnceInv'
    BY <2>5 DEF MarkEmitted, Goto
  <2>6. ASSUME NEW t \in Threads, PrintNotice(t)  PROVE OnceInv'
    BY <2>6 DEF PrintNotice, Goto, Return
  <2>7. CASE UNCHANGED vars  BY <2>7 DEF vars
  <2> QED  BY <2>1, <2>2, <2>3, <2>4, <2>5, <2>6, <2>7 DEF Next
<1>3. OnceInv => AtMostOnce  BY DEF OnceInv, AtMostOnce
<1> QED  BY <1>1, <1>2, <1>3, PTL DEF Spec

\* The two halves of NoticeTypeOK: what a thread does, and the flags.
ControlType ==
    /\ pc \in [Threads -> Labels]
    /\ printed \in 0..2
    /\ hushed \subseteq Threads /\ late \subseteq Threads

FlagType ==
    /\ build \in Builds /\ env \in BOOLEAN
    /\ emitted \in BOOLEAN /\ silenced \in BOOLEAN
    /\ answered \in BOOLEAN /\ wasMuted \in BOOLEAN

\* The flags keep their types, with any number of threads: a call stops at one of the
\* steps of warn_backend_selection, and only calls are counted as muted or late.
THEOREM NoticeTypes == Spec => []NoticeTypeOK
<1>1. Init => ControlType  BY DEF Init, ControlType, Labels
<1>2. Init => FlagType  BY Zenon DEF Init, FlagType
<1>3. ControlType /\ [Next]_vars => ControlType'
  <2> SUFFICES ASSUME ControlType, [Next]_vars  PROVE ControlType'
    OBVIOUS
  <2> USE DEF ControlType, Labels
  <2>1. ASSUME NEW t \in Threads, NEW s \in BOOLEAN, Silence(t, s)  PROVE ControlType'
    BY <2>1 DEF Silence
  <2>2. ASSUME NEW t \in Threads, Call(t)  PROVE ControlType'
    BY <2>2 DEF Call, Goto
  <2>3. ASSUME NEW t \in Threads, ReadEmitted(t)  PROVE ControlType'
    BY <2>3 DEF ReadEmitted, Goto, Return
  <2>4. ASSUME NEW t \in Threads, ReadSilenced(t)  PROVE ControlType'
    BY <2>4 DEF ReadSilenced, Goto, Return
  <2>5. ASSUME NEW t \in Threads, GetEnv(t)  PROVE ControlType'
    BY <2>5 DEF GetEnv, Goto, Return
  <2>6. ASSUME NEW t \in Threads, MarkEmitted(t) \/ PrintNotice(t)  PROVE ControlType'
    BY <2>6 DEF MarkEmitted, PrintNotice, Goto, Return
  <2>7. CASE UNCHANGED vars  BY <2>7 DEF vars
  <2> QED  BY <2>1, <2>2, <2>3, <2>4, <2>5, <2>6, <2>7 DEF Next
<1>4. FlagType /\ [Next]_vars => FlagType'
  <2> SUFFICES ASSUME FlagType, [Next]_vars  PROVE FlagType'
    OBVIOUS
  <2> USE DEF FlagType
  <2>1. ASSUME NEW t \in Threads, NEW s \in BOOLEAN, Silence(t, s)  PROVE FlagType'
    BY <2>1, Zenon DEF Silence
  <2>2. ASSUME NEW t \in Threads, Call(t)  PROVE FlagType'
    BY <2>2, Zenon DEF Call
  <2>3. ASSUME NEW t \in Threads, ReadEmitted(t)  PROVE FlagType'
    BY <2>3, Zenon DEF ReadEmitted, Return
  <2>4. ASSUME NEW t \in Threads, ReadSilenced(t)  PROVE FlagType'
    BY <2>4, Zenon DEF ReadSilenced, Return
  <2>5. ASSUME NEW t \in Threads, GetEnv(t)  PROVE FlagType'
    BY <2>5, Zenon DEF GetEnv, Return
  <2>6. ASSUME NEW t \in Threads, MarkEmitted(t)  PROVE FlagType'
    BY <2>6, Zenon DEF MarkEmitted
  <2>7. ASSUME NEW t \in Threads, PrintNotice(t)  PROVE FlagType'
    BY <2>7, Zenon DEF PrintNotice, Return
  <2>8. CASE UNCHANGED vars  BY <2>8, Zenon DEF vars
  <2> QED  BY <2>1, <2>2, <2>3, <2>4, <2>5, <2>6, <2>7, <2>8, Zenon DEF Next
<1>5. ControlType /\ FlagType => NoticeTypeOK
  BY DEF ControlType, FlagType, NoticeTypeOK, Labels
<1> QED  BY <1>1, <1>2, <1>3, <1>4, <1>5, PTL DEF Spec

\* Whatever macros a build defines, it gets a backend that runs on its platform, and
\* hears of a switch exactly when it gets another one than it asked for.
THEOREM BackendRuns == Spec => []ActiveBackendRuns
<1>1. build \in Builds => ActiveBackendRuns
  <2> SUFFICES ASSUME build \in Builds  PROVE ActiveBackendRuns
    OBVIOUS
  <2>1. "vulkan" # "metal"  OBVIOUS
  <2>2. CASE backend_was_switched(build)
    BY <2>1, <2>2 DEF ActiveBackendRuns, active_backend, corrected, backend_was_switched,
                      requested_backend
  <2>3. CASE ~ backend_was_switched(build)
    BY <2>1, <2>3 DEF ActiveBackendRuns, active_backend, corrected, backend_was_switched,
                      requested_backend
  <2> QED  BY <2>2, <2>3
<1>2. NoticeTypeOK => build \in Builds  BY DEF NoticeTypeOK
<1> QED  BY <1>1, <1>2, NoticeTypes, PTL
=============================================================================
