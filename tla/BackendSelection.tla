-------------------------- MODULE BackendSelection --------------------------
(***************************************************************************)
(* Which GPU backend a build gets and how it is told (gpu/backend.hpp): the  *)
(* preprocessor's resolution of the backend macros, the one-shot notice of   *)
(* warn_backend_selection, and the switch that mutes it. Threads share the   *)
(* two flags and nothing orders their reads and writes: every step of a call *)
(* is a step of the model.                                                   *)
(***************************************************************************)
EXTENDS Naturals

CONSTANTS Threads,   \* the threads that call warn_backend_selection
          EmulatorBuilds  \* metal_available may be predefined off Apple

ASSUME EmulatorBuildsType == EmulatorBuilds \in BOOLEAN

VARIABLES
    build,     \* the macros of the build, as the compiler sees them
    env,       \* CHEATAH_GPU_SILENCE_BACKEND_WARNING is set
    emitted,   \* backend_warning_emitted()
    silenced,  \* backend_warning_silenced()
    pc,        \* pc[t]: where thread t is in warn_backend_selection
    printed,   \* notices printed
    answered,  \* some call has returned
    wasMuted,  \* the environment or a silence call has asked for quiet
    hushed,    \* the calls that began muted, with nobody speaking up since
    late       \* the calls that began when a notice was out

vars == <<build, env, emitted, silenced, pc, printed, answered, wasMuted, hushed, late>>

-----------------------------------------------------------------------------
(* The preprocessor.                                                        *)

Backends == {"vulkan", "metal"}

\* A build pins the choice with one macro, or with none.
Builds ==
    { b \in [apple    : BOOLEAN,
             pinned   : SUBSET Backends,
             metal    : {"inferred", "yes", "no"},
             noNotice : BOOLEAN] :
        /\ b.pinned # Backends
        /\ b.metal = "yes" /\ ~b.apple => EmulatorBuilds }

\* The platform's default backend when nothing is pinned.
preferred(b) == IF b.apple THEN "metal" ELSE "vulkan"
defined(b) == IF b.pinned = {} THEN {preferred(b)} ELSE b.pinned

metal_available(b) == IF b.metal = "inferred" THEN b.apple ELSE b.metal = "yes"
requested_backend(b) == IF "metal" \in defined(b) THEN "metal" ELSE "vulkan"

\* Mutant: a request for Metal stands wherever it is made.
never_switched(b) == FALSE

backend_was_switched(b) == "metal" \in defined(b) /\ ~metal_available(b)

corrected(b) ==
    IF backend_was_switched(b) THEN {"vulkan"} ELSE defined(b)

backend_is_suboptimal(b) ==
    "vulkan" \in corrected(b) /\ metal_available(b) /\ ~backend_was_switched(b)

active_backend(b) == IF "metal" \in corrected(b) THEN "metal" ELSE "vulkan"

\* The build has something to say and was not told to leave it out.
HasNotice(b) ==
    ~b.noNotice /\ (backend_was_switched(b) \/ backend_is_suboptimal(b))

-----------------------------------------------------------------------------
Init ==
    /\ build \in Builds
    /\ env \in BOOLEAN
    /\ emitted = FALSE /\ silenced = FALSE
    /\ pc = [t \in Threads |-> "out"]
    /\ printed = 0 /\ answered = FALSE
    /\ wasMuted = env
    /\ hushed = {} /\ late = {}

Goto(t, label) == pc' = [pc EXCEPT ![t] = label]

\* silence_backend_warning
Silence(t, silence) ==
    /\ pc[t] = "out"
    /\ silenced' = silence
    /\ wasMuted' = (wasMuted \/ silence)
    /\ hushed' = IF silence THEN hushed ELSE {}
    /\ UNCHANGED <<build, env, emitted, pc, printed, answered, late>>

\* warn_backend_selection, and its return with no notice.
Call(t) ==
    /\ pc[t] = "out"
    /\ IF HasNotice(build)
       THEN Goto(t, "emitted") /\ UNCHANGED answered
       ELSE answered' = TRUE /\ UNCHANGED pc
    /\ hushed' = IF silenced THEN hushed \cup {t} ELSE hushed \ {t}
    /\ late' = IF printed > 0 THEN late \cup {t} ELSE late \ {t}
    /\ UNCHANGED <<build, env, emitted, silenced, printed, wasMuted>>

Return(t) == Goto(t, "out") /\ answered' = TRUE

ReadEmitted(t) ==
    /\ pc[t] = "emitted"
    /\ IF emitted THEN Return(t) ELSE Goto(t, "silenced") /\ UNCHANGED answered
    /\ UNCHANGED <<build, env, emitted, silenced, printed, wasMuted, hushed, late>>

\* Mutant: the flag that mutes the notice is not read.
SkipSilenced(t) ==
    /\ pc[t] = "silenced"
    /\ Goto(t, "getenv") /\ UNCHANGED answered
    /\ UNCHANGED <<build, env, emitted, silenced, printed, wasMuted, hushed, late>>

ReadSilenced(t) ==
    /\ pc[t] = "silenced"
    /\ IF silenced THEN Return(t) ELSE Goto(t, "getenv") /\ UNCHANGED answered
    /\ UNCHANGED <<build, env, emitted, silenced, printed, wasMuted, hushed, late>>

GetEnv(t) ==
    /\ pc[t] = "getenv"
    /\ IF env
       THEN silenced' = TRUE /\ Return(t)
       ELSE Goto(t, "mark") /\ UNCHANGED <<silenced, answered>>
    /\ UNCHANGED <<build, env, emitted, printed, wasMuted, hushed, late>>

\* Mutant: the guard is left clear.
ForgetEmitted(t) ==
    /\ pc[t] = "mark"
    /\ Goto(t, "print")
    /\ UNCHANGED <<build, env, emitted, silenced, printed, answered, wasMuted, hushed, late>>

\* Mutant: the guard is set and the call returns at once.
MarkAndReturn(t) ==
    /\ pc[t] = "mark"
    /\ emitted' = TRUE
    /\ Return(t)
    /\ UNCHANGED <<build, env, silenced, printed, wasMuted, hushed, late>>

MarkEmitted(t) ==
    /\ pc[t] = "mark"
    /\ emitted' = TRUE
    /\ Goto(t, "print")
    /\ UNCHANGED <<build, env, silenced, printed, answered, wasMuted, hushed, late>>

\* The notice is printed and the call returns true.
PrintNotice(t) ==
    /\ pc[t] = "print"
    /\ printed < 2   \* bound: a second notice is one too many
    /\ printed' = printed + 1
    /\ Return(t)
    /\ UNCHANGED <<build, env, emitted, silenced, wasMuted, hushed, late>>

Next ==
    \E t \in Threads :
        \/ \E silence \in BOOLEAN : Silence(t, silence)
        \/ Call(t) \/ ReadEmitted(t) \/ ReadSilenced(t) \/ GetEnv(t)
        \/ MarkEmitted(t) \/ PrintNotice(t)

Spec == Init /\ [][Next]_vars

-----------------------------------------------------------------------------
(* Properties.                                                              *)

NoticeTypeOK ==
    /\ build \in Builds /\ env \in BOOLEAN
    /\ emitted \in BOOLEAN /\ silenced \in BOOLEAN
    /\ pc \in [Threads -> {"out", "emitted", "silenced", "getenv", "mark", "print"}]
    /\ printed \in 0..2 /\ answered \in BOOLEAN /\ wasMuted \in BOOLEAN
    /\ hushed \subseteq Threads /\ late \subseteq Threads

\* "A build that asks for a backend the platform can't run is SWITCHED to the one
\* it can" (backend.hpp:66-67), and the switch is recorded as one.
ActiveBackendRuns ==
    /\ active_backend(build) = "metal" => metal_available(build)
    /\ backend_was_switched(build) <=> active_backend(build) # requested_backend(build)

\* "printed at most once per process" (backend.hpp:182).
AtMostOnce == printed <= 1

\* What remains of it when calls overlap: a call that began when a notice was out
\* never prints another.
NoLaterNotice == \A t \in Threads : pc[t] = "print" => t \notin late

\* "Never silent by default" (backend.hpp:218): when a call has returned, none is
\* under way and nobody ever asked for quiet, the notice is out.
LoudByDefault ==
    HasNotice(build) /\ answered /\ ~wasMuted /\ (\A t \in Threads : pc[t] = "out")
        => printed > 0

\* "Once true, warn_backend_selection stays quiet" (backend.hpp:193): a call that
\* began muted prints nothing unless somebody unmutes before it returns, and
\* with the environment variable set nothing is ever printed.
MutedIsQuiet == \A t \in Threads : pc[t] = "print" => t \notin hushed /\ ~env
=============================================================================
