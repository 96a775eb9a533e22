----------------------------- MODULE Ownership ------------------------------
(***************************************************************************)
(* What reference counting promises, without counts, scopes or destructors: *)
(* a thing exists exactly as long as somebody holds a reference to it, and  *)
(* one that is gone stays gone.                                             *)
(***************************************************************************)
EXTENDS Naturals, FiniteSets

CONSTANT Things

VARIABLES live,   \* the things that exist
          ever,   \* the things that have existed
          refs    \* refs[t]: the references held to t

ownershipVars == <<live, ever, refs>>

Init ==
    /\ live = {}
    /\ ever = {}
    /\ refs = [t \in Things |-> 0]

\* One call creates at most one thing and moves any references.
Call ==
    /\ refs' \in [Things -> Nat]
    /\ live' = {t \in Things : refs'[t] > 0}
    /\ (live' \ live) \cap ever = {}
    /\ \A s, t \in live' \ live : s = t
    /\ ever' = ever \cup live'

Spec == Init /\ [][Call]_ownershipVars
=============================================================================
