---------------------------- MODULE RenderTargets ---------------------------
(***************************************************************************)
(* Where the draws of an encoder land. The emulated device queues the       *)
(* clears of a pass when an encoder is created on it, but each draw looks    *)
(* the attachments up again. This module records what a pass was when its    *)
(* encoder was created; the calls are those of RenderQueue.                  *)
(***************************************************************************)
EXTENDS RenderQueue

VARIABLE taken  \* history: taken[e][a]: the texture of an attachment when e was created

targetVars == <<vars, taken>>

TargetsInit == Init /\ taken = [e \in Encoders |-> [a \in Attachments |-> None]]

TargetsNext ==
    /\ Next
    /\ taken' = [e \in Encoders |->
                    IF e \in open' \ open THEN [a \in Attachments |-> Target(pass'[e], a)]
                    ELSE taken[e]]

TargetsSpec == TargetsInit /\ [][TargetsNext]_targetVars

\* A pass is "a snapshot, as real Metal takes" (emulated_metal.cpp:515-516), and
\* the emulator "lets the SAME metal-cpp code compile AND run" (line 6): a draw
\* lands on the textures the pass named when its encoder was created, those the
\* clears were queued for among them, whatever the pass is given later.
DrawsOnSnapshot ==
    \A c \in CmdBufs : \A i \in DOMAIN work[c] :
        LET w == work[c][i]
        IN  w.kind = "draw" /\ w.vbuf # None /\ taken[w.by][0] # None =>
              Written(w) = {taken[w.by][0], taken[w.by][Depth]} \ {None}
=============================================================================
