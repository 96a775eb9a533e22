---------------------------- MODULE WindowFrames ----------------------------
(***************************************************************************)
(* The window harness: tests/window/window.cpp opens a window with a       *)
(* swapchain, draws frames and closes it again, for the loop of            *)
(* tests/window/test_window.purr. One command buffer, one fence and two    *)
(* semaphores serve every frame:                                           *)
(*                                                                         *)
(*   wait for the fence; acquire an image (will signal `acquired`); reset  *)
(*   the fence, record; submit (waits for `acquired`, signals `rendered`   *)
(*   and the fence); present (waits for `rendered`).                       *)
(*                                                                         *)
(* The GPU, its queue and the presentation engine are external: the GPU    *)
(* does what is queued, waiting for a semaphore at the stage the submit    *)
(* names, and the engine shows images first in, first out, giving one back *)
(* whenever it holds the number of images the surface needs. Whether a     *)
(* present is an operation of the queue, executed in its order, depends on *)
(* the surface: the rules of presentation do not promise it.               *)
(***************************************************************************)
EXTENDS Naturals, Sequences, SequencesExt

CONSTANTS Surfaces,  \* <<minImageCount, maxImageCount (0: no limit), presents keep the queue's order>>
          Frames     \* `frames` of test_window.purr

ASSUME FramesAssumption == Frames \in Nat

ASSUME SurfacesAssumption ==
    /\ Surfaces \subseteq (Nat \ {0}) \X Nat \X BOOLEAN
    /\ \A s \in Surfaces : s[2] = 0 \/ s[1] <= s[2]

VARIABLES pc,           \* where the program is
          caps,         \* the surface: its capabilities and the order of its presents
          made,         \* the objects of the Window that exist
          frame,        \* frames drawn so far
          clicked,      \* the window's close event: "no", "pending", "polled" (glfwWindowShouldClose)
          swapchain,    \* "usable" or "outdated"
          fence,        \* `inflight`: signaled
          cmd,          \* what is recorded in the command buffer
          acquired,     \* the semaphore: <<"clear", 0>>, <<"pending", i>> once image i was acquired, <<"set", 0>>
          rendered,     \* the semaphore: "clear" or "set"
          queue,        \* what was submitted or presented and is not done
          screen,       \* presented images the engine has, the one on display first
          reading,      \* images the engine gave back while it may still be reading them
          content,      \* the frame each image holds; 0: none
          dropped       \* a submit failed

program == <<made, frame, clicked>>
sync == <<fence, acquired, rendered>>
engine == <<screen, reading, content>>
vars == <<pc, caps, program, swapchain, sync, cmd, queue, engine, dropped>>

\* What open_impl makes, in its order. The shader module is gone once the pipeline is made.
OpenOrder == <<"window", "instance", "surface", "device", "swapchain", "views", "shader", "layout",
               "pipeline", "pool", "acquired", "rendered", "inflight">>

\* What close_impl destroys, in its order.
CloseOrder == <<"inflight", "acquired", "rendered", "pool", "pipeline", "layout", "views",
                "swapchain", "device", "surface", "instance", "window">>

\* What an object is made from and must not outlive.
Parents(o) == CASE o \in {"window", "instance"} -> {}
                [] o = "surface" -> {"instance", "window"}
                [] o = "device" -> {"instance"}
                [] o = "swapchain" -> {"device", "surface"}
                [] o = "views" -> {"device", "swapchain"}
                [] OTHER -> {"device"}

\* Mutant: the first draw waits for a fence nobody signals.
FenceUnsignaled == FALSE

\* The fence is made with VK_FENCE_CREATE_SIGNALED_BIT.
FenceSignaled == TRUE

\* Mutant: the maximum of the surface is not looked at.
img_countUnlimited(c) == c[1] + 1

\* How many images open_impl asks a surface for, and gets.
img_count(c) == IF c[2] # 0 /\ c[1] + 1 > c[2] THEN c[2] ELSE c[1] + 1

Images == 1 .. img_count(caps)

QueuePresents == caps[3]

Presents == {op \in Range(queue) : op.does = "present"}

Renders == {op \in Range(queue) : op.does = "render"}

Init ==
    /\ pc = <<"open", 1>>
    /\ caps \in Surfaces
    /\ made = {}
    /\ frame = 0
    /\ clicked = "no"
    /\ swapchain = "usable"
    /\ fence = FenceSignaled
    /\ cmd = [image |-> 0, frame |-> 0]
    /\ acquired = <<"clear", 0>>
    /\ rendered = "clear"
    /\ queue = <<>>
    /\ screen = <<>>
    /\ reading = {}
    /\ content = [i \in Images |-> 0]
    /\ dropped = FALSE

At(step) == pc[1] = step

Go(step) == pc' = <<step, 1>>

OnlyGo(step) ==
    /\ Go(step)
    /\ UNCHANGED <<caps, program, swapchain, sync, cmd, queue, engine, dropped>>

-----------------------------------------------------------------------------
(* window.open *)

OpenStep ==
    /\ At("open")
    /\ LET o == OpenOrder[pc[2]]
       IN  made' = (made \cup {o}) \ {x \in {"shader"} : o = "pipeline"}
    /\ IF pc[2] = Len(OpenOrder) THEN Go("loop") ELSE pc' = <<"open", pc[2] + 1>>
    /\ UNCHANGED <<caps, frame, clicked, swapchain, sync, cmd, queue, engine, dropped>>

\* A step fails and open returns 0: what it made so far is lost, and the program ends.
OpenFails == At("open") /\ OnlyGo("failed")

-----------------------------------------------------------------------------
(* window.draw, called while it returned 1 and fewer than `frames` were drawn *)

\* A close event ends the loop if an earlier call polled it; this call polls.
DrawBegin ==
    /\ At("loop")
    /\ frame < Frames
    /\ clicked # "polled"
    /\ clicked' = IF clicked = "pending" THEN "polled" ELSE clicked
    /\ frame' = frame + 1
    /\ Go("wait")
    /\ UNCHANGED <<caps, made, swapchain, sync, cmd, queue, engine, dropped>>

\* Mutant: nobody waits for the fence.
DrawWaitSkipped == At("wait") /\ OnlyGo("acquire")

DrawWait ==
    /\ At("wait")
    /\ fence
    /\ OnlyGo("acquire")

\* An image the engine does not have. Its index goes into the commands recorded next.
DrawAcquire ==
    /\ At("acquire")
    /\ swapchain = "usable"
    /\ \E i \in Images \ {p.image : p \in Presents \cup Range(screen)} :
        /\ pc' = <<"record", i>>
        /\ acquired' = <<"pending", i>>
    /\ UNCHANGED <<caps, program, swapchain, fence, rendered, cmd, queue, engine, dropped>>

\* Mutant: the fence is reset before the early return.
DrawOutdatedResets ==
    /\ At("acquire")
    /\ swapchain = "outdated"
    /\ fence' = FALSE
    /\ Go("loop")
    /\ UNCHANGED <<caps, program, swapchain, acquired, rendered, cmd, queue, engine, dropped>>

\* An outdated swapchain: draw returns 1 and the loop goes on.
DrawOutdated ==
    /\ At("acquire")
    /\ swapchain = "outdated"
    /\ OnlyGo("loop")

\* Any other failure: draw returns 0 and the program closes the window.
DrawFails == At("acquire") /\ OnlyGo("idle")

DrawRecord ==
    /\ At("record")
    /\ fence' = FALSE
    /\ cmd' = [image |-> pc[2], frame |-> frame]
    /\ Go("submit")
    /\ UNCHANGED <<caps, program, swapchain, acquired, rendered, queue, engine, dropped>>

Submitted(awaits, signals) ==
    [does |-> "render", image |-> cmd.image, awaits |-> awaits, signals |-> signals, stage |-> "queued"]

\* Mutant: the GPU does not wait for the image.
RenderOpEager == Submitted("none", TRUE)

\* Mutant: the semaphore is not signaled.
RenderOpSilent == Submitted("acquired", FALSE)

\* What vkQueueSubmit gets: it waits for `acquired` where colours are written and signals `rendered`.
RenderOp == Submitted("acquired", TRUE)

\* The result of the submit is not looked at.
DrawSubmit ==
    /\ At("submit")
    /\ \/ queue' = Append(queue, RenderOp) /\ UNCHANGED dropped
       \/ dropped' = TRUE /\ UNCHANGED queue
    /\ Go("present")
    /\ UNCHANGED <<caps, program, swapchain, sync, cmd, engine>>

\* Mutant: the image is presented before it is drawn.
PresentOpEager == [does |-> "present", image |-> cmd.image, frame |-> cmd.frame, awaits |-> "none"]

\* What vkQueuePresentKHR gets: it waits for `rendered`.
PresentOp == [does |-> "present", image |-> cmd.image, frame |-> cmd.frame, awaits |-> "rendered"]

\* Nor is that of the present, and draw returns 1.
DrawPresent ==
    /\ At("present")
    /\ queue' = Append(queue, PresentOp)
    /\ Go("loop")
    /\ UNCHANGED <<caps, program, swapchain, sync, cmd, engine, dropped>>

-----------------------------------------------------------------------------
(* window.close, once the loop is over *)

LoopEnds ==
    /\ At("loop")
    /\ frame = Frames \/ clicked = "polled"
    /\ OnlyGo("idle")

\* Mutant: nobody waits for the device.
CloseHurries == At("idle") /\ OnlyGo("close")

\* vkDeviceWaitIdle: the work of the queue is done, the presents when they are part of it.
CloseWaits ==
    /\ At("idle")
    /\ Renders = {}
    /\ QueuePresents => Presents = {}
    /\ OnlyGo("close")

CloseStep ==
    /\ At("close")
    /\ made' = made \ {CloseOrder[pc[2]]}
    /\ IF pc[2] = Len(CloseOrder) THEN Go("closed") ELSE pc' = <<"close", pc[2] + 1>>
    /\ UNCHANGED <<caps, frame, clicked, swapchain, sync, cmd, queue, engine, dropped>>

-----------------------------------------------------------------------------
(* The user, the GPU and the presentation engine *)

UserCloses ==
    /\ "window" \in made
    /\ clicked = "no"
    /\ clicked' = "pending"
    /\ UNCHANGED <<pc, caps, made, frame, swapchain, sync, cmd, queue, engine, dropped>>

Outdates ==
    /\ "swapchain" \in made
    /\ swapchain = "usable"
    /\ swapchain' = "outdated"
    /\ UNCHANGED <<pc, caps, program, sync, cmd, queue, engine, dropped>>

\* The engine no longer reads the image that was acquired.
ImageReady ==
    /\ acquired[1] = "pending"
    /\ acquired' = <<"set", 0>>
    /\ reading' = reading \ {acquired[2]}
    /\ UNCHANGED <<pc, caps, program, swapchain, fence, rendered, cmd, queue, screen, content, dropped>>

\* The first barrier, from the top of the pipe, is not behind the semaphore: the image leaves the
\* layout the engine had it in, and what it held is gone.
RenderBegins ==
    \E i \in DOMAIN queue :
        /\ queue[i].does = "render"
        /\ queue[i].stage = "queued"
        /\ queue' = [queue EXCEPT ![i].stage = "begun"]
        /\ content' = [content EXCEPT ![cmd.image] = 0]
        /\ UNCHANGED <<pc, caps, program, swapchain, sync, cmd, screen, reading, dropped>>

\* Colours are written once the semaphore is set.
RenderDraws ==
    \E i \in DOMAIN queue :
        /\ queue[i].does = "render"
        /\ queue[i].stage = "begun"
        /\ queue[i].awaits = "acquired" => acquired[1] = "set"
        /\ acquired' = IF queue[i].awaits = "acquired" THEN <<"clear", 0>> ELSE acquired
        /\ queue' = [queue EXCEPT ![i].stage = "drawing"]
        /\ UNCHANGED <<pc, caps, program, swapchain, fence, rendered, cmd, engine, dropped>>

\* Work would be done before a present that was queued earlier, where presents keep the order.
Overtakes(i) == QueuePresents /\ \E j \in 1 .. i - 1 : queue[j].does = "present"

\* The commands run as they are recorded now.
RenderEnds ==
    \E i \in DOMAIN queue :
        /\ queue[i].does = "render"
        /\ queue[i].stage = "drawing"
        /\ ~ Overtakes(i)
        /\ content' = [content EXCEPT ![cmd.image] = cmd.frame]
        /\ fence' = TRUE
        /\ rendered' = IF queue[i].signals THEN "set" ELSE rendered
        /\ queue' = RemoveAt(queue, i)
        /\ UNCHANGED <<pc, caps, program, swapchain, acquired, cmd, screen, reading, dropped>>

\* An image presented to an outdated swapchain is given back unseen.
PresentStarts ==
    \E i \in DOMAIN queue :
        /\ queue[i].does = "present"
        /\ queue[i].awaits = "rendered" => rendered = "set"
        /\ ~ Overtakes(i)
        /\ rendered' = IF queue[i].awaits = "rendered" THEN "clear" ELSE rendered
        /\ screen' = IF swapchain = "usable"
                     THEN Append(screen, [image |-> queue[i].image, frame |-> queue[i].frame])
                     ELSE screen
        /\ queue' = RemoveAt(queue, i)
        /\ UNCHANGED <<pc, caps, program, swapchain, fence, acquired, cmd, reading, content, dropped>>

\* The engine gives an image back when it has as many as the surface needs.
Refresh ==
    /\ Len(screen) >= caps[1]
    /\ screen' = Tail(screen)
    /\ reading' = reading \cup {Head(screen).image}
    /\ UNCHANGED <<pc, caps, program, swapchain, sync, cmd, queue, content, dropped>>

-----------------------------------------------------------------------------
(* The specification *)

\* The program: one thread, which takes its next step unless a wait holds it.
Proceeds ==
    \/ OpenStep
    \/ DrawBegin \/ DrawWait \/ DrawAcquire \/ DrawOutdated \/ DrawRecord \/ DrawSubmit \/ DrawPresent
    \/ LoopEnds \/ CloseWaits \/ CloseStep

Program == Proceeds \/ OpenFails \/ DrawFails

\* The user and the surface may do their part or not.
Surroundings == UserCloses \/ Outdates

Engine == ImageReady \/ RenderBegins \/ RenderDraws \/ RenderEnds \/ PresentStarts \/ Refresh

Next == Program \/ Surroundings \/ Engine

\* The thread runs, the GPU and the engine make progress; nobody has to click, and nothing has to
\* fail: an acquire that finds no image waits (its timeout is UINT64_MAX).
Fairness ==
    /\ WF_vars(Proceeds)
    /\ WF_vars(ImageReady)
    /\ WF_vars(RenderBegins)
    /\ WF_vars(RenderDraws)
    /\ WF_vars(RenderEnds)
    /\ WF_vars(PresentStarts)
    /\ WF_vars(Refresh)

Spec == Init /\ [][Next]_vars /\ Fairness

-----------------------------------------------------------------------------
(* Properties *)

\* Types, and no more images than the surface allows (window.cpp:150-151).
TypeOK ==
    /\ caps \in Surfaces
    /\ caps[2] # 0 => img_count(caps) <= caps[2]
    /\ made \subseteq Range(OpenOrder)
    /\ frame \in 0 .. Frames
    /\ clicked \in {"no", "pending", "polled"}
    /\ swapchain \in {"usable", "outdated"}
    /\ fence \in BOOLEAN
    /\ rendered \in {"clear", "set"}
    /\ acquired \in {<<"clear", 0>>, <<"set", 0>>} \cup ({"pending"} \X Images)
    /\ cmd \in [image : Images \cup {0}, frame : 0 .. Frames]
    /\ \A op \in Presents : op.image \in Images
    /\ \A s \in Range(screen) : s.image \in Images
    /\ reading \subseteq Images
    /\ content \in [Images -> 0 .. Frames]
    /\ dropped \in BOOLEAN

\* The wait at the start of a draw ends: whenever the fence is reset outside the few lines of
\* draw_impl up to the submit, work that will signal it is in the queue, whichever way the last call
\* returned. A submit that failed is the exception the code leaves open (window.cpp:232, 236-238, 270).
FenceWillSignal ==
    ~ fence /\ pc[1] \notin {"submit", "open"} => Renders # {} \/ dropped

\* Where presents keep the queue's order, what the engine has is the frame that was presented,
\* complete and not drawn over, one after another in the order they were drawn (window.cpp:238-274).
ShowsDrawn ==
    QueuePresents =>
        /\ \A s \in Range(screen) : content[s.image] = s.frame
        /\ \A i, j \in DOMAIN screen : i < j => screen[i].frame < screen[j].frame

\* Where presents keep the queue's order, the GPU writes no colour into an image the engine shows or
\* still reads (window.cpp:265-267). The layout transition is not held back so (242-244).
NotWhileRead ==
    QueuePresents =>
        \A op \in Renders :
            op.stage = "drawing" => /\ op.image \notin reading
                                    /\ op.image \notin {s.image : s \in Range(screen)}

\* Nothing is destroyed while queued work uses it or what was made from it still exists, and a
\* window that was opened leaves nothing behind (window.cpp:279-292). A present is work of the queue
\* where it keeps the queue's order; elsewhere vkDeviceWaitIdle does not wait for it.
NothingInUseDestroyed ==
    /\ Renders # {} \/ (QueuePresents /\ Presents # {}) =>
           {"inflight", "acquired", "rendered", "pool", "pipeline", "views", "swapchain"} \subseteq made
    /\ \A o \in made : Parents(o) \subseteq made
    /\ At("closed") => made = {}

\* The one command buffer is recorded again only when the GPU is done with it (window.cpp:232, 239).
CommandBufferIdle == [][cmd' # cmd => Renders = {}]_vars

\* Where presents keep the queue's order, the program of test_window.purr ends, unless a submit
\* failed: no draw and no close waits forever, with an outdated swapchain or without, as few images
\* as the surface may have (window.cpp:150-151, 232-237, 279).
ProgramEnds == QueuePresents => <>(At("failed") \/ At("closed") \/ dropped)

\* And a frame that was presented leaves the queue for the engine, unless a submit failed.
PresentsArrive ==
    \A f \in 1 .. Frames :
        (QueuePresents /\ \E op \in Presents : op.frame = f)
            ~> ((\A op \in Presents : op.frame # f) \/ dropped)

=============================================================================
