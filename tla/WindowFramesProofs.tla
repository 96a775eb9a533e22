------------------------- MODULE WindowFramesProofs -------------------------
(***************************************************************************)
(* The window harness uses its fence and its command buffer in turn for    *)
(* every surface and any number of frames, and its two semaphores and its  *)
(* images where presents keep the queue's order.                           *)
(***************************************************************************)
EXTENDS WindowFrames, SequenceTheorems, TLAPS

Steps == {"open", "loop", "wait", "acquire", "record", "submit", "present", "idle", "close",
          "closed", "failed"}

Stages == {"queued", "begun", "drawing"}

RenderOps ==
    [does : {"render"}, image : Images, awaits : {"acquired"}, signals : {TRUE}, stage : Stages]

PresentOps == [does : {"present"}, image : Images, frame : 0 .. Frames, awaits : {"rendered"}]

Shown == [image : Images, frame : 0 .. Frames]

\* What TypeOK needs to be inductive: the two queues in full.
TypeInv ==
    /\ caps \in Surfaces
    /\ pc \in Steps \X Nat
    /\ frame \in 0 .. Frames
    /\ clicked \in {"no", "pending", "polled"}
    /\ swapchain \in {"usable", "outdated"}
    /\ fence \in BOOLEAN
    /\ rendered \in {"clear", "set"}
    /\ acquired \in {<<"clear", 0>>, <<"set", 0>>} \cup ({"pending"} \X Images)
    /\ cmd \in [image : Images \cup {0}, frame : 0 .. Frames]
    /\ queue \in Seq(RenderOps \cup PresentOps)
    /\ screen \in Seq(Shown)
    /\ reading \subseteq Images
    /\ content \in [Images -> 0 .. Frames]
    /\ dropped \in BOOLEAN
    /\ At("record") => pc[2] \in Images
    /\ pc[1] \in {"submit", "present"} => cmd.image \in Images

Ops == RenderOps \cup PresentOps

LEMMA FramesNat == Frames \in Nat
BY FramesAssumption

\* What is left of a sequence without its i-th element.
LEMMA Removed ==
  ASSUME NEW S, NEW s \in Seq(S), NEW i \in 1 .. Len(s)
  PROVE  /\ RemoveAt(s, i) \in Seq(S)
         /\ Len(RemoveAt(s, i)) = Len(s) - 1
         /\ \A k \in 1 .. Len(s) - 1 : RemoveAt(s, i)[k] = s[IF k < i THEN k ELSE k + 1]
<1> DEFINE a == SubSeq(s, 1, i - 1)
           b == SubSeq(s, i + 1, Len(s))
<1>1. Len(s) \in Nat  OBVIOUS
<1>2. a \in Seq(S) /\ Len(a) = i - 1 /\ \A k \in 1 .. i - 1 : a[k] = s[k]
  BY <1>1, SubSeqProperties
<1>3. b \in Seq(S) /\ Len(b) = Len(s) - i /\ \A k \in 1 .. Len(s) - i : b[k] = s[i + k]
  BY <1>1, SubSeqProperties
<1> HIDE DEF a, b
<1>4. RemoveAt(s, i) = a \o b  BY DEF RemoveAt, a, b
<1>5. /\ a \o b \in Seq(S)
      /\ Len(a \o b) = Len(s) - 1
      /\ \A k \in 1 .. Len(s) - 1 : (a \o b)[k] = IF k <= i - 1 THEN a[k] ELSE b[k - (i - 1)]
  <2>1. /\ a \o b \in Seq(S)
        /\ Len(a \o b) = Len(a) + Len(b)
        /\ \A k \in 1 .. Len(a) + Len(b) :
               (a \o b)[k] = IF k <= Len(a) THEN a[k] ELSE b[k - Len(a)]
    BY <1>2, <1>3, ConcatProperties
  <2>2. Len(a) + Len(b) = Len(s) - 1  BY <1>1, <1>2, <1>3
  <2> QED  BY <2>1, <2>2, <1>2
<1>6. ASSUME NEW k \in 1 .. Len(s) - 1
      PROVE  (a \o b)[k] = s[IF k < i THEN k ELSE k + 1]
  <2>1. CASE k < i  BY <1>1, <1>2, <1>5, <2>1
  <2>2. CASE ~ (k < i)
    <3>1. k - (i - 1) \in 1 .. Len(s) - i /\ i + (k - (i - 1)) = k + 1  BY <1>1, <2>2
    <3>2. b[k - (i - 1)] = s[k + 1]  BY <1>3, <3>1
    <3> QED  BY <1>1, <1>5, <2>2, <3>2
  <2> QED  BY <2>1, <2>2
<1> QED  BY <1>4, <1>5, <1>6

\* Every step keeps the types.
LEMMA Typing == TypeInv /\ [Next]_vars => TypeInv'
<1> SUFFICES ASSUME TypeInv, [Next]_vars  PROVE TypeInv'
  OBVIOUS
<1> USE FramesNat DEF TypeInv, Ops
<1>0. /\ caps' = caps => Images' = Images
      /\ caps' = caps => RenderOps' = RenderOps /\ PresentOps' = PresentOps /\ Shown' = Shown
      /\ caps' = caps => Ops' = Ops
  BY DEF Images, RenderOps, PresentOps, Shown
<1>p. \A step \in Steps, k \in Nat : <<step, k>> \in Steps \X Nat  OBVIOUS
<1>q. At("open") => pc = <<"open", pc[2]>> /\ pc[2] + 1 \in Nat  BY DEF At
<1>o. \A i \in DOMAIN queue : queue[i] \in Ops  OBVIOUS
<1>1. CASE OpenStep
  <2>1. pc' \in Steps \X Nat /\ pc'[1] \in {"open", "loop"}
    BY <1>1, <1>q, <1>p DEF OpenStep, Go, Steps
  <2> QED  BY <1>0, <1>1, <2>1 DEF OpenStep, At, sync, engine
<1>2. ASSUME NEW step \in {"failed", "acquire", "loop", "idle", "close"}, OnlyGo(step)
      PROVE  TypeInv'
  <2>1. pc' \in Steps \X Nat /\ pc'[1] = step  BY <1>2 DEF OnlyGo, Go, Steps
  <2> QED  BY <1>0, <1>2, <2>1 DEF OnlyGo, At, sync, engine, program
<1>3. CASE OpenFails \/ DrawWait \/ DrawOutdated \/ DrawFails \/ LoopEnds \/ CloseWaits
  BY <1>2, <1>3 DEF OpenFails, DrawWait, DrawOutdated, DrawFails, LoopEnds, CloseWaits
<1>4. CASE DrawBegin
  <2>1. pc' \in Steps \X Nat /\ pc'[1] = "wait" /\ frame + 1 \in 0 .. Frames
    BY <1>4 DEF DrawBegin, Go, Steps
  <2> QED  BY <1>0, <1>4, <2>1 DEF DrawBegin, At, sync, engine
<1>5. CASE DrawAcquire
  <2>1. PICK i \in Images : pc' = <<"record", i>> /\ acquired' = <<"pending", i>>
    BY <1>5 DEF DrawAcquire
  <2>2. Images \subseteq Nat  BY DEF Images
  <2>3. pc' \in Steps \X Nat /\ pc'[1] = "record" /\ pc'[2] = i /\ acquired' \in {"pending"} \X Images
    BY <2>1, <2>2 DEF Steps
  <2> QED  BY <1>0, <1>5, <2>3 DEF DrawAcquire, At, engine, program
<1>6. CASE DrawRecord
  <2>1. pc' \in Steps \X Nat /\ pc'[1] = "submit" /\ pc[2] \in Images
    BY <1>6 DEF DrawRecord, At, Go, Steps
  <2> QED  BY <1>0, <1>6, <2>1 DEF DrawRecord, At, engine, program
<1>7. CASE DrawSubmit
  <2>1. pc' \in Steps \X Nat /\ pc'[1] = "present" /\ cmd.image \in Images
    BY <1>7 DEF DrawSubmit, At, Go, Steps
  <2>2. RenderOp \in Ops  BY <2>1 DEF RenderOp, Submitted, RenderOps, Stages
  <2>3. Append(queue, RenderOp) \in Seq(Ops)  BY <2>2, AppendProperties
  <2>4. queue' \in Seq(Ops) /\ dropped' \in BOOLEAN  BY <1>7, <2>3 DEF DrawSubmit
  <2> QED  BY <1>0, <1>7, <2>1, <2>4 DEF DrawSubmit, At, sync, engine, program
<1>8. CASE DrawPresent
  <2>1. pc' \in Steps \X Nat /\ pc'[1] = "loop" /\ cmd.image \in Images
    BY <1>8 DEF DrawPresent, At, Go, Steps
  <2>2. PresentOp \in Ops  BY <2>1 DEF PresentOp, PresentOps
  <2>3. queue' \in Seq(Ops)  BY <1>8, <2>2 DEF DrawPresent
  <2> QED  BY <1>0, <1>8, <2>1, <2>3 DEF DrawPresent, At, sync, engine, program
<1>9. CASE CloseStep
  <2>1. pc' \in Steps \X Nat /\ pc'[1] \in {"close", "closed"}
    BY <1>9 DEF CloseStep, Go, Steps, At
  <2> QED  BY <1>0, <1>9, <2>1 DEF CloseStep, At, sync, engine
<1>10. CASE UserCloses \/ Outdates \/ ImageReady
  BY <1>0, <1>10 DEF UserCloses, Outdates, ImageReady, At, sync, engine, program
<1>11. ASSUME NEW i \in DOMAIN queue, NEW stage \in Stages, queue[i].does = "render",
              queue' = [queue EXCEPT ![i].stage = stage]
       PROVE  queue' \in Seq(Ops)
  <2>1. queue[i] \in RenderOps  BY <1>o, <1>11 DEF PresentOps
  <2>2. [queue[i] EXCEPT !.stage = stage] \in Ops  BY <2>1 DEF RenderOps
  <2> QED  BY <1>11, <2>2, ExceptSeq
<1>11a. CASE RenderBegins
  <2>1. queue' \in Seq(Ops)  BY <1>11, <1>11a DEF RenderBegins, Stages
  <2>0. 0 \in 0 .. Frames  BY FramesNat
  <2>2. content' \in [Images -> 0 .. Frames]  BY <1>11a, <2>0 DEF RenderBegins
  <2> QED  BY <1>0, <1>11a, <2>1, <2>2 DEF RenderBegins, At, sync, program
<1>11b. CASE RenderDraws
  <2>1. queue' \in Seq(Ops)  BY <1>11, <1>11b DEF RenderDraws, Stages
  <2>2. acquired' \in {<<"clear", 0>>, acquired}  BY <1>11b DEF RenderDraws
  <2> QED  BY <1>0, <1>11b, <2>1, <2>2 DEF RenderDraws, At, engine, program
<1>12. CASE RenderEnds
  <2>1. PICK i \in DOMAIN queue : /\ queue' = RemoveAt(queue, i)
                                  /\ rendered' \in {"set", rendered}
    BY <1>12 DEF RenderEnds
  <2>2. queue' \in Seq(Ops)
    <3>1. queue \in Seq(Ops) /\ i \in 1 .. Len(queue)  BY LenProperties
    <3> HIDE DEF TypeInv, Ops
    <3> QED  BY <2>1, <3>1, Removed
  <2>3. content' \in [Images -> 0 .. Frames]  BY <1>12 DEF RenderEnds
  <2> QED  BY <1>0, <1>12, <2>1, <2>2, <2>3 DEF RenderEnds, At, program
<1>13. CASE PresentStarts
  <2>1. PICK i \in DOMAIN queue :
          /\ queue[i].does = "present"
          /\ queue' = RemoveAt(queue, i)
          /\ rendered' \in {"clear", rendered}
          /\ \/ screen' = screen
             \/ screen' = Append(screen, [image |-> queue[i].image, frame |-> queue[i].frame])
    BY <1>13 DEF PresentStarts
  <2>2. queue' \in Seq(Ops)
    <3>1. queue \in Seq(Ops) /\ i \in 1 .. Len(queue)  BY LenProperties
    <3> HIDE DEF TypeInv, Ops
    <3> QED  BY <2>1, <3>1, Removed
  <2>3. queue[i] \in PresentOps  BY <1>o, <2>1 DEF RenderOps
  <2>4. [image |-> queue[i].image, frame |-> queue[i].frame] \in Shown
    BY <2>3 DEF PresentOps, Shown
  <2>5. \A x \in Shown : Append(screen, x) \in Seq(Shown)  BY AppendProperties
  <2>6. screen' \in Seq(Shown)  BY <2>1, <2>4, <2>5
  <2> QED  BY <1>0, <1>13, <2>1, <2>2, <2>6 DEF PresentStarts, At, program
<1>14. CASE Refresh
  <2>1. screen # <<>>
    <3>1. caps[1] \in Nat \ {0}  BY SurfacesAssumption
    <3> QED  BY <1>14, <3>1 DEF Refresh
  <2>2. Tail(screen) \in Seq(Shown) /\ Head(screen) \in Shown  BY <2>1, HeadTailProperties
  <2>3. Head(screen).image \in Images  BY <2>2 DEF Shown
  <2> QED  BY <1>0, <1>14, <2>2, <2>3 DEF Refresh, At, sync, program
<1>15. CASE UNCHANGED vars
  BY <1>0, <1>15 DEF vars, program, sync, engine, At
<1> QED
  BY <1>1, <1>3, <1>4, <1>5, <1>6, <1>7, <1>8, <1>9, <1>10, <1>11a, <1>11b, <1>12, <1>13, <1>14, <1>15
  DEF Next, Program, Proceeds, Surroundings, Engine

\* The work that was submitted is not done.
Rendering == \E i \in DOMAIN queue : queue[i].does = "render"

\* At most one submit is in the queue, and the fence is reset exactly from a reset to the end of the
\* submit that follows it.
FenceInv ==
    /\ \A i, j \in DOMAIN queue : queue[i].does = "render" /\ queue[j].does = "render" => i = j
    /\ fence <=> ~ Rendering /\ ~ dropped /\ ~ At("submit")
    /\ dropped => ~ Rendering
    /\ At("submit") => ~ Rendering /\ ~ dropped
    /\ pc[1] \in {"acquire", "record"} => fence
    /\ pc[1] \in {"open", "failed"} => queue = <<>> /\ ~ dropped
    /\ pc[1] \in {"close", "closed"} => ~ Rendering

LEMMA OpsOfQueue ==
  ASSUME TypeInv
  PROVE  /\ Len(queue) \in Nat /\ DOMAIN queue = 1 .. Len(queue)
         /\ \A i \in DOMAIN queue : queue[i] \in Ops
         /\ \A i \in DOMAIN queue : queue[i].does = "render" => queue[i] \in RenderOps
         /\ \A i \in DOMAIN queue : queue[i].does # "render" => queue[i] \in PresentOps
         /\ Presents = {} <=> \A i \in DOMAIN queue : queue[i].does = "render"
         /\ Renders = {} <=> ~ Rendering
<1>1. \A i \in DOMAIN queue : queue[i] \in Ops  BY DEF TypeInv, Ops
<1>2. \A i \in DOMAIN queue : /\ queue[i].does = "render" => queue[i] \in RenderOps
                              /\ queue[i].does # "render" => queue[i] \in PresentOps
  BY <1>1 DEF Ops, RenderOps, PresentOps
<1>3. Renders = {} <=> ~ Rendering  BY DEF Renders, Range, Rendering
<1>4. \A i \in DOMAIN queue : queue[i].does \in {"render", "present"}
  BY <1>1 DEF Ops, RenderOps, PresentOps
<1>5. Presents = {} <=> \A i \in DOMAIN queue : queue[i].does = "render"
  BY <1>4 DEF Presents, Range
<1> QED  BY <1>1, <1>2, <1>3, <1>5 DEF TypeInv

\* A queue with one operation more.
LEMMA Queued ==
  ASSUME TypeInv, NEW op \in Ops, queue' = Append(queue, op)
  PROVE  /\ DOMAIN queue' = 1 .. Len(queue) + 1
         /\ Len(queue') = Len(queue) + 1
         /\ \A i \in DOMAIN queue : queue'[i] = queue[i]
         /\ queue'[Len(queue) + 1] = op
<1>1. queue \in Seq(Ops)  BY DEF TypeInv, Ops
<1> QED  BY <1>1, AppendProperties, LenProperties, OpsOfQueue

\* And with one operation less.
LEMMA Unqueued ==
  ASSUME TypeInv, NEW i \in DOMAIN queue, queue' = RemoveAt(queue, i)
  PROVE  /\ DOMAIN queue' = 1 .. Len(queue) - 1
         /\ Len(queue') = Len(queue) - 1
         /\ \A k \in DOMAIN queue' : queue'[k] = queue[IF k < i THEN k ELSE k + 1]
<1>1. queue \in Seq(Ops)  BY DEF TypeInv, Ops
<1>2. i \in 1 .. Len(queue)  BY OpsOfQueue
<1>3. queue' \in Seq(Ops) /\ Len(queue') = Len(queue) - 1  BY <1>1, <1>2, Removed
<1>4. DOMAIN queue' = 1 .. Len(queue) - 1  BY <1>3, LenProperties
<1> QED  BY <1>1, <1>2, <1>3, <1>4, Removed

\* An operation that comes to its next stage stays the operation it is.
LEMMA Begun ==
  ASSUME TypeInv, NEW i \in DOMAIN queue, queue[i].does = "render", NEW stage \in Stages,
         queue' = [queue EXCEPT ![i].stage = stage]
  PROVE  /\ DOMAIN queue' = DOMAIN queue /\ Len(queue') = Len(queue)
         /\ \A k \in DOMAIN queue : k # i => queue'[k] = queue[k]
         /\ queue'[i].does = "render" /\ queue'[i].image = queue[i].image
         /\ queue'[i].stage = stage
<1>1. queue \in Seq(Ops) /\ i \in 1 .. Len(queue)  BY OpsOfQueue DEF TypeInv, Ops
<1>2. queue[i] \in RenderOps  BY OpsOfQueue
<1>3. [queue[i] EXCEPT !.stage = stage] \in RenderOps  BY <1>2 DEF RenderOps
<1> DEFINE op == [queue[i] EXCEPT !.stage = stage]
<1>4. op.does = "render" /\ op.image = queue[i].image /\ op.stage = stage  BY <1>2 DEF RenderOps
<1>5. op \in Ops /\ queue' = [queue EXCEPT ![i] = op]  BY <1>3 DEF Ops
<1> HIDE DEF op
<1>6. queue'[i] = op /\ \A k \in DOMAIN queue : k # i => queue'[k] = queue[k]
  BY <1>1, <1>5
<1>8. DOMAIN queue' = DOMAIN queue  BY <1>5
<1>7. Len(queue') = Len(queue)
  <2>0. op \in Ops  BY <1>5
  <2>1. [queue EXCEPT ![i] = op] \in Seq(Ops)  BY ONLY <1>1, <2>0, ExceptSeq
  <2>2. queue' \in Seq(Ops)  BY <1>5, <2>1
  <2> QED  BY <1>1, <1>8, <2>2, LenProperties
<1> QED  BY <1>4, <1>6, <1>7, <1>8

\* Every step keeps the fence in turn.
LEMMA FenceKept == TypeInv /\ FenceInv /\ [Next]_vars => FenceInv'
<1> SUFFICES ASSUME TypeInv, FenceInv, [Next]_vars  PROVE FenceInv'
  OBVIOUS
<1>o. /\ Len(queue) \in Nat /\ DOMAIN queue = 1 .. Len(queue)
      /\ Renders = {} <=> ~ Rendering
  BY OpsOfQueue
<1>p. fence \in BOOLEAN /\ dropped \in BOOLEAN  BY DEF TypeInv
<1>q. queue' = queue => Rendering' = Rendering  BY DEF Rendering
<1>1. CASE OpenStep
  <2>1. pc'[1] \in {"open", "loop"} /\ pc[1] = "open"  BY <1>1 DEF OpenStep, Go, At
  <2> QED  BY <1>1, <1>q, <2>1, <1>p DEF OpenStep, FenceInv, At, sync, Rendering
<1>2. CASE OpenFails \/ DrawOutdated \/ DrawFails \/ LoopEnds \/ DrawWait \/ CloseWaits
  <2>1. /\ pc'[1] \in {"failed", "loop", "idle", "acquire", "close"}
        /\ pc'[1] = "failed" => pc[1] = "open"
        /\ pc'[1] = "acquire" => fence
        /\ pc'[1] = "close" => ~ Rendering
        /\ pc[1] \in {"open", "wait", "acquire", "loop", "idle"}
        /\ UNCHANGED <<queue, fence, dropped>>
    BY <1>2, <1>o DEF OpenFails, DrawOutdated, DrawFails, LoopEnds, DrawWait, CloseWaits, OnlyGo, Go,
                      At, sync
  <2> QED  BY <1>q, <2>1, <1>p DEF FenceInv, At
<1>3. CASE DrawBegin
  BY <1>3, <1>q, <1>p DEF DrawBegin, FenceInv, At, Go, sync
<1>4. CASE DrawAcquire
  <2>1. pc'[1] = "record" /\ pc[1] = "acquire" /\ UNCHANGED <<queue, fence, dropped>>
    BY <1>4 DEF DrawAcquire, At
  <2> QED  BY <1>q, <2>1, <1>p DEF FenceInv, At
<1>5. CASE DrawRecord
  BY <1>5, <1>q, <1>p DEF DrawRecord, FenceInv, At, Go
<1>6. CASE DrawSubmit
  <2>1. pc'[1] = "present" /\ pc[1] = "submit" /\ fence' = fence  BY <1>6 DEF DrawSubmit, Go, At, sync
  <2>2. CASE dropped' = TRUE /\ queue' = queue  BY <2>1, <2>2, <1>q, <1>p DEF FenceInv, At
  <2>3. CASE queue' = Append(queue, RenderOp) /\ dropped' = dropped
    <3>1. cmd.image \in Images  BY <2>1 DEF TypeInv
    <3>2. RenderOp \in Ops /\ RenderOp.does = "render"
      BY <3>1 DEF RenderOp, Submitted, RenderOps, Ops, Stages
    <3>3. /\ DOMAIN queue' = 1 .. Len(queue) + 1
          /\ \A i \in DOMAIN queue : queue'[i] = queue[i]
          /\ queue'[Len(queue) + 1] = RenderOp
      BY <2>3, <3>2, Queued
    <3>4. ~ Rendering /\ Rendering'  BY <1>o, <2>1, <3>2, <3>3 DEF FenceInv, At, Rendering
    <3>5. \A i \in DOMAIN queue' : queue'[i].does = "render" => i = Len(queue) + 1
      BY <1>o, <3>3, <3>4 DEF Rendering
    <3> QED  BY <2>1, <2>3, <3>4, <3>5, <1>p DEF FenceInv, At
  <2> QED  BY <1>6, <2>2, <2>3 DEF DrawSubmit
<1>7. CASE DrawPresent
  <2>1. /\ pc'[1] = "loop" /\ pc[1] = "present" /\ UNCHANGED <<fence, dropped>>
        /\ queue' = Append(queue, PresentOp)
    BY <1>7 DEF DrawPresent, Go, At, sync
  <2>2. cmd.image \in Images  BY <2>1 DEF TypeInv
  <2>3. PresentOp \in Ops /\ PresentOp.does = "present"
    BY <2>2 DEF PresentOp, PresentOps, Ops, TypeInv
  <2>4. /\ DOMAIN queue' = 1 .. Len(queue) + 1
        /\ \A i \in DOMAIN queue : queue'[i] = queue[i]
        /\ queue'[Len(queue) + 1].does = "present"
    BY <2>1, <2>3, Queued
  <2>5. /\ Rendering' <=> Rendering
        /\ \A i \in DOMAIN queue' : queue'[i].does = "render" =>
               i \in DOMAIN queue /\ queue[i].does = "render"
    BY <1>o, <2>4 DEF Rendering
  <2> QED  BY <2>1, <2>5, <1>p DEF FenceInv, At
<1>8. CASE CloseStep
  <2>1. pc'[1] \in {"close", "closed"} /\ pc[1] = "close" /\ UNCHANGED <<queue, fence, dropped>>
    BY <1>8 DEF CloseStep, Go, At, sync
  <2> QED  BY <1>q, <2>1, <1>p DEF FenceInv, At
<1>9. CASE UserCloses \/ Outdates \/ ImageReady \/ Refresh \/ UNCHANGED vars
  <2>1. UNCHANGED <<pc, queue, fence, dropped>>
    BY <1>9 DEF UserCloses, Outdates, ImageReady, Refresh, vars, sync
  <2> QED  BY <1>q, <2>1, <1>p DEF FenceInv, At
<1>10. CASE RenderBegins \/ RenderDraws
  <2>1. PICK i \in DOMAIN queue, stage \in Stages : /\ queue[i].does = "render"
                                                   /\ queue' = [queue EXCEPT ![i].stage = stage]
    BY <1>10 DEF RenderBegins, RenderDraws, Stages
  <2>2. /\ DOMAIN queue' = DOMAIN queue
        /\ \A k \in DOMAIN queue : queue'[k].does = queue[k].does
    BY <2>1, Begun
  <2>3. Rendering' <=> Rendering  BY <2>2 DEF Rendering
  <2>4. UNCHANGED <<pc, fence, dropped>> /\ Rendering
    BY <1>10, <2>1 DEF RenderBegins, RenderDraws, sync, Rendering
  <2>5. pc[1] \notin {"open", "failed"}  BY <2>1 DEF FenceInv
  <2> QED  BY <2>2, <2>3, <2>4, <2>5, <1>p DEF FenceInv, At
<1>11. CASE RenderEnds
  <2>1. PICK i \in DOMAIN queue : queue[i].does = "render" /\ queue' = RemoveAt(queue, i)
    BY <1>11 DEF RenderEnds
  <2>2. /\ DOMAIN queue' = 1 .. Len(queue) - 1
        /\ \A k \in DOMAIN queue' : queue'[k] = queue[IF k < i THEN k ELSE k + 1]
    BY <2>1, Unqueued
  <2>3. ~ Rendering'  BY <1>o, <2>1, <2>2 DEF FenceInv, Rendering
  <2>4. fence' /\ UNCHANGED <<pc, dropped>> /\ Rendering  BY <1>11, <2>1 DEF RenderEnds, Rendering
  <2>5. pc[1] \notin {"open", "failed"}  BY <2>1 DEF FenceInv
  <2> QED  BY <2>3, <2>4, <2>5, <1>p DEF FenceInv, At, Rendering
<1>12. CASE PresentStarts
  <2>1. PICK i \in DOMAIN queue : queue[i].does = "present" /\ queue' = RemoveAt(queue, i)
    BY <1>12 DEF PresentStarts
  <2>2. /\ DOMAIN queue' = 1 .. Len(queue) - 1
        /\ \A k \in DOMAIN queue' : queue'[k] = queue[IF k < i THEN k ELSE k + 1]
    BY <2>1, Unqueued
  <2>3. ASSUME NEW k \in DOMAIN queue, queue[k].does = "render"
        PROVE  \E l \in DOMAIN queue' : queue'[l].does = "render"
    <3>1. CASE k < i  BY <1>o, <2>1, <2>2, <2>3, <3>1
    <3>2. CASE k > i
      <4>1. k - 1 \in DOMAIN queue' /\ queue'[k - 1] = queue[k]  BY <1>o, <2>1, <2>2, <3>2
      <4> QED  BY <4>1, <2>3
    <3> QED  BY <1>o, <2>1, <2>3, <3>1, <3>2
  <2>4. Rendering' <=> Rendering  BY <1>o, <2>1, <2>2, <2>3 DEF Rendering
  <2>5. UNCHANGED <<pc, fence, dropped>>  BY <1>12 DEF PresentStarts
  <2>6. pc[1] \notin {"open", "failed"}  BY <2>1 DEF FenceInv
  <2>7. \A k, l \in DOMAIN queue' : queue'[k].does = "render" /\ queue'[l].does = "render" => k = l
    BY <1>o, <2>1, <2>2 DEF FenceInv
  <2> QED  BY <2>4, <2>5, <2>6, <2>7, <1>p DEF FenceInv, At
<1> QED
  BY <1>1, <1>2, <1>3, <1>4, <1>5, <1>6, <1>7, <1>8, <1>9, <1>10, <1>11, <1>12
  DEF Next, Program, Proceeds, Surroundings, Engine

-----------------------------------------------------------------------------
(* What depends on presents being executed in the queue's order.             *)

\* The next present has what it waits for.
Due == Len(queue) > 0 /\ queue[1].does = "present" /\ rendered = "set"

\* The frame before may wait to be presented, then comes the work of this frame and its present.
QueueInv ==
    /\ \A i \in DOMAIN queue : queue[i].does = "render" =>
         /\ i <= 2
         /\ queue[i].image = cmd.image
         /\ At("present") => Len(queue) = i
         /\ ~ At("present") => /\ Len(queue) = i + 1
                               /\ queue[i + 1].image = cmd.image /\ queue[i + 1].frame = cmd.frame
    /\ ~ Rendering => Len(queue) <= IF dropped THEN 2 ELSE 1
    /\ ~ Rendering /\ At("present") => Len(queue) <= IF dropped THEN 1 ELSE 0
    /\ dropped => pc[1] \in {"present", "loop", "wait", "idle"}
    /\ dropped /\ ~ At("present") => Len(queue) > 0
    /\ pc[1] \in {"close", "closed"} => Len(queue) = 0

\* Who set `rendered` waits to be presented, and nobody else does.
RenderedInv ==
    rendered = "set" <=>
        \/ Len(queue) = 0 /\ At("present") /\ ~ dropped
        \/ Len(queue) > 0 /\ queue[1].does = "present" /\ (dropped /\ ~ At("present") => Len(queue) = 2)

\* The image acquired last, until it is drawn.
Busy == {i \in Images : \/ At("record") /\ i = pc[2]
                        \/ (pc[1] \in {"submit", "present"} \/ Rendering) /\ i = cmd.image}

\* The image that was acquired is what is drawn to.
AcquiredInv ==
    /\ acquired[1] = "clear" <=>
         /\ \A i \in DOMAIN queue : queue[i].does = "render" => queue[i].stage = "drawing"
         /\ ~ dropped /\ pc[1] \notin {"record", "submit"}
    /\ acquired[1] = "pending" => acquired[2] = IF At("record") THEN pc[2] ELSE cmd.image

\* Frames are shown and presented in order.
FrameInv ==
    /\ cmd.frame <= frame
    /\ pc[1] \in {"wait", "acquire", "record"} => cmd.frame < frame
    /\ \A i \in DOMAIN queue : queue[i].does = "present" => queue[i].frame <= cmd.frame
    /\ \A k \in DOMAIN screen : screen[k].frame <= cmd.frame
    /\ pc[1] \in {"submit", "present"} \/ Rendering =>
         /\ \A k \in DOMAIN screen : screen[k].frame < cmd.frame
         /\ Len(queue) > 0 /\ queue[1].does = "present" => queue[1].frame < cmd.frame
    /\ \A k, l \in DOMAIN screen : k < l => screen[k].frame < screen[l].frame
    /\ Due => \A k \in DOMAIN screen : screen[k].frame < queue[1].frame

\* What is shown or about to be is drawn, and not on the image drawn to.
ImageInv ==
    /\ \A k \in DOMAIN screen : content[screen[k].image] = screen[k].frame /\ screen[k].image \notin Busy
    /\ Due => content[queue[1].image] = queue[1].frame /\ queue[1].image \notin Busy
    /\ At("present") /\ ~ Rendering /\ ~ dropped => content[cmd.image] = cmd.frame
    /\ acquired[1] # "pending" => Busy \cap reading = {}

OrderInv == QueueInv /\ RenderedInv /\ AcquiredInv /\ FrameInv /\ ImageInv

\* The numbers of frames, and which images there are.
LEMMA FramesAndImages ==
  ASSUME TypeInv
  PROVE  /\ frame \in Nat /\ cmd.frame \in Nat
         /\ \A k \in DOMAIN screen : screen[k].frame \in Nat /\ screen[k].image \in Images
         /\ \A i \in DOMAIN queue : queue[i].image \in Images
         /\ \A i \in DOMAIN queue : queue[i].does = "present" => queue[i].frame \in Nat
         /\ Len(screen) \in Nat /\ DOMAIN screen = 1 .. Len(screen)
<1>1. \A k \in DOMAIN screen : screen[k] \in Shown  BY DEF TypeInv
<1>2. \A k \in DOMAIN screen : screen[k].frame \in Nat /\ screen[k].image \in Images
  BY <1>1, FramesNat DEF Shown
<1>3. \A i \in DOMAIN queue : queue[i].image \in Images
  BY OpsOfQueue DEF Ops, RenderOps, PresentOps
<1>4. \A i \in DOMAIN queue : queue[i].does = "present" => queue[i].frame \in Nat
  BY OpsOfQueue, FramesNat DEF PresentOps
<1> QED  BY <1>2, <1>3, <1>4, FramesNat DEF TypeInv

\* Steps that leave the queue, the engine and the command buffer alone, outside the lines from the
\* acquire to the present.
LEMMA OrderQuiet ==
  ASSUME TypeInv, OrderInv,
         UNCHANGED <<caps, queue, rendered, acquired, screen, reading, content, cmd, dropped>>,
         pc[1] \notin {"record", "submit", "present"},
         pc'[1] \notin {"record", "submit", "present"},
         frame' \in Nat, frame' >= frame,
         pc'[1] \in {"wait", "acquire"} => cmd.frame < frame',
         pc'[1] \in {"close", "closed"} => Len(queue) = 0,
         dropped => pc'[1] \in {"loop", "wait", "idle"}
  PROVE  OrderInv'
<1> USE DEF OrderInv
<1>1. Rendering' = Rendering /\ Due' = Due /\ Images' = Images  BY DEF Rendering, Due, Images
<1>2. Busy' = Busy  BY <1>1 DEF Busy, At
<1>3. QueueInv'  BY <1>1 DEF QueueInv, At
<1>4. RenderedInv'  BY DEF RenderedInv, At
<1>5. AcquiredInv'  BY DEF AcquiredInv, At
<1>6. FrameInv'  BY <1>1, FramesAndImages DEF FrameInv
<1>7. ImageInv'  BY <1>1, <1>2 DEF ImageInv, At
<1> QED  BY <1>3, <1>4, <1>5, <1>6, <1>7

\* The steps of a draw from the acquire to the present.
LEMMA OrderDrawn ==
  ASSUME TypeInv, FenceInv, OrderInv, DrawAcquire \/ DrawRecord \/ DrawSubmit \/ DrawPresent
  PROVE  OrderInv'
<1> USE DEF OrderInv
<1>o. /\ Len(queue) \in Nat /\ DOMAIN queue = 1 .. Len(queue)
      /\ \A i \in DOMAIN queue : queue[i].does = "render" => queue[i] \in RenderOps
  BY OpsOfQueue
<1>b. dropped \in BOOLEAN /\ fence \in BOOLEAN  BY DEF TypeInv
<1>i. caps' = caps  BY DEF DrawAcquire, DrawRecord, DrawSubmit, DrawPresent
<1>j. Images' = Images  BY <1>i DEF Images
<1>1. CASE DrawAcquire
  <2>1. /\ pc[1] = "acquire"
        /\ UNCHANGED <<frame, rendered, cmd, queue, screen, reading, content, dropped>>
    BY <1>1 DEF DrawAcquire, At, program, engine
  <2>2. PICK a \in Images \ {p.image : p \in Presents \cup Range(screen)} :
          pc' = <<"record", a>> /\ acquired' = <<"pending", a>>
    BY <1>1 DEF DrawAcquire
  <2>3. fence /\ ~ Rendering /\ ~ dropped  BY <2>1, <1>b DEF FenceInv, At
  <2>4. Rendering' = Rendering /\ Due' = Due  BY <2>1 DEF Rendering, Due
  <2>5. \A k \in DOMAIN screen : screen[k].image # a
    BY <2>2 DEF Range
  <2>6. \A i \in DOMAIN queue : queue[i].does = "present" => queue[i].image # a
    BY <2>2 DEF Presents, Range
  <2>7. Busy' = {a}  BY <2>2, <2>3, <2>4, <1>j DEF Busy, At
  <2>8. QueueInv'  BY <2>1, <2>2, <2>3, <2>4 DEF QueueInv, At
  <2>9. RenderedInv'  BY <2>1, <2>2, <2>3 DEF RenderedInv, At
  <2>10. AcquiredInv'  BY <2>2 DEF AcquiredInv, At
  <2>11. FrameInv'  BY <2>1, <2>2, <2>3, <2>4, FramesAndImages DEF FrameInv
  <2>12. ImageInv'
    <3>1. Due => queue[1].image # a  BY <1>o, <2>6 DEF Due
    <3> QED  BY <2>1, <2>2, <2>4, <2>5, <2>7, <3>1 DEF ImageInv, At
  <2> QED  BY <2>8, <2>9, <2>10, <2>11, <2>12
<1>2. CASE DrawRecord
  <2>1. /\ pc[1] = "record" /\ pc'[1] = "submit"
        /\ UNCHANGED <<frame, acquired, rendered, queue, screen, reading, content, dropped>>
        /\ cmd' = [image |-> pc[2], frame |-> frame]
    BY <1>2 DEF DrawRecord, At, Go, program, engine
  <2>2. fence /\ ~ Rendering /\ ~ dropped  BY <2>1, <1>b DEF FenceInv, At
  <2>3. Rendering' = Rendering /\ Due' = Due  BY <2>1 DEF Rendering, Due
  <2>4. cmd'.image = pc[2] /\ cmd'.frame = frame  BY <2>1
  <2>5. Busy' = Busy  BY <2>1, <2>2, <2>3, <2>4, <1>j DEF Busy, At
  <2>6. QueueInv'  BY <2>1, <2>2, <2>3 DEF QueueInv, Rendering, At
  <2>7. RenderedInv'  BY <2>1, <2>2 DEF RenderedInv, At
  <2>8. AcquiredInv'  BY <2>1, <2>4 DEF AcquiredInv, At
  <2>9. FrameInv'
    <3>1. cmd.frame < frame  BY <2>1 DEF FrameInv
    <3>2. \A k \in DOMAIN screen : screen[k].frame < frame  BY <3>1, FramesAndImages DEF FrameInv
    <3>3. \A i \in DOMAIN queue : queue[i].does = "present" => queue[i].frame < frame
      BY <3>1, FramesAndImages DEF FrameInv
    <3>4. Len(queue) > 0 => 1 \in DOMAIN queue  BY <1>o
    <3> QED  BY <2>1, <2>3, <2>4, <3>2, <3>3, <3>4, FramesAndImages DEF FrameInv
  <2>10. ImageInv'  BY <2>1, <2>3, <2>5 DEF ImageInv, At
  <2> QED  BY <2>6, <2>7, <2>8, <2>9, <2>10
<1>3. CASE DrawSubmit
  <2>1. /\ pc[1] = "submit" /\ pc'[1] = "present"
        /\ UNCHANGED <<frame, acquired, rendered, cmd, screen, reading, content>>
    BY <1>3 DEF DrawSubmit, At, Go, program, sync, engine
  <2>2. ~ Rendering /\ ~ dropped /\ Len(queue) <= 1  BY <2>1, <1>b DEF FenceInv, QueueInv, At
  <2>3. CASE dropped' = TRUE /\ queue' = queue
    <3>1. Rendering' = Rendering /\ Due' = Due  BY <2>1, <2>3 DEF Rendering, Due
    <3>2. Busy' = Busy  BY <2>1, <3>1, <1>j DEF Busy, At
    <3>3. QueueInv'  BY <2>1, <2>2, <2>3, <3>1 DEF QueueInv, Rendering, At
    <3>4. RenderedInv'  BY <2>1, <2>2, <2>3 DEF RenderedInv, At
    <3>5. AcquiredInv'  BY <2>1, <2>3 DEF AcquiredInv, At
    <3>6. FrameInv'  BY <2>1, <2>3, <3>1 DEF FrameInv
    <3>7. ImageInv'  BY <2>1, <2>3, <3>1, <3>2 DEF ImageInv, At
    <3> QED  BY <3>3, <3>4, <3>5, <3>6, <3>7
  <2>4. CASE queue' = Append(queue, RenderOp) /\ dropped' = dropped
    <3>1. cmd.image \in Images  BY <2>1 DEF TypeInv
    <3>2. /\ RenderOp \in Ops /\ RenderOp.does = "render" /\ RenderOp.image = cmd.image
          /\ RenderOp.stage = "queued"
      BY <3>1 DEF RenderOp, Submitted, RenderOps, Ops, Stages
    <3>3. /\ DOMAIN queue' = 1 .. Len(queue) + 1
          /\ Len(queue') = Len(queue) + 1
          /\ \A i \in DOMAIN queue : queue'[i] = queue[i]
          /\ queue'[Len(queue) + 1] = RenderOp
      BY <2>4, <3>2, Queued
    <3>4. \A i \in DOMAIN queue' : IF i = Len(queue) + 1 THEN queue'[i].does = "render"
                                   ELSE i \in DOMAIN queue /\ queue[i].does # "render"
      BY <1>o, <2>2, <3>2, <3>3 DEF Rendering
    <3>5. Rendering'  BY <1>o, <3>3, <3>4 DEF Rendering
    <3>6. Due' <=> Due  BY <1>o, <2>1, <2>2, <3>2, <3>3 DEF Due
    <3>7. Busy' = Busy  BY <2>1, <3>5, <1>j DEF Busy, At
    <3>8. QueueInv'  BY <1>o, <2>1, <2>2, <2>4, <3>2, <3>3, <3>4, <3>5 DEF QueueInv, At
    <3>9. RenderedInv'  BY <1>o, <2>1, <2>2, <2>4, <3>2, <3>3 DEF RenderedInv, At
    <3>10. AcquiredInv'  BY <1>o, <2>1, <2>4, <3>2, <3>3 DEF AcquiredInv, At
    <3>11. FrameInv'
      <4>1. \A i \in DOMAIN queue' : queue'[i].does = "present" => queue'[i].frame <= cmd.frame
        BY <3>2, <3>3, <3>4 DEF FrameInv
      <4>2. Len(queue') > 0 /\ queue'[1].does = "present" =>
                Len(queue) > 0 /\ queue'[1] = queue[1]
        BY <1>o, <3>2, <3>3
      <4> QED  BY <2>1, <2>2, <3>6, <4>1, <4>2 DEF FrameInv, Due
    <3>12. ImageInv'
      <4>1. Due => queue'[1] = queue[1]  BY <1>o, <3>3 DEF Due
      <4> QED  BY <2>1, <3>5, <3>6, <3>7, <4>1 DEF ImageInv, At
    <3> QED  BY <3>8, <3>9, <3>10, <3>11, <3>12
  <2> QED  BY <1>3, <2>3, <2>4 DEF DrawSubmit
<1>4. CASE DrawPresent
  <2>1. /\ pc[1] = "present" /\ pc'[1] = "loop"
        /\ UNCHANGED <<frame, acquired, rendered, cmd, screen, reading, content, dropped>>
        /\ queue' = Append(queue, PresentOp)
    BY <1>4 DEF DrawPresent, At, Go, program, sync, engine
  <2>2. cmd.image \in Images  BY <2>1 DEF TypeInv
  <2>3. /\ PresentOp \in Ops /\ PresentOp.does = "present"
        /\ PresentOp.image = cmd.image /\ PresentOp.frame = cmd.frame
    BY <2>2 DEF PresentOp, PresentOps, Ops, TypeInv
  <2>4. /\ DOMAIN queue' = 1 .. Len(queue) + 1
        /\ Len(queue') = Len(queue) + 1
        /\ \A i \in DOMAIN queue : queue'[i] = queue[i]
        /\ queue'[Len(queue) + 1] = PresentOp
    BY <2>1, <2>3, Queued
  <2>5. \A i \in DOMAIN queue' : queue'[i].does = "render" =>
            i \in DOMAIN queue /\ queue[i].does = "render" /\ queue'[i] = queue[i]
    BY <1>o, <2>3, <2>4
  <2>6. Rendering' <=> Rendering  BY <1>o, <2>4, <2>5 DEF Rendering
  <2>7. \A i \in Busy' : i \in Busy  BY <2>1, <2>6, <1>j DEF Busy, At
  <2>8. QueueInv'
    <3>1. ASSUME NEW i \in DOMAIN queue', queue'[i].does = "render"
          PROVE  /\ i <= 2 /\ queue'[i].image = cmd.image /\ Len(queue') = i + 1
                 /\ queue'[i + 1].image = cmd.image /\ queue'[i + 1].frame = cmd.frame
      BY <1>o, <2>1, <2>3, <2>4, <2>5, <3>1 DEF QueueInv, At
    <3>2. ~ Rendering => Len(queue') <= IF dropped THEN 2 ELSE 1
      BY <1>o, <2>1, <2>4 DEF QueueInv, At
    <3>3. Len(queue') > 0  BY <1>o, <2>4
    <3> QED  BY <2>1, <2>6, <3>1, <3>2, <3>3 DEF QueueInv, At
  <2>9. RenderedInv'
    <3>1. CASE Len(queue) = 0  BY <2>1, <2>3, <2>4, <3>1 DEF RenderedInv, At
    <3>2. CASE Len(queue) > 0
      <4>1. queue'[1] = queue[1]  BY <1>o, <2>4, <3>2
      <4>2. dropped => Len(queue) = 1  BY <1>o, <2>1, <3>2 DEF FenceInv, QueueInv, At
      <4> QED  BY <2>1, <2>4, <3>2, <4>1, <4>2 DEF RenderedInv, At
    <3> QED  BY <1>o, <3>1, <3>2
  <2>10. AcquiredInv'  BY <1>o, <2>1, <2>4, <2>5 DEF AcquiredInv, At
  <2>11. CASE Len(queue) = 0
    <3>1. queue'[1] = PresentOp  BY <2>4, <2>11
    <3>2. ~ Rendering  BY <1>o, <2>11 DEF Rendering
    <3>3. FrameInv'
      <4>1. \A i \in DOMAIN queue' : queue'[i].does = "present" => queue'[i].frame <= cmd.frame
        BY <2>3, <2>4, <2>11, <3>1, FramesAndImages
      <4> QED  BY <2>1, <2>3, <2>6, <3>1, <3>2, <4>1 DEF FrameInv
    <3>4. ImageInv'
      <4>1. Due' => ~ dropped  BY <2>1, <2>11 DEF Due, RenderedInv, At
      <4>2. Busy' = {}  BY <2>1, <2>6, <3>2 DEF Busy, At
      <4> QED  BY <2>1, <2>3, <3>1, <3>2, <4>1, <4>2 DEF ImageInv, At
    <3> QED  BY <2>8, <2>9, <2>10, <3>3, <3>4
  <2>12. CASE Len(queue) > 0
    <3>1. queue'[1] = queue[1]  BY <1>o, <2>4, <2>12
    <3>2. Due' <=> Due  BY <1>o, <2>1, <2>4, <2>12, <3>1 DEF Due
    <3>3. FrameInv'
      <4>1. \A i \in DOMAIN queue' : queue'[i].does = "present" => queue'[i].frame <= cmd.frame
        BY <1>o, <2>3, <2>4, FramesAndImages DEF FrameInv
      <4> QED  BY <2>1, <2>6, <2>12, <3>1, <3>2, <4>1 DEF FrameInv
    <3>4. ImageInv'  BY <2>1, <2>7, <3>1, <3>2 DEF ImageInv, At
    <3> QED  BY <2>8, <2>9, <2>10, <3>3, <3>4
  <2> QED  BY <1>o, <2>11, <2>12
<1> QED  BY <1>1, <1>2, <1>3, <1>4

\* The steps of the GPU and the engine on the queue: the first operation of the queue is the one that
\* is done, because presents are operations of the queue.
LEMMA FirstIsDone ==
  ASSUME TypeInv, FenceInv, OrderInv, QueuePresents, NEW i \in DOMAIN queue, ~ Overtakes(i),
         \/ queue[i].does = "render"
         \/ queue[i].does = "present" /\ rendered = "set"
  PROVE  i = 1
<1>o. Len(queue) \in Nat /\ DOMAIN queue = 1 .. Len(queue)  BY OpsOfQueue
<1>k. \A j \in DOMAIN queue : queue[j].does \in {"render", "present"}
  BY OpsOfQueue DEF Ops, RenderOps, PresentOps
<1>1. \A j \in 1 .. i - 1 : queue[j].does = "render"  BY <1>o, <1>k DEF Overtakes
<1>2. CASE queue[i].does = "render"
  BY <1>o, <1>1, <1>2 DEF FenceInv
<1>3. CASE queue[i].does = "present" /\ rendered = "set"
  <2>1. queue[1].does = "present"  BY <1>o, <1>3 DEF OrderInv, RenderedInv
  <2> QED  BY <1>o, <1>1, <2>1
<1> QED  BY <1>2, <1>3

\* The queue without its first operation.
LEMMA FirstTaken ==
  ASSUME TypeInv, 1 \in DOMAIN queue, queue' = RemoveAt(queue, 1)
  PROVE  /\ DOMAIN queue' = 1 .. Len(queue) - 1
         /\ Len(queue') = Len(queue) - 1
         /\ \A k \in DOMAIN queue' : k + 1 \in DOMAIN queue /\ queue'[k] = queue[k + 1]
<1>1. Len(queue) \in Nat /\ DOMAIN queue = 1 .. Len(queue)  BY OpsOfQueue
<1>2. /\ DOMAIN queue' = 1 .. Len(queue) - 1
      /\ Len(queue') = Len(queue) - 1
      /\ \A k \in DOMAIN queue' : queue'[k] = queue[IF k < 1 THEN k ELSE k + 1]
  BY Unqueued
<1>3. \A k \in DOMAIN queue' : ~ (k < 1) /\ k + 1 \in DOMAIN queue  BY <1>1, <1>2
<1> QED  BY <1>2, <1>3

LEMMA OrderEngine ==
  ASSUME TypeInv, FenceInv, OrderInv, QueuePresents, Engine
  PROVE  OrderInv'
<1> USE DEF OrderInv
<1>o. /\ Len(queue) \in Nat /\ DOMAIN queue = 1 .. Len(queue)
      /\ \A i \in DOMAIN queue : queue[i].does = "render" => queue[i] \in RenderOps
      /\ \A i \in DOMAIN queue : queue[i].does # "render" => queue[i] \in PresentOps
  BY OpsOfQueue
<1>k. \A j \in DOMAIN queue : queue[j].does \in {"render", "present"}
  BY <1>o DEF RenderOps, PresentOps
<1>b. dropped \in BOOLEAN /\ fence \in BOOLEAN /\ rendered \in {"clear", "set"}  BY DEF TypeInv
<1>i. UNCHANGED <<pc, caps, frame, cmd, dropped>>
  BY DEF Engine, ImageReady, RenderBegins, RenderDraws, RenderEnds, PresentStarts, Refresh, program
<1>j. Images' = Images  BY <1>i DEF Images
<1>1. CASE ImageReady
  <2>1. /\ UNCHANGED <<rendered, queue, screen, content>>
        /\ acquired[1] = "pending" /\ acquired' = <<"set", 0>>
        /\ reading' = reading \ {acquired[2]}
    BY <1>1 DEF ImageReady
  <2>2. Rendering' = Rendering /\ Due' = Due  BY <2>1 DEF Rendering, Due
  <2>3. Busy' = Busy  BY <1>i, <1>j, <2>2 DEF Busy, At
  <2>4. QueueInv'  BY <1>i, <2>1, <2>2 DEF QueueInv, At
  <2>5. RenderedInv'  BY <1>i, <2>1 DEF RenderedInv, At
  <2>6. AcquiredInv'  BY <1>i, <2>1 DEF AcquiredInv, At
  <2>7. FrameInv'  BY <1>i, <2>1, <2>2 DEF FrameInv
  <2>8. At("record") => ~ Rendering  BY <1>b DEF FenceInv, At
  <2>9. \A i \in Busy : i = acquired[2]  BY <2>1, <2>8 DEF Busy, AcquiredInv, At
  <2>10. ImageInv'  BY <1>i, <2>1, <2>2, <2>3, <2>9 DEF ImageInv, At
  <2> QED  BY <2>4, <2>5, <2>6, <2>7, <2>10
<1>2. CASE Refresh
  <2>1. screen # <<>>
    <3>1. caps[1] \in Nat \ {0}  BY SurfacesAssumption DEF TypeInv
    <3> QED  BY <1>2, <3>1 DEF Refresh
  <2>2. /\ UNCHANGED <<rendered, queue, acquired, content>>
        /\ screen' = Tail(screen) /\ reading' = reading \cup {Head(screen).image}
    BY <1>2 DEF Refresh, sync
  <2>3. screen \in Seq(Shown) /\ Len(screen) \in Nat /\ DOMAIN screen = 1 .. Len(screen)
        /\ 1 \in DOMAIN screen /\ Head(screen) = screen[1]
    BY <2>1 DEF TypeInv
  <2>4. DOMAIN screen' = 1 .. Len(screen) - 1
    <3>1. Tail(screen) \in Seq(Shown) /\ Len(Tail(screen)) = Len(screen) - 1
      BY <2>1, <2>3, HeadTailProperties
    <3> QED  BY <2>2, <3>1, LenProperties
  <2>5. \A k \in DOMAIN screen' : k + 1 \in DOMAIN screen /\ screen'[k] = screen[k + 1]
    BY <2>1, <2>2, <2>3, <2>4, HeadTailProperties
  <2>6. Rendering' = Rendering /\ Due' = Due  BY <2>2 DEF Rendering, Due
  <2>7. Busy' = Busy  BY <1>i, <1>j, <2>6 DEF Busy, At
  <2>8. QueueInv'  BY <1>i, <2>2, <2>6 DEF QueueInv, At
  <2>9. RenderedInv'  BY <1>i, <2>2 DEF RenderedInv, At
  <2>10. AcquiredInv'  BY <1>i, <2>2 DEF AcquiredInv, At
  <2>11. FrameInv'
    <3>1. \A k, l \in DOMAIN screen' : k < l => screen'[k].frame < screen'[l].frame
      <4> SUFFICES ASSUME NEW k \in DOMAIN screen', NEW l \in DOMAIN screen', k < l
                   PROVE  screen'[k].frame < screen'[l].frame
        OBVIOUS
      <4>1. k + 1 < l + 1  BY <2>3, <2>4
      <4> QED  BY <2>5, <4>1 DEF FrameInv
    <3> QED  BY <1>i, <2>2, <2>5, <2>6, <3>1 DEF FrameInv
  <2>12. ImageInv'  BY <1>i, <2>2, <2>3, <2>5, <2>6, <2>7 DEF ImageInv, At
  <2> QED  BY <2>8, <2>9, <2>10, <2>11, <2>12
<1>3. ASSUME NEW i \in DOMAIN queue, NEW stage \in Stages, queue[i].does = "render",
             queue' = [queue EXCEPT ![i].stage = stage],
             UNCHANGED <<rendered, screen, reading>>,
             \/ /\ queue[i].stage = "queued" /\ stage = "begun" /\ acquired' = acquired
                /\ content' = [content EXCEPT ![cmd.image] = 0]
             \/ stage = "drawing" /\ content' = content /\ acquired' = <<"clear", 0>>
                /\ acquired[1] = "set"
      PROVE  OrderInv'
  <2>4. /\ DOMAIN queue' = DOMAIN queue /\ Len(queue') = Len(queue)
        /\ \A k \in DOMAIN queue : k # i => queue'[k] = queue[k]
        /\ queue'[i].does = "render" /\ queue'[i].image = queue[i].image
        /\ queue'[i].stage = stage
    BY <1>3, Begun
  <2>5. Rendering /\ Rendering' /\ ~ dropped /\ pc[1] \notin {"record", "submit"}
    BY <1>b, <1>3, <2>4 DEF Rendering, FenceInv, At
  <2>6. \A k \in DOMAIN queue : /\ queue'[k].does = queue[k].does
                                /\ queue'[k].image = queue[k].image
                                /\ queue[k].does = "present" => queue'[k] = queue[k]
    BY <1>3, <2>4
  <2>7. \A k \in DOMAIN queue : queue[k].does = "render" => k = i  BY <1>3 DEF FenceInv
  <2>8. Len(queue) > 0 => 1 \in DOMAIN queue  BY <1>o
  <2>9. Due' <=> Due  BY <1>3, <2>4, <2>6, <2>8 DEF Due
  <2>10. Busy' = Busy  BY <1>i, <1>j, <2>5 DEF Busy, At
  <2>11. QueueInv'
    <3>1. ~ At("present") => /\ i + 1 \in DOMAIN queue /\ i + 1 # i
                             /\ queue'[i + 1] = queue[i + 1]
      BY <1>o, <1>3, <2>4 DEF QueueInv
    <3> QED  BY <1>i, <1>3, <2>4, <2>5, <2>6, <2>7, <3>1 DEF QueueInv, At
  <2>12. RenderedInv'  BY <1>i, <1>3, <2>4, <2>6, <2>8 DEF RenderedInv, At
  <2>13. AcquiredInv'
    <3>1. (\A k \in DOMAIN queue' : queue'[k].does = "render" => queue'[k].stage = "drawing")
            <=> stage = "drawing"
      BY <1>3, <2>4, <2>6, <2>7
    <3>2. ~ (acquired[1] = "clear") \/ queue[i].stage = "drawing"  BY <1>3 DEF AcquiredInv
    <3> QED  BY <1>i, <1>3, <2>5, <3>1, <3>2 DEF AcquiredInv, At
  <2>14. FrameInv'  BY <1>i, <1>3, <2>4, <2>5, <2>6, <2>8, <2>9 DEF FrameInv, Due
  <2>15. ImageInv'
    <3>1. acquired'[1] = acquired[1] \/ acquired[1] # "pending"  BY <1>3
    <3>2. cmd.image \in Images /\ cmd.image \in Busy
      <4>1. cmd.image = queue[i].image  BY <1>3 DEF QueueInv
      <4> QED  BY <2>5, <4>1, FramesAndImages DEF Busy
    <3>3. \A x \in Images : x \notin Busy => content'[x] = content[x]
      BY <1>3, <3>2 DEF TypeInv
    <3>4. /\ \A k \in DOMAIN screen : screen[k].image \in Images
          /\ Due => queue[1].image \in Images
      BY <2>8, FramesAndImages DEF Due
    <3> QED  BY <1>i, <1>3, <2>5, <2>6, <2>8, <2>9, <2>10, <3>1, <3>3, <3>4 DEF ImageInv, Due, At
  <2> QED  BY <2>11, <2>12, <2>13, <2>14, <2>15
<1>3a. CASE RenderBegins
  BY <1>3, <1>3a DEF RenderBegins, Stages, sync
<1>3b. CASE RenderDraws
  <2>1. PICK i \in DOMAIN queue :
          /\ queue[i].does = "render"
          /\ queue' = [queue EXCEPT ![i].stage = "drawing"]
          /\ queue[i].awaits = "acquired" => acquired[1] = "set"
          /\ acquired' = IF queue[i].awaits = "acquired" THEN <<"clear", 0>> ELSE acquired
    BY <1>3b DEF RenderDraws
  <2>2. UNCHANGED <<rendered, screen, reading, content>>  BY <1>3b DEF RenderDraws, engine
  <2>3. queue[i].awaits = "acquired"  BY <1>o, <2>1 DEF RenderOps
  <2> QED  BY <1>3, <2>1, <2>2, <2>3 DEF Stages
<1>4. CASE RenderEnds
  <2>1. PICK i \in DOMAIN queue :
          /\ queue[i].does = "render" /\ queue[i].stage = "drawing" /\ ~ Overtakes(i)
          /\ content' = [content EXCEPT ![cmd.image] = cmd.frame]
          /\ rendered' = IF queue[i].signals THEN "set" ELSE rendered
          /\ queue' = RemoveAt(queue, i)
    BY <1>4 DEF RenderEnds
  <2>2. UNCHANGED <<acquired, screen, reading>>  BY <1>4 DEF RenderEnds
  <2>3. i = 1  BY <2>1, FirstIsDone
  <2>4. /\ DOMAIN queue' = 1 .. Len(queue) - 1
        /\ Len(queue') = Len(queue) - 1
        /\ \A k \in DOMAIN queue' : queue'[k] = queue[k + 1]
    BY <2>1, <2>3, FirstTaken
  <2>5. rendered' = "set"  BY <1>o, <2>1 DEF RenderOps
  <2>6. /\ Rendering /\ ~ dropped /\ pc[1] \notin {"acquire", "record", "submit", "close", "closed"}
    BY <1>b, <2>1 DEF Rendering, FenceInv, At
  <2>7. \A k \in DOMAIN queue' : queue'[k].does = "present"
    BY <1>o, <1>k, <2>1, <2>3, <2>4 DEF FenceInv
  <2>8. ~ Rendering'  BY <2>7 DEF Rendering
  <2>9. /\ At("present") => Len(queue') = 0
        /\ ~ At("present") => /\ Len(queue') = 1 /\ 1 \in DOMAIN queue'
                              /\ queue'[1].image = cmd.image /\ queue'[1].frame = cmd.frame
    <3>1. queue[1].does = "render" /\ 1 \in DOMAIN queue  BY <2>1, <2>3
    <3>2. CASE At("present")
      <4>1. Len(queue) = 1  BY <3>1, <3>2 DEF QueueInv
      <4> QED  BY <2>4, <3>2, <4>1
    <3>3. CASE ~ At("present")
      <4>1. Len(queue) = 2 /\ queue[2].image = cmd.image /\ queue[2].frame = cmd.frame
        <5>1. Len(queue) = 1 + 1 /\ queue[1 + 1].image = cmd.image /\ queue[1 + 1].frame = cmd.frame
          BY <3>1, <3>3, Zenon DEF QueueInv
        <5> QED  BY <5>1
      <4>2. 1 \in DOMAIN queue' /\ queue'[1] = queue[2]  BY <2>4, <4>1
      <4> QED  BY <2>4, <3>3, <4>1, <4>2
    <3> QED  BY <3>2, <3>3
  <2>10. cmd.image \in Images /\ cmd.image \in Busy /\ content'[cmd.image] = cmd.frame
         /\ \A x \in Images : x # cmd.image => content'[x] = content[x]
    <3>1. cmd.image = queue[1].image /\ cmd.image \in Images
      BY <1>o, <2>1, <2>3, FramesAndImages DEF QueueInv
    <3> QED  BY <2>1, <2>6, <3>1 DEF TypeInv, Busy
  <2>11. Busy' \subseteq Busy /\ (~ At("present") => Busy' = {})
    BY <1>i, <1>j, <2>6, <2>8 DEF Busy, At
  <2>12. QueueInv'
    <3>1. \A k \in DOMAIN queue' : queue'[k].does # "render"  BY <2>7
    <3>2. pc' = pc /\ dropped' = dropped  BY <1>i
    <3>3. CASE pc[1] = "present"
      <4>1. Len(queue') = 0  BY <2>9, <3>3 DEF At
      <4> QED  BY <2>6, <2>8, <3>1, <3>2, <3>3, <4>1 DEF QueueInv, At
    <3>4. CASE pc[1] # "present"
      <4>1. Len(queue') = 1  BY <2>9, <3>4 DEF At
      <4> QED  BY <2>6, <2>8, <3>1, <3>2, <3>4, <4>1 DEF QueueInv, At
    <3> QED  BY <3>3, <3>4
  <2>13. RenderedInv'  BY <1>i, <2>5, <2>6, <2>7, <2>9 DEF RenderedInv, At
  <2>14. AcquiredInv'  BY <1>i, <1>o, <2>1, <2>2, <2>6, <2>7 DEF AcquiredInv, FenceInv, At
  <2>15. FrameInv'
    <3>1. \A k \in DOMAIN queue' : k = 1 /\ queue'[k].frame = cmd.frame /\ ~ At("present")
      BY <1>o, <2>4, <2>9
    <3>2. \A k \in DOMAIN screen : screen[k].frame < cmd.frame  BY <2>6 DEF FrameInv
    <3>3. Len(queue') > 0 => 1 \in DOMAIN queue' /\ ~ At("present")  BY <1>o, <2>4, <2>9
    <3>4. Due' => \A k \in DOMAIN screen : screen[k].frame < queue'[1].frame
      BY <3>1, <3>2, <3>3 DEF Due
    <3> QED  BY <1>i, <2>2, <2>6, <2>8, <3>1, <3>3, <3>4, FramesAndImages DEF FrameInv, At
  <2>16. ImageInv'
    <3>1. \A k \in DOMAIN screen : /\ screen[k].image \in Images /\ screen[k].image # cmd.image
                                   /\ content'[screen[k].image] = screen[k].frame
      BY <2>10, FramesAndImages DEF ImageInv
    <3>2. Due' => ~ At("present")  BY <2>9 DEF Due
    <3> QED  BY <1>i, <2>2, <2>8, <2>9, <2>10, <2>11, <3>1, <3>2 DEF ImageInv, At
  <2> QED  BY <2>12, <2>13, <2>14, <2>15, <2>16
<1>5. CASE PresentStarts
  <2>1. PICK i \in DOMAIN queue :
          /\ queue[i].does = "present" /\ ~ Overtakes(i)
          /\ queue[i].awaits = "rendered" => rendered = "set"
          /\ rendered' = IF queue[i].awaits = "rendered" THEN "clear" ELSE rendered
          /\ screen' = IF swapchain = "usable"
                       THEN Append(screen, [image |-> queue[i].image, frame |-> queue[i].frame])
                       ELSE screen
          /\ queue' = RemoveAt(queue, i)
    BY <1>5 DEF PresentStarts
  <2>2. UNCHANGED <<acquired, reading, content>>  BY <1>5 DEF PresentStarts
  <2>3. queue[i].awaits = "rendered" /\ queue[i] \in PresentOps  BY <1>o, <2>1 DEF PresentOps
  <2>4. rendered = "set" /\ rendered' = "clear" /\ i = 1  BY <2>1, <2>3, FirstIsDone
  <2>5. /\ DOMAIN queue' = 1 .. Len(queue) - 1
        /\ Len(queue') = Len(queue) - 1
        /\ \A k \in DOMAIN queue' : k + 1 \in DOMAIN queue /\ queue'[k] = queue[k + 1]
    BY <2>1, <2>4, FirstTaken
  <2>6. Due /\ 1 \in DOMAIN queue /\ queue[1].does = "present" /\ ~ Due'
    BY <1>o, <2>1, <2>4 DEF Due
  <2>7. \A k \in DOMAIN queue : queue[k].does = "render" => k - 1 \in DOMAIN queue' /\ k = (k - 1) + 1
    BY <1>o, <2>5, <2>6
  <2>8. Rendering' <=> Rendering
    <3>1. Rendering' => Rendering  BY <2>5 DEF Rendering
    <3>2. ASSUME Rendering  PROVE Rendering'
      <4>1. PICK k \in DOMAIN queue : queue[k].does = "render"  BY <3>2 DEF Rendering
      <4>2. queue'[k - 1] = queue[k]  BY <2>5, <2>7, <4>1
      <4> QED  BY <2>7, <4>1, <4>2 DEF Rendering
    <3> QED  BY <3>1, <3>2
  <2>9. Busy' = Busy  BY <1>i, <1>j, <2>8 DEF Busy, At
  <2>10. dropped /\ ~ At("present") => Len(queue) = 2  BY <1>o, <2>4 DEF RenderedInv
  <2>11. QueueInv'
    <3>1. ASSUME NEW k \in DOMAIN queue', queue'[k].does = "render"
          PROVE  /\ k <= 2 /\ queue'[k].image = cmd.image
                 /\ At("present") => Len(queue') = k
                 /\ ~ At("present") => /\ Len(queue') = k + 1
                                       /\ queue'[k + 1].image = cmd.image
                                       /\ queue'[k + 1].frame = cmd.frame
      <4>1. k + 1 \in DOMAIN queue /\ queue[k + 1].does = "render" /\ queue'[k] = queue[k + 1]
        BY <2>5, <3>1
      <4>2. k + 1 <= 2 /\ k = 1  BY <1>o, <2>5, <4>1 DEF QueueInv
      <4>3. ~ At("present") => Len(queue) = 3 /\ queue'[2] = queue[3]
        BY <1>o, <2>5, <4>1, <4>2 DEF QueueInv
      <4> QED  BY <1>o, <2>5, <4>1, <4>2, <4>3 DEF QueueInv
    <3>2. ~ Rendering => Len(queue') <= IF dropped THEN 2 ELSE 1  BY <1>o, <2>5 DEF QueueInv
    <3>3. ~ Rendering /\ At("present") => Len(queue') <= IF dropped THEN 1 ELSE 0
      BY <1>o, <2>5 DEF QueueInv
    <3>4. pc[1] \notin {"close", "closed"}  BY <1>o, <2>6 DEF QueueInv
    <3>5. dropped /\ ~ At("present") => Len(queue') > 0  BY <2>5, <2>10
    <3> QED  BY <1>i, <2>8, <3>1, <3>2, <3>3, <3>4, <3>5 DEF QueueInv, At
  <2>12. RenderedInv'
    <3>1. Len(queue') = 0 => ~ (At("present") /\ ~ dropped)
      <4>1. Len(queue') = 0 => ~ Rendering  BY <2>5, <2>8 DEF Rendering
      <4> QED  BY <1>o, <2>5, <2>6, <4>1 DEF QueueInv
    <3>2. ASSUME Len(queue') > 0, queue'[1].does = "present"
          PROVE  dropped /\ ~ At("present") /\ Len(queue') # 2
      <4>1. Len(queue) >= 2 /\ queue[2].does = "present"  BY <1>o, <2>5, <3>2
      <4>2. ~ Rendering
        <5>1. \A k \in DOMAIN queue : queue[k].does = "render" => k = 1 \/ k = 2
          BY <1>o DEF QueueInv
        <5> QED  BY <2>6, <4>1, <5>1 DEF Rendering
      <4>3. dropped /\ ~ At("present")  BY <1>o, <4>1, <4>2 DEF QueueInv
      <4>4. Len(queue) = 2  BY <2>10, <4>3, Zenon
      <4>5. Len(queue') = 1  BY <2>5, <4>4
      <4> QED  BY <4>3, <4>5
    <3> QED  BY <1>i, <2>4, <3>1, <3>2 DEF RenderedInv, At
  <2>13. AcquiredInv'
    <3>1. (\A k \in DOMAIN queue' : queue'[k].does = "render" => queue'[k].stage = "drawing")
            <=> \A k \in DOMAIN queue : queue[k].does = "render" => queue[k].stage = "drawing"
      <4>1. ASSUME \A k \in DOMAIN queue' : queue'[k].does = "render" => queue'[k].stage = "drawing",
                   NEW k \in DOMAIN queue, queue[k].does = "render"
            PROVE  queue[k].stage = "drawing"
        <5>1. k - 1 \in DOMAIN queue' /\ queue'[k - 1] = queue[k]  BY <2>5, <2>7, <4>1
        <5> QED  BY <4>1, <5>1
      <4> QED  BY <2>5, <4>1
    <3> QED  BY <1>i, <2>2, <3>1 DEF AcquiredInv, At
  <2>14. \A k \in DOMAIN queue' : queue'[k].does = "present" => queue'[k].frame <= cmd.frame
    BY <2>5 DEF FrameInv
  <2>15. Len(queue') > 0 /\ queue'[1].does = "present"
           => ~ Rendering /\ pc[1] \notin {"submit", "present"}
    <3> SUFFICES ASSUME Len(queue') > 0, queue'[1].does = "present"
                 PROVE  ~ Rendering /\ pc[1] \notin {"submit", "present"}
      OBVIOUS
    <3>1. Len(queue) >= 2 /\ queue[2].does = "present"  BY <1>o, <2>5
    <3>2. ~ Rendering
      <4>1. \A k \in DOMAIN queue : queue[k].does = "render" => k = 1 \/ k = 2
        BY <1>o DEF QueueInv
      <4> QED  BY <2>6, <3>1, <4>1 DEF Rendering
    <3>3. dropped /\ ~ At("present")  BY <1>o, <3>1, <3>2 DEF QueueInv
    <3> QED  BY <3>2, <3>3 DEF QueueInv, At
  <2>16. ~ (At("present") /\ ~ Rendering /\ ~ dropped)  BY <1>o, <2>6 DEF QueueInv
  <2>17. CASE screen' = screen
    <3>1. FrameInv'  BY <1>i, <2>6, <2>8, <2>14, <2>15, <2>17 DEF FrameInv
    <3>2. ImageInv'  BY <1>i, <2>2, <2>6, <2>8, <2>9, <2>16, <2>17 DEF ImageInv, At
    <3> QED  BY <2>11, <2>12, <2>13, <3>1, <3>2
  <2>18. CASE screen' = Append(screen, [image |-> queue[1].image, frame |-> queue[1].frame])
    <3> DEFINE e == [image |-> queue[1].image, frame |-> queue[1].frame]
    <3>1. e \in Shown  BY <2>3, <2>4 DEF PresentOps, Shown
    <3>2. e.image = queue[1].image /\ e.frame = queue[1].frame  OBVIOUS
    <3>3. screen' = Append(screen, e)  BY <2>18
    <3> HIDE DEF e
    <3>4. screen \in Seq(Shown) /\ Len(screen) \in Nat /\ DOMAIN screen = 1 .. Len(screen)
      BY DEF TypeInv
    <3>5. Append(screen, e) \in Seq(Shown) /\ Len(Append(screen, e)) = Len(screen) + 1
      BY <3>1, <3>4, AppendProperties
    <3>6. DOMAIN screen' = 1 .. Len(screen) + 1  BY <3>3, <3>5, LenProperties
    <3>7. /\ \A k \in DOMAIN screen : screen'[k] = screen[k]
          /\ screen'[Len(screen) + 1] = e
      BY <3>1, <3>3, <3>4, AppendProperties
    <3>8. \A k \in DOMAIN screen' : k = Len(screen) + 1 \/ k \in DOMAIN screen  BY <3>4, <3>6
    <3>9. FrameInv'
      <4>1. e.frame <= cmd.frame
            /\ (pc[1] \in {"submit", "present"} \/ Rendering => e.frame < cmd.frame)
        BY <1>o, <2>6, <3>2 DEF FrameInv
      <4>2. \A k \in DOMAIN screen : screen[k].frame < e.frame  BY <2>6, <3>2 DEF FrameInv
      <4>3. \A k \in DOMAIN screen' : screen'[k].frame <= cmd.frame
        BY <3>7, <3>8, <4>1 DEF FrameInv
      <4>4. pc[1] \in {"submit", "present"} \/ Rendering =>
              \A k \in DOMAIN screen' : screen'[k].frame < cmd.frame
        BY <3>7, <3>8, <4>1 DEF FrameInv
      <4>5. \A k, l \in DOMAIN screen' : k < l => screen'[k].frame < screen'[l].frame
        <5> SUFFICES ASSUME NEW k \in DOMAIN screen', NEW l \in DOMAIN screen', k < l
                     PROVE  screen'[k].frame < screen'[l].frame
          OBVIOUS
        <5>1. k \in DOMAIN screen  BY <3>4, <3>6
        <5>2. CASE l = Len(screen) + 1  BY <3>7, <4>2, <5>1, <5>2
        <5>3. CASE l \in DOMAIN screen  BY <3>7, <5>1, <5>3 DEF FrameInv
        <5> QED  BY <3>8, <5>2, <5>3
      <4> QED  BY <1>i, <2>6, <2>8, <2>14, <2>15, <4>3, <4>4, <4>5 DEF FrameInv
    <3>10. ImageInv'
      <4>1. content[e.image] = e.frame /\ e.image \notin Busy  BY <2>6, <3>2 DEF ImageInv
      <4>2. \A k \in DOMAIN screen' : /\ content[screen'[k].image] = screen'[k].frame
                                      /\ screen'[k].image \notin Busy
        BY <3>7, <3>8, <4>1 DEF ImageInv
      <4> QED  BY <1>i, <2>2, <2>6, <2>8, <2>9, <2>16, <4>2 DEF ImageInv, At
    <3> QED  BY <2>11, <2>12, <2>13, <3>9, <3>10
  <2> QED  BY <2>1, <2>4, <2>17, <2>18
<1> QED  BY <1>1, <1>2, <1>3a, <1>3b, <1>4, <1>5 DEF Engine

-----------------------------------------------------------------------------
(* What is made.                                                             *)

\* What open_impl has made before its k-th step.
MadeBefore(k) == {OpenOrder[j] : j \in 1 .. k - 1} \ {x \in {"shader"} : k > 9}

\* What close_impl has left before its k-th step.
LeftBefore(k) == {CloseOrder[j] : j \in k .. 12}

MadeInv ==
    /\ At("open") => pc[2] \in 1 .. 13 /\ made = MadeBefore(pc[2])
    /\ At("failed") => \E k \in 1 .. 13 : made = MadeBefore(k)
    /\ At("close") => pc[2] \in 1 .. 12 /\ made = LeftBefore(pc[2])
    /\ At("closed") => made = {}
    /\ pc[1] \notin {"open", "failed", "close", "closed"} => made = Range(CloseOrder)

LEMMA OpenOrderIs ==
  /\ Len(OpenOrder) = 13
  /\ OpenOrder[1] = "window" /\ OpenOrder[2] = "instance" /\ OpenOrder[3] = "surface"
  /\ OpenOrder[4] = "device" /\ OpenOrder[5] = "swapchain" /\ OpenOrder[6] = "views"
  /\ OpenOrder[7] = "shader" /\ OpenOrder[8] = "layout" /\ OpenOrder[9] = "pipeline"
  /\ OpenOrder[10] = "pool" /\ OpenOrder[11] = "acquired" /\ OpenOrder[12] = "rendered"
  /\ OpenOrder[13] = "inflight"
BY DEF OpenOrder

LEMMA CloseOrderIs ==
  /\ Len(CloseOrder) = 12 /\ DOMAIN CloseOrder = 1 .. 12
  /\ CloseOrder[1] = "inflight" /\ CloseOrder[2] = "acquired" /\ CloseOrder[3] = "rendered"
  /\ CloseOrder[4] = "pool" /\ CloseOrder[5] = "pipeline" /\ CloseOrder[6] = "layout"
  /\ CloseOrder[7] = "views" /\ CloseOrder[8] = "swapchain" /\ CloseOrder[9] = "device"
  /\ CloseOrder[10] = "surface" /\ CloseOrder[11] = "instance" /\ CloseOrder[12] = "window"
BY DEF CloseOrder

\* Nothing is destroyed twice.
LEMMA CloseOrderDiffers == \A i, j \in 1 .. 12 : CloseOrder[i] = CloseOrder[j] => i = j
<1> SUFFICES ASSUME NEW i \in 1 .. 12, NEW j \in 1 .. 12, CloseOrder[i] = CloseOrder[j]  PROVE i = j
  OBVIOUS
<1>1. \A k \in 1 .. 12 : \/ k = 1 \/ k = 2 \/ k = 3 \/ k = 4 \/ k = 5 \/ k = 6
                         \/ k = 7 \/ k = 8 \/ k = 9 \/ k = 10 \/ k = 11 \/ k = 12
  OBVIOUS
<1> QED  BY <1>1, CloseOrderIs

\* What a step of opening adds.
LEMMA MadeGrows ==
  ASSUME NEW k \in 1 .. 13
  PROVE  (MadeBefore(k) \cup {OpenOrder[k]}) \ {x \in {"shader"} : OpenOrder[k] = "pipeline"}
           = MadeBefore(k + 1)
<1>1. \/ k = 1 \/ k = 2 \/ k = 3 \/ k = 4 \/ k = 5 \/ k = 6 \/ k = 7 \/ k = 8 \/ k = 9 \/ k = 10
      \/ k = 11 \/ k = 12 \/ k = 13
  OBVIOUS
<1>2. /\ OpenOrder[k] = "pipeline" <=> k = 9
      /\ k > 9 => OpenOrder[k] # "shader"
  BY <1>1, OpenOrderIs
<1>3. {OpenOrder[j] : j \in 1 .. (k + 1) - 1} = {OpenOrder[j] : j \in 1 .. k - 1} \cup {OpenOrder[k]}
  <2>1. 1 .. (k + 1) - 1 = (1 .. k - 1) \cup {k}  OBVIOUS
  <2> QED  BY <2>1
<1>4. k + 1 > 9 <=> k > 9 \/ k = 9  OBVIOUS
<1>5. ~ (k > 9 /\ k = 9)  OBVIOUS
<1> QED  BY <1>2, <1>3, <1>4, <1>5, Zenon DEF MadeBefore

\* What a step of closing leaves.
LEMMA LeftShrinks ==
  ASSUME NEW k \in 1 .. 12
  PROVE  LeftBefore(k) \ {CloseOrder[k]} = LeftBefore(k + 1)
<1>1. k .. 12 = {k} \cup (k + 1 .. 12)  OBVIOUS
<1>2. \A j \in k + 1 .. 12 : CloseOrder[j] # CloseOrder[k]
  <2> SUFFICES ASSUME NEW j \in k + 1 .. 12  PROVE CloseOrder[j] # CloseOrder[k]
    OBVIOUS
  <2>1. j \in 1 .. 12 /\ j # k  OBVIOUS
  <2> QED  BY <2>1, CloseOrderDiffers
<1> QED  BY <1>1, <1>2 DEF LeftBefore

\* A window that was opened has what close destroys.
LEMMA MadeIsLeft ==
  /\ MadeBefore(1) = {}
  /\ MadeBefore(14) = Range(CloseOrder)
  /\ LeftBefore(1) = Range(CloseOrder)
  /\ LeftBefore(13) = {}
<1>1. MadeBefore(1) = {}
  <2>1. 1 .. 1 - 1 = {}  OBVIOUS
  <2> QED  BY <2>1 DEF MadeBefore
<1>2. LeftBefore(1) = Range(CloseOrder)  BY CloseOrderIs DEF LeftBefore, Range
<1>3. LeftBefore(13) = {}
  <2>1. 13 .. 12 = {}  OBVIOUS
  <2> QED  BY <2>1 DEF LeftBefore
<1>4. 1 .. 13 = {1, 2, 3, 4, 5, 6, 7, 8, 9, 10, 11, 12, 13}
      /\ 1 .. 12 = {1, 2, 3, 4, 5, 6, 7, 8, 9, 10, 11, 12}
      /\ 14 - 1 = 13 /\ 14 > 9
  OBVIOUS
<1>5. {OpenOrder[j] : j \in 1 .. 13}
        = {"window", "instance", "surface", "device", "swapchain", "views", "shader", "layout",
           "pipeline", "pool", "acquired", "rendered", "inflight"}
  BY <1>4, OpenOrderIs
<1>6. {CloseOrder[j] : j \in 1 .. 12}
        = {"window", "instance", "surface", "device", "swapchain", "views", "layout",
           "pipeline", "pool", "acquired", "rendered", "inflight"}
  BY <1>4, CloseOrderIs
<1>7. MadeBefore(14) = {OpenOrder[j] : j \in 1 .. 13} \ {"shader"}  BY <1>4 DEF MadeBefore
<1>8. Range(CloseOrder) = {CloseOrder[j] : j \in 1 .. 12}  BY CloseOrderIs DEF Range
<1>9. MadeBefore(14) = Range(CloseOrder)  BY <1>5, <1>6, <1>7, <1>8
<1> QED  BY <1>1, <1>2, <1>3, <1>9

\* Whatever is made was opened, and what it was made from is there: the order of opening.
LEMMA MadeBeforeClosed ==
  ASSUME NEW k \in 1 .. 14
  PROVE  /\ MadeBefore(k) \subseteq Range(OpenOrder)
         /\ \A o \in MadeBefore(k) : Parents(o) \subseteq MadeBefore(k)
<1>1. MadeBefore(k) \subseteq Range(OpenOrder)
  <2>1. DOMAIN OpenOrder = 1 .. 13  BY DEF OpenOrder
  <2>2. 1 .. k - 1 \subseteq 1 .. 13  OBVIOUS
  <2> QED  BY <2>1, <2>2 DEF MadeBefore, Range
<1>2. ASSUME NEW j \in 1 .. 13
      PROVE  \A p \in Parents(OpenOrder[j]) : p # "shader" /\ \E i \in 1 .. j - 1 : p = OpenOrder[i]
  <2>1. \/ j = 1 \/ j = 2 \/ j = 3 \/ j = 4 \/ j = 5 \/ j = 6 \/ j = 7 \/ j = 8 \/ j = 9 \/ j = 10
        \/ j = 11 \/ j = 12 \/ j = 13
    OBVIOUS
  <2>2. /\ j = 1 \/ j = 2 => Parents(OpenOrder[j]) = {}
        /\ j = 3 => Parents(OpenOrder[j]) = {OpenOrder[2], OpenOrder[1]}
        /\ j = 4 => Parents(OpenOrder[j]) = {OpenOrder[2]}
        /\ j = 5 => Parents(OpenOrder[j]) = {OpenOrder[4], OpenOrder[3]}
        /\ j = 6 => Parents(OpenOrder[j]) = {OpenOrder[4], OpenOrder[5]}
        /\ j > 6 => Parents(OpenOrder[j]) = {OpenOrder[4]}
    BY <2>1, OpenOrderIs DEF Parents
  <2>3. \A i \in 1 .. 5 : OpenOrder[i] # "shader"
    <3>1. \A i \in 1 .. 5 : i = 1 \/ i = 2 \/ i = 3 \/ i = 4 \/ i = 5  OBVIOUS
    <3> QED  BY <3>1, OpenOrderIs
  <2>4. /\ j >= 3 => 1 \in 1 .. j - 1 /\ 2 \in 1 .. j - 1
        /\ j >= 5 => 3 \in 1 .. j - 1 /\ 4 \in 1 .. j - 1
        /\ j >= 6 => 5 \in 1 .. j - 1
    OBVIOUS
  <2> QED  BY <2>1, <2>2, <2>3, <2>4
<1>3. ASSUME NEW o \in MadeBefore(k), NEW p \in Parents(o)  PROVE p \in MadeBefore(k)
  <2>1. PICK j \in 1 .. k - 1 : o = OpenOrder[j]  BY DEF MadeBefore
  <2>2. j \in 1 .. 13 /\ 1 .. j - 1 \subseteq 1 .. k - 1  OBVIOUS
  <2> QED  BY <1>2, <2>1, <2>2 DEF MadeBefore
<1> QED  BY <1>1, <1>3

\* And the order of closing.
LEMMA LeftBeforeClosed ==
  ASSUME NEW k \in 1 .. 13
  PROVE  /\ LeftBefore(k) \subseteq Range(CloseOrder)
         /\ \A o \in LeftBefore(k) : Parents(o) \subseteq LeftBefore(k)
<1>1. LeftBefore(k) \subseteq Range(CloseOrder)
  <2>1. k .. 12 \subseteq 1 .. 12  OBVIOUS
  <2> QED  BY <2>1, CloseOrderIs DEF LeftBefore, Range
<1>2. ASSUME NEW j \in 1 .. 12
      PROVE  \A p \in Parents(CloseOrder[j]) : \E i \in j + 1 .. 12 : p = CloseOrder[i]
  <2>1. \/ j = 1 \/ j = 2 \/ j = 3 \/ j = 4 \/ j = 5 \/ j = 6 \/ j = 7 \/ j = 8 \/ j = 9 \/ j = 10
        \/ j = 11 \/ j = 12
    OBVIOUS
  <2>2. /\ j > 10 => Parents(CloseOrder[j]) = {}
        /\ j = 10 => Parents(CloseOrder[j]) = {CloseOrder[11], CloseOrder[12]}
        /\ j = 9 => Parents(CloseOrder[j]) = {CloseOrder[11]}
        /\ j = 8 => Parents(CloseOrder[j]) = {CloseOrder[9], CloseOrder[10]}
        /\ j = 7 => Parents(CloseOrder[j]) = {CloseOrder[9], CloseOrder[8]}
        /\ j < 7 => Parents(CloseOrder[j]) = {CloseOrder[9]}
    BY <2>1, CloseOrderIs DEF Parents
  <2>3. /\ j <= 10 => 11 \in j + 1 .. 12 /\ 12 \in j + 1 .. 12
        /\ j <= 8 => 9 \in j + 1 .. 12 /\ 10 \in j + 1 .. 12
        /\ j <= 7 => 8 \in j + 1 .. 12
    OBVIOUS
  <2> QED  BY <2>1, <2>2, <2>3
<1>3. ASSUME NEW o \in LeftBefore(k), NEW p \in Parents(o)  PROVE p \in LeftBefore(k)
  <2>1. PICK j \in k .. 12 : o = CloseOrder[j]  BY DEF LeftBefore
  <2>2. j \in 1 .. 12 /\ j + 1 .. 12 \subseteq k .. 12  OBVIOUS
  <2> QED  BY <1>2, <2>1, <2>2 DEF LeftBefore
<1> QED  BY <1>1, <1>3

\* Every step keeps what is made at each point of the program.
LEMMA MadeKept == TypeInv /\ MadeInv /\ [Next]_vars => MadeInv'
<1> SUFFICES ASSUME TypeInv, MadeInv, [Next]_vars  PROVE MadeInv'
  OBVIOUS
<1>1. CASE OpenStep
  <2>1. pc[1] = "open" /\ pc[2] \in 1 .. 13 /\ made = MadeBefore(pc[2])
    BY <1>1 DEF OpenStep, MadeInv, At
  <2>2. made' = MadeBefore(pc[2] + 1)  BY <1>1, <2>1, MadeGrows DEF OpenStep
  <2>3. CASE pc[2] = 13
    <3>1. pc' = <<"loop", 1>> /\ made' = Range(CloseOrder)
      BY <1>1, <2>2, <2>3, MadeIsLeft, OpenOrderIs DEF OpenStep, Go
    <3> QED  BY <3>1 DEF MadeInv, At
  <2>4. CASE pc[2] # 13
    <3>1. pc' = <<"open", pc[2] + 1>> /\ pc[2] + 1 \in 1 .. 13
      BY <1>1, <2>1, <2>4, OpenOrderIs DEF OpenStep
    <3> QED  BY <2>2, <3>1 DEF MadeInv, At, MadeBefore
  <2> QED  BY <2>3, <2>4
<1>2. CASE OpenFails
  <2>1. pc[1] = "open" /\ pc'[1] = "failed" /\ made' = made
    BY <1>2 DEF OpenFails, OnlyGo, Go, At, program
  <2> QED  BY <2>1 DEF MadeInv, At, MadeBefore
<1>3. CASE CloseWaits
  <2>1. pc[1] = "idle" /\ pc' = <<"close", 1>> /\ made' = made
    BY <1>3 DEF CloseWaits, OnlyGo, Go, At, program
  <2>2. made = LeftBefore(1)  BY <2>1, MadeIsLeft DEF MadeInv
  <2> QED  BY <2>1, <2>2 DEF MadeInv, At, LeftBefore
<1>4. CASE CloseStep
  <2>1. pc[1] = "close" /\ pc[2] \in 1 .. 12 /\ made = LeftBefore(pc[2])
    BY <1>4 DEF CloseStep, MadeInv, At
  <2>2. made' = LeftBefore(pc[2] + 1)  BY <1>4, <2>1, LeftShrinks DEF CloseStep
  <2>3. CASE pc[2] = 12
    <3>1. pc' = <<"closed", 1>> /\ made' = {}
      BY <1>4, <2>2, <2>3, MadeIsLeft, CloseOrderIs DEF CloseStep, Go
    <3> QED  BY <3>1 DEF MadeInv, At
  <2>4. CASE pc[2] # 12
    <3>1. pc' = <<"close", pc[2] + 1>> /\ pc[2] + 1 \in 1 .. 12
      BY <1>4, <2>1, <2>4, CloseOrderIs DEF CloseStep
    <3> QED  BY <2>2, <3>1 DEF MadeInv, At, LeftBefore
  <2> QED  BY <2>3, <2>4
<1>5. CASE \/ DrawBegin \/ DrawWait \/ DrawAcquire \/ DrawOutdated \/ DrawFails
           \/ DrawRecord \/ DrawSubmit \/ DrawPresent \/ LoopEnds
  <2>1. /\ pc[1] \notin {"open", "failed", "close", "closed"} /\ made' = made
        /\ pc'[1] \notin {"open", "failed", "close", "closed"}
    BY <1>5 DEF DrawBegin, DrawWait, DrawAcquire, DrawOutdated, DrawFails, DrawRecord, DrawSubmit,
                DrawPresent, LoopEnds, OnlyGo, Go, At, program
  <2> QED  BY <2>1 DEF MadeInv, At, Range, CloseOrder
<1>6. CASE Surroundings \/ Engine \/ UNCHANGED vars
  <2>1. pc' = pc /\ made' = made
    BY <1>6 DEF Surroundings, UserCloses, Outdates, Engine, ImageReady, RenderBegins, RenderDraws, RenderEnds,
                PresentStarts, Refresh, vars, program
  <2> QED  BY <2>1 DEF MadeInv, At, MadeBefore, LeftBefore, Range, CloseOrder
<1> QED  BY <1>1, <1>2, <1>3, <1>4, <1>5, <1>6 DEF Next, Program, Proceeds

-----------------------------------------------------------------------------
(* The theorems.                                                             *)

BaseInv == TypeInv /\ FenceInv /\ MadeInv

LEMMA BaseStarts == Init => BaseInv
<1> SUFFICES ASSUME Init  PROVE BaseInv
  OBVIOUS
<1>1. pc = <<"open", 1>> /\ queue = <<>> /\ screen = <<>>  BY DEF Init
<1>2. 0 \in 0 .. Frames  BY FramesNat
<1>3. TypeInv
  <2>1. pc \in Steps \X Nat /\ pc[1] = "open"  BY <1>1 DEF Steps
  <2>2. queue \in Seq(RenderOps \cup PresentOps) /\ screen \in Seq(Shown)  BY <1>1
  <2> QED  BY <1>2, <2>1, <2>2 DEF Init, TypeInv, At, FenceSignaled
<1>4. FenceInv
  <2>1. DOMAIN queue = {}  BY <1>1
  <2> QED  BY <1>1, <2>1 DEF Init, FenceInv, FenceSignaled, Rendering, At
<1>5. MadeInv  BY <1>1, MadeIsLeft DEF Init, MadeInv, At
<1> QED  BY <1>3, <1>4, <1>5 DEF BaseInv

LEMMA BaseAlways == Spec => []BaseInv
<1>1. BaseInv /\ [Next]_vars => BaseInv'  BY Typing, FenceKept, MadeKept DEF BaseInv
<1> QED  BY BaseStarts, <1>1, PTL DEF Spec

\* Types for every surface and any number of frames, and never more images than the surface allows
\* (window.cpp:150-151).
THEOREM WindowTypes == Spec => []TypeOK
<1>1. ASSUME TypeInv, MadeInv  PROVE TypeOK
  <2>1. caps[1] \in Nat \ {0} /\ caps[2] \in Nat  BY <1>1, SurfacesAssumption DEF TypeInv
  <2>2. caps[2] # 0 => img_count(caps) <= caps[2]  BY <2>1 DEF img_count
  <2>3. made \subseteq Range(OpenOrder)
    <3>1. Range(CloseOrder) \subseteq Range(OpenOrder)
      <4>1. 14 \in 1 .. 14  OBVIOUS
      <4> QED  BY <4>1, MadeIsLeft, MadeBeforeClosed
    <3>2. \A k \in 1 .. 13 : MadeBefore(k) \subseteq Range(OpenOrder)
      <4>1. \A k \in 1 .. 13 : k \in 1 .. 14  OBVIOUS
      <4> QED  BY <4>1, MadeBeforeClosed
    <3>3. \A k \in 1 .. 12 : LeftBefore(k) \subseteq Range(OpenOrder)
      <4>1. \A k \in 1 .. 12 : k \in 1 .. 13  OBVIOUS
      <4> QED  BY <3>1, <4>1, LeftBeforeClosed
    <3> QED  BY <1>1, <3>1, <3>2, <3>3 DEF MadeInv, At
  <2>4. \A op \in Presents : op.image \in Images  BY <1>1, FramesAndImages DEF Presents, Range
  <2>5. \A s \in Range(screen) : s.image \in Images  BY <1>1, FramesAndImages DEF Range
  <2> QED  BY <1>1, <2>2, <2>3, <2>4, <2>5 DEF TypeInv, TypeOK
<1> QED  BY BaseAlways, <1>1, PTL DEF BaseInv

\* Whichever way a draw returned, the next one waits for a fence that work in the queue will signal,
\* unless a submit failed (window.cpp:232, 236-238, 270).
THEOREM FenceIsSignaled == Spec => []FenceWillSignal
<1>1. ASSUME TypeInv, FenceInv  PROVE FenceWillSignal
  <2>1. Renders = {} <=> ~ Rendering  BY <1>1, OpsOfQueue
  <2> QED  BY <1>1, <2>1 DEF FenceInv, FenceWillSignal, At, TypeInv
<1> QED  BY BaseAlways, <1>1, PTL DEF BaseInv

\* The command buffer is recorded again only when the GPU is done with it (window.cpp:232, 239).
THEOREM CommandBufferRecordedIdle == Spec => CommandBufferIdle
<1>1. ASSUME BaseInv, [Next]_vars  PROVE cmd' # cmd => Renders = {}
  <2>1. CASE DrawRecord
    <3>1. ~ Rendering  BY <1>1, <2>1 DEF BaseInv, FenceInv, TypeInv, DrawRecord, At
    <3> QED  BY <1>1, <3>1, OpsOfQueue DEF BaseInv
  <2>2. CASE Next /\ ~ DrawRecord
    BY <2>2 DEF Next, Program, Proceeds, OpenStep, OpenFails, DrawBegin, DrawWait, DrawAcquire, DrawOutdated,
                DrawFails, DrawSubmit, DrawPresent, LoopEnds, CloseWaits, CloseStep, OnlyGo,
                Surroundings, UserCloses, Outdates, Engine, ImageReady, RenderBegins, RenderDraws, RenderEnds,
                PresentStarts, Refresh
  <2> QED  BY <1>1, <2>1, <2>2 DEF vars
<1>2. BaseInv /\ [Next]_vars => [cmd' # cmd => Renders = {}]_vars  BY <1>1
<1> QED  BY BaseAlways, <1>2, PTL DEF Spec, CommandBufferIdle

LEMMA OrderStarts == Init => OrderInv
<1> SUFFICES ASSUME Init  PROVE OrderInv
  OBVIOUS
<1>1. /\ Len(queue) = 0 /\ DOMAIN queue = {} /\ DOMAIN screen = {} /\ pc[1] = "open"
      /\ cmd.frame = 0 /\ frame = 0 /\ rendered = "clear" /\ acquired[1] = "clear"
      /\ reading = {} /\ ~ dropped
  BY DEF Init
<1>2. ~ Rendering /\ ~ Due  BY <1>1 DEF Rendering, Due
<1>3. QueueInv  BY <1>1, <1>2 DEF QueueInv, At
<1>4. RenderedInv /\ AcquiredInv  BY <1>1 DEF RenderedInv, AcquiredInv, At
<1>5. FrameInv /\ ImageInv  BY <1>1, <1>2 DEF FrameInv, ImageInv, At
<1> QED  BY <1>3, <1>4, <1>5 DEF OrderInv

LEMMA OrderKept ==
  ASSUME QueuePresents, BaseInv, OrderInv, [Next]_vars
  PROVE  OrderInv'
<1> USE DEF BaseInv
<1>1. CASE Engine  BY <1>1, OrderEngine
<1>2. CASE DrawAcquire \/ DrawRecord \/ DrawSubmit \/ DrawPresent  BY <1>2, OrderDrawn
<1>3. CASE OpenStep \/ OpenFails \/ DrawBegin \/ DrawWait \/ DrawOutdated \/ DrawFails
           \/ LoopEnds \/ CloseWaits \/ CloseStep
  <2>1. UNCHANGED <<caps, queue, rendered, acquired, screen, reading, content, cmd, dropped>>
    BY <1>3 DEF OpenStep, OpenFails, DrawBegin, DrawWait, DrawOutdated, DrawFails, LoopEnds,
                CloseWaits, CloseStep, OnlyGo, sync, engine
  <2>2. /\ pc[1] \in {"open", "loop", "wait", "acquire", "idle", "close"}
        /\ pc'[1] \in {"open", "failed", "loop", "wait", "acquire", "idle", "close", "closed"}
        /\ pc'[1] = "wait" => DrawBegin
        /\ pc'[1] = "acquire" => pc[1] = "wait" /\ DrawWait
        /\ pc'[1] = "closed" => pc[1] = "close"
        /\ pc'[1] = "close" => pc[1] = "close" \/ CloseWaits
        /\ pc'[1] \in {"open", "failed"} => pc[1] = "open"
    <3>1. CASE OpenStep
      <4>1. pc[1] = "open" /\ pc'[1] \in {"open", "loop"}  BY <3>1 DEF OpenStep, Go, At
      <4> QED  BY <4>1
    <3>2. CASE CloseStep
      <4>1. pc[1] = "close" /\ pc'[1] \in {"close", "closed"}  BY <3>2 DEF CloseStep, Go, At
      <4> QED  BY <4>1
    <3>3. CASE DrawBegin
      <4>1. pc[1] = "loop" /\ pc'[1] = "wait"  BY <3>3 DEF DrawBegin, Go, At
      <4> QED  BY <3>3, <4>1
    <3>4. CASE DrawWait
      <4>1. pc[1] = "wait" /\ pc'[1] = "acquire"  BY <3>4 DEF DrawWait, OnlyGo, Go, At
      <4> QED  BY <3>4, <4>1
    <3>5. CASE CloseWaits
      <4>1. pc[1] = "idle" /\ pc'[1] = "close"  BY <3>5 DEF CloseWaits, OnlyGo, Go, At
      <4> QED  BY <3>5, <4>1
    <3>6. CASE OpenFails \/ DrawOutdated \/ DrawFails \/ LoopEnds
      <4>1. /\ pc[1] \in {"open", "acquire", "loop"} /\ pc'[1] \in {"failed", "loop", "idle"}
            /\ pc'[1] = "failed" => pc[1] = "open"
        BY <3>6 DEF OpenFails, DrawOutdated, DrawFails, LoopEnds, OnlyGo, Go, At
      <4> QED  BY <4>1
    <3> QED  BY <1>3, <3>1, <3>2, <3>3, <3>4, <3>5, <3>6
  <2>3. \/ frame' = frame
        \/ DrawBegin /\ frame' = frame + 1
    BY <1>3 DEF OpenStep, OpenFails, DrawBegin, DrawWait, DrawOutdated, DrawFails, LoopEnds,
                CloseWaits, CloseStep, OnlyGo, program
  <2>4. frame' \in Nat /\ frame' >= frame  BY <2>3, FramesAndImages
  <2>5. pc'[1] \in {"wait", "acquire"} => cmd.frame < frame'
    <3>1. CASE DrawBegin
      <4>1. frame' = frame + 1 /\ cmd.frame <= frame  BY <3>1 DEF DrawBegin, OrderInv, FrameInv
      <4> QED  BY <4>1, FramesAndImages
    <3>2. CASE DrawWait
      <4>1. frame' = frame /\ cmd.frame < frame
        BY <3>2 DEF DrawWait, OnlyGo, program, OrderInv, FrameInv, At
      <4> QED  BY <4>1
    <3> QED  BY <2>2, <3>1, <3>2
  <2>6. pc'[1] \in {"close", "closed"} => Len(queue) = 0
    <3>1. CASE CloseWaits
      <4>1. Renders = {} /\ Presents = {}  BY <3>1 DEF CloseWaits
      <4>2. \A i \in DOMAIN queue : FALSE  BY <4>1, OpsOfQueue DEF Rendering
      <4>3. Len(queue) \in Nat /\ DOMAIN queue = 1 .. Len(queue)  BY OpsOfQueue
      <4>4. Len(queue) # 0 => 1 \in 1 .. Len(queue)  BY <4>3
      <4> QED  BY <4>2, <4>3, <4>4
    <3>2. CASE pc[1] = "close"  BY <3>2 DEF OrderInv, QueueInv
    <3> QED  BY <2>2, <3>1, <3>2
  <2>7. dropped => pc'[1] \in {"loop", "wait", "idle"}
    <3>1. ASSUME dropped  PROVE pc[1] \in {"loop", "wait", "idle"} /\ Len(queue) > 0 /\ ~ fence
      BY <2>2, <3>1 DEF OrderInv, QueueInv, FenceInv, TypeInv, At
    <3>2. dropped => pc'[1] # "acquire"  BY <2>2, <3>1 DEF DrawWait
    <3>3. dropped => pc'[1] \notin {"close", "closed"}  BY <2>6, <3>1
    <3> QED  BY <2>2, <3>1, <3>2, <3>3
  <2> QED  BY <2>1, <2>2, <2>4, <2>5, <2>6, <2>7, OrderQuiet
<1>4. CASE Surroundings \/ UNCHANGED vars
  <2>1. UNCHANGED <<pc, caps, frame, queue, rendered, acquired, screen, reading, content, cmd, dropped>>
    BY <1>4 DEF Surroundings, UserCloses, Outdates, vars, program, sync, engine
  <2>2. Rendering' = Rendering /\ Due' = Due /\ Images' = Images  BY <2>1 DEF Rendering, Due, Images
  <2>3. Busy' = Busy  BY <2>1, <2>2 DEF Busy, At
  <2> QED
    BY <2>1, <2>2, <2>3 DEF OrderInv, QueueInv, RenderedInv, AcquiredInv, FrameInv, ImageInv, At
<1> QED  BY <1>1, <1>2, <1>3, <1>4 DEF Next, Program, Proceeds

\* The surface stays the one the window was opened on.
LEMMA SurfaceKept ==
  ASSUME [Next]_vars
  PROVE  caps' = caps
BY DEF Next, Program, Proceeds, OpenStep, OpenFails, DrawBegin, DrawWait, DrawAcquire, DrawOutdated,
       DrawFails, DrawRecord, DrawSubmit, DrawPresent, LoopEnds, CloseWaits, CloseStep, OnlyGo,
       Surroundings, UserCloses, Outdates, Engine, ImageReady, RenderBegins, RenderDraws, RenderEnds,
       PresentStarts, Refresh, vars

LEMMA OrderAlways == Spec => [](BaseInv /\ (QueuePresents => OrderInv))
<1>1. BaseInv /\ (QueuePresents => OrderInv) /\ [Next]_vars => (QueuePresents => OrderInv)'
  BY OrderKept, SurfaceKept DEF QueuePresents
<1> QED  BY OrderStarts, BaseAlways, <1>1, PTL DEF Spec

\* Where presents keep the queue's order, what the engine has is the frame that was presented,
\* complete and not drawn over, in the order the frames were drawn (window.cpp:238-274).
THEOREM FramesShownInOrder == Spec => []ShowsDrawn
<1>1. ASSUME BaseInv, QueuePresents => OrderInv  PROVE ShowsDrawn
  <2> SUFFICES ASSUME QueuePresents
               PROVE  /\ \A s \in Range(screen) : content[s.image] = s.frame
                      /\ \A i, j \in DOMAIN screen : i < j => screen[i].frame < screen[j].frame
    BY DEF ShowsDrawn
  <2>1. \A s \in Range(screen) : content[s.image] = s.frame
    BY <1>1 DEF OrderInv, ImageInv, Range
  <2> QED  BY <1>1, <2>1 DEF OrderInv, FrameInv
<1> QED  BY OrderAlways, <1>1, PTL

\* Where presents keep the queue's order, the GPU writes no colour into an image the engine shows or
\* still reads: the submit waits there for the semaphore of the acquire (window.cpp:265-267).
THEOREM DrawnWhenGivenBack == Spec => []NotWhileRead
<1>1. ASSUME BaseInv, QueuePresents => OrderInv  PROVE NotWhileRead
  <2> SUFFICES ASSUME QueuePresents, NEW op \in Renders, op.stage = "drawing"
               PROVE  op.image \notin reading /\ op.image \notin {s.image : s \in Range(screen)}
    BY DEF NotWhileRead
  <2>1. PICK i \in DOMAIN queue : queue[i] = op /\ op.does = "render"  BY DEF Renders, Range
  <2>2. Rendering /\ op.image \in Images /\ op.image = cmd.image
    BY <1>1, <2>1, FramesAndImages DEF BaseInv, OrderInv, QueueInv, Rendering
  <2>3. op.image \in Busy  BY <2>2 DEF Busy
  <2>4. /\ \A k \in DOMAIN queue : queue[k].does = "render" => queue[k].stage = "drawing"
        /\ ~ dropped /\ pc[1] \notin {"record", "submit"}
    BY <1>1, <2>1, <2>2 DEF BaseInv, FenceInv, TypeInv, At
  <2>5. acquired[1] = "clear"  BY <1>1, <2>4 DEF OrderInv, AcquiredInv
  <2> QED  BY <1>1, <2>3, <2>5 DEF OrderInv, ImageInv, Range
<1> QED  BY OrderAlways, <1>1, PTL

\* Every object is destroyed before what it was made from and after the work that uses it, presents
\* included where they are work of the queue, and a window that was opened leaves nothing behind
\* (window.cpp:279-292).
THEOREM DestroyedInOrder == Spec => []NothingInUseDestroyed
<1>1. ASSUME BaseInv, QueuePresents => OrderInv  PROVE NothingInUseDestroyed
  <2>1. \/ \E k \in 1 .. 14 : made = MadeBefore(k)
        \/ \E k \in 1 .. 13 : made = LeftBefore(k)
    <3>1. 1 .. 13 \subseteq 1 .. 14 /\ 1 .. 12 \subseteq 1 .. 13 /\ 1 \in 1 .. 13 /\ 13 \in 1 .. 13
      OBVIOUS
    <3> QED  BY <1>1, <3>1, MadeIsLeft DEF BaseInv, MadeInv, At
  <2>2. \A o \in made : Parents(o) \subseteq made
    BY <2>1, MadeBeforeClosed, LeftBeforeClosed
  <2>3. ASSUME Renders # {} \/ (QueuePresents /\ Presents # {})  PROVE made = Range(CloseOrder)
    <3>1. PICK i \in DOMAIN queue : queue[i].does = "render" \/ QueuePresents
      BY <2>3 DEF Renders, Presents, Range
    <3>2. Len(queue) # 0
      <4>1. Len(queue) \in Nat /\ DOMAIN queue = 1 .. Len(queue)  BY <1>1, OpsOfQueue DEF BaseInv
      <4> QED  BY <4>1
    <3>3. pc[1] \notin {"open", "failed"}  BY <1>1, <3>2 DEF BaseInv, FenceInv
    <3>4. pc[1] \notin {"close", "closed"}
      <4>1. CASE queue[i].does = "render"  BY <1>1, <4>1 DEF BaseInv, FenceInv, Rendering
      <4>2. CASE QueuePresents  BY <1>1, <3>2, <4>2 DEF OrderInv, QueueInv
      <4> QED  BY <3>1, <4>1, <4>2
    <3> QED  BY <1>1, <3>3, <3>4 DEF BaseInv, MadeInv
  <2>4. {"inflight", "acquired", "rendered", "pool", "pipeline", "views", "swapchain"}
          \subseteq Range(CloseOrder)
    <3>1. {1, 2, 3, 4, 5, 7, 8} \subseteq DOMAIN CloseOrder  BY CloseOrderIs
    <3> QED  BY <3>1, CloseOrderIs DEF Range
  <2>5. At("closed") => made = {}  BY <1>1 DEF BaseInv, MadeInv
  <2> QED  BY <2>2, <2>3, <2>4, <2>5 DEF NothingInUseDestroyed
<1> QED  BY OrderAlways, <1>1, PTL
=============================================================================
