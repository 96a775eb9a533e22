----------------------------- MODULE RenderQueue ----------------------------
(***************************************************************************)
(* The work queue of the emulated render path (emulated_metal.cpp): the     *)
(* closures CmdBuf::work collects and commit runs. Creating an encoder       *)
(* queues the clears of its pass, each draw queues a snapshot of the         *)
(* encoder's state and of the textures the pass then names.                  *)
(*                                                                           *)
(* Objects live throughout (MetalObjects is about when they do not). The     *)
(* client has one encoder open at a time in a command buffer. It may change  *)
(* a pass descriptor at any time: RenderTargets is about what that does.     *)
(***************************************************************************)
EXTENDS Naturals, Sequences

CONSTANTS CmdBufs, Encoders, Descriptors, Vertices,
          Textures,      \* the textures rendered to
          Samples,       \* bound: the textures sampled, which are others
          ColorIndices,  \* bound: the colour attachment slots in use
          Depth,         \* the depth attachment
          None, Cleared,
          MaxSets,       \* bound: changes of an attachment
          MaxDraws,      \* bound: draws in a command buffer
          MaxCommits     \* bound: commits, of all command buffers

ASSUME NoneType == None \notin CmdBufs \cup Descriptors \cup Textures
ASSUME ColorType == 0 \in ColorIndices
ASSUME BoundsType == {MaxSets, MaxDraws, MaxCommits} \cup ColorIndices \subseteq Nat
ASSUME DepthType == Depth \notin ColorIndices

Attachments == ColorIndices \cup {Depth}

VARIABLES
    attachment, \* attachment[p][a]: the texture of an attachment, and if it loads with Clear
    cb,         \* cb[e]: REnc::cb, None until the encoder is created
    pass,       \* pass[e]: REnc::pass
    vbuf,       \* vbuf[e]: REnc::vbufs at index 1
    ftex,       \* ftex[e]: REnc::ftex at index 0
    work,       \* work[c]: CmdBuf::work
    data,       \* data[t]: what was done to the pixels of t since its last clear
    open,       \* the encoders the client has not ended
    sets,       \* changes of an attachment so far
    commits     \* commits so far

vars == <<attachment, cb, pass, vbuf, ftex, work, data, open, sets, commits>>

Unset == [texture |-> None, clear |-> FALSE]

Init ==
    /\ attachment = [p \in Descriptors |-> [a \in Attachments |-> Unset]]
    /\ cb = [e \in Encoders |-> None]
    /\ pass = [e \in Encoders |-> None]
    /\ vbuf = [e \in Encoders |-> None]
    /\ ftex = [e \in Encoders |-> None]
    /\ work = [c \in CmdBufs |-> <<>>]
    /\ data = [t \in Textures |-> <<>>]
    /\ open = {}
    /\ sets = 0
    /\ commits = 0

-----------------------------------------------------------------------------
(* Queued work and what running it does.                                    *)

Target(p, a) == IF p = None THEN None ELSE attachment[p][a].texture

LoadsClear(p) == {Target(p, a) : a \in {x \in Attachments : p # None /\ attachment[p][x].clear}}

\* The clears a new encoder queues, one after another with nothing between: one item.
LoadActions(e, p) ==
    LET on == LoadsClear(p) \ {None}
    IN  IF on = {} THEN <<>> ELSE <<[kind |-> "clear", by |-> e, on |-> on]>>

\* The DrawState of a draw: only the colour attachment of index 0 is drawn to.
DrawState(e) ==
    [kind |-> "draw", by |-> e,
     color |-> Target(pass[e], 0), depth |-> Target(pass[e], Depth),
     vbuf |-> vbuf[e], tex |-> ftex[e]]

\* Where raster_draw writes: nowhere without a colour target or vertices.
Written(d) ==
    IF d.color = None \/ d.vbuf = None THEN {} ELSE {d.color, d.depth} \ {None}

MarkOf(d) == <<d.vbuf, d.tex>>

\* Mutant: the closure keeps the encoder, not a copy of its state.
RunLate(w, t, content) ==
    IF w.kind = "clear" THEN IF t \in w.on THEN <<Cleared>> ELSE content
    ELSE IF t \in Written(w) THEN Append(content, <<vbuf[w.by], ftex[w.by]>>) ELSE content

\* What an item does to the content of texture t.
Run(w, t, content) ==
    IF w.kind = "clear" THEN IF t \in w.on THEN <<Cleared>> ELSE content
    ELSE IF t \in Written(w) THEN Append(content, MarkOf(w)) ELSE content

RunAll(items) ==
    [t \in Textures |->
        LET after[n \in 0..Len(items)] ==
               IF n = 0 THEN data[t] ELSE Run(items[n], t, after[n-1])
        IN  after[Len(items)]]

Enqueue(c, items) == work' = [work EXCEPT ![c] = @ \o items]

Draws(c) == Len(SelectSeq(work[c], LAMBDA w : w.kind = "draw"))

-----------------------------------------------------------------------------
(* The calls.                                                               *)

\* setTexture: and setLoadAction: on an attachment, of a pass in use or not
SetAttachment(p, a, t, clear) ==
    /\ attachment' = [attachment EXCEPT ![p][a] = [texture |-> t, clear |-> clear]]
    /\ sets < MaxSets /\ sets' = sets + 1
    /\ UNCHANGED <<cb, pass, vbuf, ftex, work, data, open, commits>>

\* Mutant: the clears are queued in front of everything.
EncoderClearsFirst(e, c, p) ==
    /\ cb[e] = None /\ \A x \in open : cb[x] # c
    /\ cb' = [cb EXCEPT ![e] = c]
    /\ pass' = [pass EXCEPT ![e] = p]
    /\ open' = open \cup {e}
    /\ work' = [work EXCEPT ![c] = LoadActions(e, p) \o @]
    /\ UNCHANGED <<attachment, vbuf, ftex, data, sets, commits>>

\* renderCommandEncoderWithDescriptor:
NewRenderEncoder(e, c, p) ==
    /\ cb[e] = None /\ \A x \in open : cb[x] # c
    /\ cb' = [cb EXCEPT ![e] = c]
    /\ pass' = [pass EXCEPT ![e] = p]
    /\ open' = open \cup {e}
    /\ Enqueue(c, LoadActions(e, p))
    /\ UNCHANGED <<attachment, vbuf, ftex, data, sets, commits>>

\* setVertexBuffer:offset:atIndex: at index 1
SetVertexBuffer(e, v) ==
    /\ e \in open
    /\ vbuf' = [vbuf EXCEPT ![e] = v]
    /\ UNCHANGED <<attachment, cb, pass, ftex, work, data, open, sets, commits>>

\* setFragmentTexture:atIndex: at index 0
SetFragmentTexture(e, t) ==
    /\ e \in open
    /\ ftex' = [ftex EXCEPT ![e] = t]
    /\ UNCHANGED <<attachment, cb, pass, vbuf, work, data, open, sets, commits>>

\* drawIndexedPrimitives:...
DrawIndexed(e) ==
    /\ e \in open /\ Draws(cb[e]) < MaxDraws
    /\ Enqueue(cb[e], <<DrawState(e)>>)
    /\ UNCHANGED <<attachment, cb, pass, vbuf, ftex, data, open, sets, commits>>

\* endEncoding: the emulator does nothing.
EndEncoding(e) ==
    /\ e \in open
    /\ open' = open \ {e}
    /\ UNCHANGED <<attachment, cb, pass, vbuf, ftex, work, data, sets, commits>>

\* commit runs the queued work and keeps it.
Commit(c) ==
    /\ commits < MaxCommits /\ \A e \in open : cb[e] # c
    /\ data' = RunAll(work[c])
    /\ commits' = commits + 1
    /\ UNCHANGED <<attachment, cb, pass, vbuf, ftex, work, open, sets>>

Next ==
    \/ \E p \in Descriptors, a \in Attachments, t \in Textures \cup {None}, clear \in BOOLEAN :
          SetAttachment(p, a, t, clear)
    \/ \E e \in Encoders :
          \/ \E c \in CmdBufs, p \in Descriptors \cup {None} : NewRenderEncoder(e, c, p)
          \/ \E v \in Vertices : SetVertexBuffer(e, v)
          \/ \E t \in Samples : SetFragmentTexture(e, t)
          \/ DrawIndexed(e) \/ EndEncoding(e)
    \/ \E c \in CmdBufs : Commit(c)

Spec == Init /\ [][Next]_vars

-----------------------------------------------------------------------------
(* Properties.                                                              *)

Items ==
    [kind : {"clear"}, by : Encoders, on : (SUBSET Textures) \ {{}}] \cup
    [kind : {"draw"}, by : Encoders, color : Textures \cup {None},
     depth : Textures \cup {None}, vbuf : Vertices \cup {None}, tex : Samples \cup {None}]

QueueTypeOK ==
    /\ attachment \in [Descriptors ->
          [Attachments -> [texture : Textures \cup {None}, clear : BOOLEAN]]]
    /\ cb \in [Encoders -> CmdBufs \cup {None}]
    /\ pass \in [Encoders -> Descriptors \cup {None}]
    /\ vbuf \in [Encoders -> Vertices \cup {None}]
    /\ ftex \in [Encoders -> Samples \cup {None}]
    /\ \A c \in CmdBufs : \A i \in DOMAIN work[c] : work[c][i] \in Items
    /\ DOMAIN data = Textures
    /\ open \subseteq Encoders /\ sets \in 0..MaxSets /\ commits \in 0..MaxCommits

\* The work of a command buffer belongs to its encoders one after another, and
\* "a Clear runs before any draw this encoder records" (emulated_metal.cpp:515-517).
ClearsLead ==
    \A c \in CmdBufs : \A i, j \in DOMAIN work[c] :
        i < j /\ work[c][i].by = work[c][j].by =>
            /\ work[c][j].kind = "clear" => work[c][i].kind = "clear"
            /\ \A k \in i..j : work[c][k].by = work[c][i].by

\* An item joins the pass of the item before it when they are of one encoder.
Joins(items, n) == n > 1 /\ items[n-1].by = items[n].by

NewPass == [clears |-> {}, draws |-> <<>>]

\* What an item adds to its pass.
WithItem(p, w) ==
    IF w.kind = "clear" THEN [p EXCEPT !.clears = @ \cup w.on]
    ELSE [p EXCEPT !.draws = Append(@, [onto |-> Written(w), mark |-> MarkOf(w)])]

AddItem(items, n, passes) ==
    IF Joins(items, n) THEN [passes EXCEPT ![Len(passes)] = WithItem(@, items[n])]
    ELSE Append(passes, WithItem(NewPass, items[n]))

\* The passes queued, each the items of one encoder; an encoder that queued nothing has no pass.
PassesOf(items) ==
    LET after[n \in 0..Len(items)] ==
           IF n = 0 THEN <<>> ELSE AddItem(items, n, after[n-1])
    IN  after[Len(items)]

\* The queue of closures does what a sequence of passes promises.
Promise == INSTANCE RenderPasses WITH
    Buffers <- CmdBufs,
    Surfaces <- Textures,
    Marks <- (Vertices \cup {None}) \X (Samples \cup {None}),
    recorded <- [c \in CmdBufs |-> PassesOf(work[c])],
    pixels <- data

PassesKept == Promise!Spec
=============================================================================
