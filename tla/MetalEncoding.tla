---------------------------- MODULE MetalEncoding ---------------------------
(***************************************************************************)
(* The raw pointers between the emulated device's objects. MetalObjects     *)
(* models the references that are counted; this module adds the ones that   *)
(* are not: an encoder's command buffer and bindings, an attachment's       *)
(* texture, and the buffers and textures that the work queued on a command  *)
(* buffer has captured and that commit dereferences.                        *)
(***************************************************************************)
EXTENDS MetalObjects

CONSTANTS Slots,          \* bound: the binding indices of an encoder
          KeepsResources  \* the client holds what it handed over until it commits

ASSUME KeepsResourcesType == KeepsResources \in BOOLEAN

VARIABLES
    encCb,      \* encCb[e]: Enc::cb and REnc::cb
    bound,      \* bound[e][i]: Enc::bufs; REnc::vbufs and REnc::ftex
    texture,    \* texture[v]: RPCA::texture and RPDA::texture
    clears,     \* the attachments whose load action is Clear
    captured,   \* captured[c]: the pointers the closures of CmdBuf::work hold
    committed,  \* the command buffers the client has committed
    handed      \* ghost: what the client's own calls handed to the encoders of c

pointerVars == <<encCb, bound, texture, clears, captured, committed, handed>>
encodingVars == <<objectVars, pointerVars>>

AllEncoders == ComputeEncoders \cup RenderEncoders
Attachments == Colors \cup Depths
Unbound == [i \in Slots |-> None]

EncodingInit ==
    /\ Init
    /\ encCb = [e \in AllEncoders |-> None]
    /\ bound = [e \in AllEncoders |-> Unbound]
    /\ texture = [v \in Attachments |-> None]
    /\ clears = {}
    /\ captured = [c \in CmdBufs |-> {}]
    /\ committed = {}
    /\ handed = [c \in CmdBufs |-> {}]

\* The live attachments of a pass: what e->pass->colors and e->pass->depth reach.
AttachmentsOf(p) == {v \in Attachments \cap alive : Root(v) = p}
Targets(views) == {texture[v] : v \in views} \ {None}

-----------------------------------------------------------------------------
(* When the client may make a call.                                         *)

\* Encoding goes to a command buffer the client still holds.
MayEncode(e) == Usable(e) /\ Held(encCb[e])

\* A command buffer is committed once. A client that keeps its resources holds,
\* at that moment, everything its calls handed to the encoders of c: what it bound,
\* the index buffers of its draws and the textures of the passes it drew on.
MayCommit(c) ==
    /\ Usable(c) /\ c \notin committed
    /\ KeepsResources => \A x \in handed[c] : Held(x)

Hand(c, things) == handed' = [handed EXCEPT ![c] = @ \cup things]

-----------------------------------------------------------------------------
(* The calls.                                                               *)

\* A call of MetalObjects: the fields of an object die with it.
Object ==
    /\ ObjectCall
    /\ encCb' = [e \in AllEncoders |-> IF e \in alive' THEN encCb[e] ELSE None]
    /\ bound' = [e \in AllEncoders |-> IF e \in alive' THEN bound[e] ELSE Unbound]
    /\ texture' = [v \in Attachments |-> IF v \in alive' THEN texture[v] ELSE None]
    /\ clears' = clears \cap alive'
    /\ captured' = [c \in CmdBufs |-> IF c \in alive' THEN captured[c] ELSE {}]
    /\ UNCHANGED <<committed, handed>>

ComputeEncoder(e, c) ==
    /\ NewComputeEncoder(e, c)
    /\ encCb' = [encCb EXCEPT ![e] = c]
    /\ UNCHANGED <<bound, texture, clears, captured, committed, handed>>

\* Mutant: the clears of every pass are queued, not those of the encoder's.
RenderEncoderAllPasses(e, c, p) ==
    /\ NewRenderEncoder(e, c, p)
    /\ encCb' = [encCb EXCEPT ![e] = c]
    /\ captured' =
         [captured EXCEPT ![c] = @ \cup Targets(Attachments \cap alive \cap clears)]
    /\ Hand(c, Targets(AttachmentsOf(p)))
    /\ UNCHANGED <<bound, texture, clears, committed>>

\* The pass's clears are queued now, each with the texture it will write.
RenderEncoder(e, c, p) ==
    /\ NewRenderEncoder(e, c, p)
    /\ encCb' = [encCb EXCEPT ![e] = c]
    /\ captured' =
         [captured EXCEPT ![c] = @ \cup Targets(AttachmentsOf(p) \cap clears)]
    /\ Hand(c, Targets(AttachmentsOf(p)))
    /\ UNCHANGED <<bound, texture, clears, committed>>

\* setTexture: and setLoadAction: on an attachment. An encoder may be open on its
\* pass: the draws that follow are to the new texture (725-733).
SetTexture(v, x) ==
    /\ Usable(v) /\ Usable(x)
    /\ texture' = [texture EXCEPT ![v] = x]
    /\ LET open == {encCb[e] : e \in Retainers(Root(v))}
       IN  handed' = [c \in CmdBufs |->
                        IF c \in open THEN handed[c] \cup {x} ELSE handed[c]]
    /\ UNCHANGED <<objectVars, encCb, bound, clears, captured, committed>>

SetLoadActionClear(v) ==
    /\ Usable(v)
    /\ clears' = clears \cup {v}
    /\ UNCHANGED <<objectVars, encCb, bound, texture, captured, committed, handed>>

\* setBuffer:offset:atIndex:, setVertexBuffer:offset:atIndex: and
\* setFragmentTexture:atIndex: keep a pointer and no reference.
Bind(e, i, x) ==
    /\ Usable(e) /\ Usable(x)
    /\ bound' = [bound EXCEPT ![e][i] = x]
    /\ Hand(encCb[e], {x})
    /\ UNCHANGED <<objectVars, encCb, texture, clears, captured, committed>>

Capture(c, pointers) ==
    /\ captured' = [captured EXCEPT ![c] = @ \cup (pointers \ {None})]
    /\ UNCHANGED <<objectVars, encCb, bound, texture, clears, committed>>

Bindings(e) == {bound[e][i] : i \in Slots}

Dispatch(e) ==
    /\ MayEncode(e)
    /\ Capture(encCb[e], Bindings(e))
    /\ UNCHANGED handed

\* The draw captures its index buffer, the bindings and the textures the pass's
\* attachments name at this moment.
Draw(e, ibuf) ==
    /\ MayEncode(e) /\ Usable(ibuf)
    /\ Hand(encCb[e], {ibuf})
    /\ Capture(encCb[e], Bindings(e) \cup {ibuf} \cup Targets(AttachmentsOf(pass[e])))

\* commit runs the queued work and keeps it.
Commit(c) ==
    /\ MayCommit(c)
    /\ committed' = committed \cup {c}
    /\ UNCHANGED <<objectVars, encCb, bound, texture, clears, captured, handed>>

EncodingNext ==
    \/ Object
    \/ \E e \in ComputeEncoders, c \in CmdBufs : ComputeEncoder(e, c)
    \/ \E e \in RenderEncoders, c \in CmdBufs, p \in Descriptors \cup {None} :
         RenderEncoder(e, c, p)
    \/ \E v \in Attachments : SetLoadActionClear(v) \/ \E x \in Objects : SetTexture(v, x)
    \/ \E e \in AllEncoders, i \in Slots, x \in Objects : Bind(e, i, x)
    \/ \E e \in ComputeEncoders : Dispatch(e)
    \/ \E e \in RenderEncoders, x \in Objects : Draw(e, x)
    \/ \E c \in CmdBufs : Commit(c)

EncodingSpec == EncodingInit /\ [][EncodingNext]_encodingVars

-----------------------------------------------------------------------------
(* Properties.                                                              *)

EncodingTypeOK ==
    /\ TypeOK
    /\ encCb \in [AllEncoders -> CmdBufs \cup {None}]
    /\ bound \in [AllEncoders -> [Slots -> Objects \cup {None}]]
    /\ texture \in [Attachments -> Objects \cup {None}]
    /\ clears \subseteq Attachments
    /\ captured \in [CmdBufs -> SUBSET Objects]
    /\ committed \subseteq CmdBufs
    /\ handed \in [CmdBufs -> SUBSET Objects]

\* The pass of an encoder that may be used is alive whoever has released it: "the
\* encoder outlives the caller's release of the descriptor (a draw reads the pass's
\* attachments later)" (emulated_metal.cpp:513-514).
EncodingSafe == \A e \in AllEncoders : Usable(e) => pass[e] \in alive \cup {None}

\* The work a commit runs (emulated_metal.cpp:551) dereferences only live buffers
\* and textures, whatever was released since it was encoded. With KeepsResources it
\* says that a closure reaches nothing but what the client's calls gave its
\* encoders, through the bindings, the attachments and the order they were set in.
\* Metal's commandBuffer retains it all for the client; here (500-503) it is the same
\* call as commandBufferWithUnretainedReferences, though "it lets the SAME
\* metal-cpp code compile AND run" (emulated_metal.cpp:6).
CommitSafe == \A c \in CmdBufs : MayCommit(c) => captured[c] \subseteq alive
=============================================================================
