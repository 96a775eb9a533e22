---------------------------- MODULE MetalObjects ----------------------------
(***************************************************************************)
(* The object runtime of the emulated Metal device                         *)
(* (gpu/metal/emulated/emulated_metal.cpp): tagged, reference-counted       *)
(* allocations, the stack of autorelease scopes, the render pass a render   *)
(* encoder retains, the attachment views a pass descriptor owns, and the    *)
(* set of live objects the leak check reports.                              *)
(*                                                                          *)
(* Everything is driven by one thread of a metal-cpp program, the client.   *)
(* The client keeps Cocoa's ownership rules: it releases what it owns, it   *)
(* messages what it owns or what an open scope holds for it, it closes      *)
(* pools innermost first, and it never retains an attachment view.          *)
(***************************************************************************)
EXTENDS Integers, Sequences, FiniteSets

CONSTANTS Devices, Queues, CmdBufs, ComputeEncoders, RenderEncoders,
          Descriptors,                   \* render pass descriptors
          ColorArrays, Colors, Depths,   \* attachment views
          Pools,
          Objects,    \* buffers, textures, pipelines, strings and the rest
          None,       \* the null pointer
          LeakCheck,  \* CHEATAH_GPU_METAL_LEAKCHECK
          Shared,     \* bound: the objects the client retains or autoreleases
          MaxRefs     \* bound: no retain takes a count above it

\* The names of the allocations a run can make, by the tag `make` gives them; no
\* name is used twice.
Views   == ColorArrays \cup Colors \cup Depths
Counted == Devices \cup Queues \cup CmdBufs \cup ComputeEncoders \cup RenderEncoders
           \cup Descriptors \cup Pools \cup Objects
Obj     == Counted \cup Views

ASSUME ObjFinite == IsFiniteSet(Obj)
ASSUME TagsDisjoint ==
    /\ Views \cap Counted = {}
    /\ ColorArrays \cap Depths = {} /\ Colors \cap (ColorArrays \cup Depths) = {}
    /\ RenderEncoders \cap (Descriptors \cup ComputeEncoders) = {}
    /\ (ComputeEncoders \cup RenderEncoders)
         \cap (Devices \cup Queues \cup CmdBufs \cup Descriptors \cup Pools \cup Objects) = {}
    /\ Pools \cap Descriptors = {}
    /\ Pools \cap (Objects \cup CmdBufs \cup ComputeEncoders \cup RenderEncoders) = {}
ASSUME NoneNotObj == None \notin Obj
ASSUME LeakCheckType == LeakCheck \in BOOLEAN
ASSUME SharedType == Shared \subseteq Counted \ Pools /\ MaxRefs \in Nat

VARIABLES
    born,     \* allocations made so far
    alive,    \* those not freed yet
    rc,       \* rc[o]: Base::rc
    tracked,  \* live(): the objects the leak check counts
    scopes,   \* autorelease_stack().size(): the open autorelease scopes
    pooled,   \* the entries <<i, o, n>> of the stack: scope i names o an n-th time
    pass,     \* pass[e]: the descriptor render encoder e retained, or None
    owner,    \* owner[v]: the object whose destructor frees the view v, or None
    own,      \* own[o]: references the client's code is bound to release
    stray,    \* stray[o]: references autoreleased while no scope was open
    pools     \* the client's initialised pools, innermost last

runtimeVars == <<born, alive, rc, tracked, scopes, pooled, pass, owner>>
clientVars  == <<own, stray, pools>>
objectVars  == <<born, alive, rc, tracked, scopes, pooled, pass, owner, own, stray, pools>>

Init ==
    /\ born = {}  /\ alive = {}  /\ tracked = {}
    /\ rc = [o \in Obj |-> 0]
    /\ scopes = 0  /\ pooled = {}
    /\ pass = [o \in Obj |-> None]
    /\ owner = [o \in Obj |-> None]
    /\ own = [o \in Obj |-> 0]
    /\ stray = [o \in Obj |-> 0]
    /\ pools = <<>>

-----------------------------------------------------------------------------
(* Who holds a reference.                                                   *)

\* The entries of the autorelease stack that name o, and those of scope i.
Entries(o) == {x \in pooled : x[2] = o}
EntriesIn(i, o) == {x \in Entries(o) : x[1] = i}

\* The render encoders that retained the descriptor p.
Retainers(p) == {e \in RenderEncoders \cap alive : pass[e] = p}

\* References to o: the client's, the open scopes', the lost ones, the encoders'.
Holds(o) ==
    own[o] + stray[o] + Cardinality(Entries(o)) + Cardinality(Retainers(o))

\* The client has a reference of its own or one an open scope keeps for it.
Held(o) == own[o] > 0 \/ stray[o] > 0 \/ Entries(o) # {}

\* The descriptor a view lives in.
Root(v) == IF v \in Colors THEN owner[owner[v]] ELSE owner[v]

\* The client may send o a message.
Usable(o) == o \in alive /\ IF o \in Views THEN Held(Root(o)) ELSE Held(o)

-----------------------------------------------------------------------------
(* make, autorelease, release and destroy.                                  *)

\* Mutant: the views of a descriptor stay in the leak check's set.
MakeTracksViews(o) ==
    /\ o \notin born
    /\ born' = born \cup {o}
    /\ alive' = alive \cup {o}
    /\ tracked' = IF LeakCheck THEN tracked \cup {o} ELSE tracked

\* make<T>(tag): counted once, tracked when the leak check is compiled in.
Make(o) ==
    /\ o \notin born
    /\ born' = born \cup {o}
    /\ alive' = alive \cup {o}
    /\ tracked' = IF LeakCheck /\ o \notin Views THEN tracked \cup {o} ELSE tracked

\* autorelease(b): into the innermost scope, and nowhere when none is open. The
\* order inside a scope is left out: draining releases all of it.
Autoreleasing(o) ==
    LET entry == <<scopes, o, Cardinality(EntriesIn(scopes, o))>>
    IN  /\ pooled' = IF scopes = 0 THEN pooled ELSE pooled \cup {entry}
        /\ stray' = IF scopes = 0 THEN [stray EXCEPT ![o] = @ + 1] ELSE stray
        /\ UNCHANGED scopes

\* release() on each o, drops[o] times: a count that reaches zero destroys the
\* object, and a destroyed render encoder releases the pass it retained.
Finished(drops) == {o \in alive : drops[o] > 0 /\ rc[o] <= drops[o]}
WithPasses(drops) ==
    [o \in Obj |-> drops[o] + Cardinality({e \in Retainers(o) : e \in Finished(drops)})]

\* Mutant: ~RPDesc forgets the depth attachment.
WithoutDepth(gone) ==
    gone \cup {v \in alive \cap Views : v \notin Depths /\ Root(v) \in gone}

\* A destroyed descriptor deletes its views, whatever their own counts.
WithViews(gone) == gone \cup {v \in alive \cap Views : Root(v) \in gone}

Releasing(drops) ==
    LET all == WithPasses(drops)
        gone == Finished(all)
        freed == WithViews(gone)
    IN  /\ rc' = [o \in Obj |-> rc[o] - all[o]]
        /\ alive' = alive \ freed
        /\ tracked' = tracked \ gone
        /\ pass' = [o \in Obj |-> IF o \in freed THEN None ELSE pass[o]]
        /\ owner' = [o \in Obj |-> IF o \in freed THEN None ELSE owner[o]]
        /\ UNCHANGED born

One(o) == [x \in Obj |-> IF x = o THEN 1 ELSE 0]

-----------------------------------------------------------------------------
(* Calls that create an object.                                             *)

\* A new* or alloc call hands the client the object's one reference.
Owned(o) ==
    /\ Make(o)
    /\ rc' = [rc EXCEPT ![o] = 1]
    /\ own' = [own EXCEPT ![o] = 1]
    /\ UNCHANGED <<scopes, pooled, pass, owner, stray, pools>>

\* MTLCreateSystemDefaultDevice
CreateDevice(d) == d \in Devices /\ Owned(d)

\* +alloc: the class decides between a pool, a pass descriptor and the rest.
Alloc(o) == o \in Pools \cup Descriptors \cup Objects /\ Owned(o)

\* The new* calls: a queue, library, pipeline, buffer, texture, depth-stencil or
\* sampler state from a device, and a function from a library.
NewFrom(o, r) ==
    /\ r \in Devices \cup Objects /\ Usable(r)
    /\ o \in IF r \in Devices THEN Queues \cup Objects ELSE Objects
    /\ Owned(o)

\* The object's one reference goes to the innermost scope.
Given(o) ==
    /\ Make(o)
    /\ Autoreleasing(o)
    /\ UNCHANGED <<owner, own, pools>>

Born(o) == rc' = [rc EXCEPT ![o] = 1]

\* +stringWithCString: and +string
NewString(o) == o \in Objects /\ Given(o) /\ Born(o) /\ UNCHANGED pass

\* commandBuffer and commandBufferWithUnretainedReferences
NewCommandBuffer(c, q) ==
    /\ c \in CmdBufs
    /\ q \in Queues /\ Usable(q)
    /\ Given(c) /\ Born(c) /\ UNCHANGED pass

\* computeCommandEncoder
NewComputeEncoder(e, c) ==
    /\ e \in ComputeEncoders
    /\ c \in CmdBufs /\ Usable(c)
    /\ Given(e) /\ Born(e) /\ UNCHANGED pass

\* Mutant: the encoder keeps the descriptor without retaining it.
NewRenderEncoderUnretained(e, c, p) ==
    /\ e \in RenderEncoders
    /\ c \in CmdBufs /\ Usable(c)
    /\ p # None => p \in Descriptors /\ Usable(p)
    /\ Given(e) /\ Born(e)
    /\ pass' = [pass EXCEPT ![e] = p]

\* renderCommandEncoderWithDescriptor: retains the descriptor, which may be nil.
NewRenderEncoder(e, c, p) ==
    /\ e \in RenderEncoders
    /\ c \in CmdBufs /\ Usable(c)
    /\ p # None => p \in Descriptors /\ Usable(p)
    /\ Given(e)
    /\ pass' = [pass EXCEPT ![e] = p]
    /\ rc' = [o \in Obj |-> IF o = e THEN 1 ELSE IF o = p THEN rc[p] + 1 ELSE rc[o]]

\* The first colorAttachments, depthAttachment, or objectAtIndexedSubscript: of
\* an index creates a view that its owner frees; a later one returns that view.
NewView(v, p) ==
    /\ Usable(p)
    /\ Make(v) /\ Born(v)
    /\ owner' = [owner EXCEPT ![v] = p]
    /\ UNCHANGED <<scopes, pooled, pass, own, stray, pools>>

FirstOf(views, p) == \A v \in views : owner[v] # p

ColorAttachments(a, p) ==
    a \in ColorArrays /\ p \in Descriptors /\ FirstOf(ColorArrays, p) /\ NewView(a, p)
DepthAttachment(v, p) ==
    v \in Depths /\ p \in Descriptors /\ FirstOf(Depths, p) /\ NewView(v, p)
ColorAttachment(v, a) == v \in Colors /\ a \in ColorArrays /\ NewView(v, a)

-----------------------------------------------------------------------------
(* Reference-count calls.                                                   *)

Retain(o) ==
    /\ o \in Shared /\ Usable(o)
    /\ rc[o] < MaxRefs
    /\ rc' = [rc EXCEPT ![o] = @ + 1]
    /\ own' = [own EXCEPT ![o] = @ + 1]
    /\ UNCHANGED <<born, alive, tracked, scopes, pooled, pass, owner, stray, pools>>

\* Mutant: autorelease takes a reference of its own, as if it were retain.
AutoreleaseRetains(o) ==
    /\ o \in Shared /\ own[o] > 0
    /\ own' = [own EXCEPT ![o] = @ - 1]
    /\ Autoreleasing(o)
    /\ rc' = [rc EXCEPT ![o] = @ + 1]
    /\ UNCHANGED <<born, alive, tracked, pass, owner, pools>>

Autorelease(o) ==
    /\ o \in Shared /\ own[o] > 0
    /\ own' = [own EXCEPT ![o] = @ - 1]
    /\ Autoreleasing(o)
    /\ UNCHANGED <<born, alive, rc, tracked, pass, owner, pools>>

Release(o) ==
    /\ o \in Counted \ Pools /\ own[o] > 0
    /\ own' = [own EXCEPT ![o] = @ - 1]
    /\ Releasing(One(o))
    /\ UNCHANGED <<scopes, pooled, stray, pools>>

\* init on a pool opens a scope.
PoolInit(p) ==
    /\ p \in Pools \cap alive
    /\ \A i \in 1..Len(pools) : pools[i] # p
    /\ scopes' = scopes + 1
    /\ pools' = Append(pools, p)
    /\ UNCHANGED <<born, alive, rc, tracked, pooled, pass, owner, own, stray>>

\* release or drain on a pool: the innermost scope is popped, everything it
\* names is released, once per entry, and then the pool itself.
PoolDrops(p) == [o \in Obj |-> Cardinality(EntriesIn(scopes, o)) + One(p)[o]]

\* Mutant: the drained scope stays on the stack.
PoolReleaseKeepsScope(p) ==
    /\ pools # <<>> /\ p = pools[Len(pools)]
    /\ Releasing(PoolDrops(p))
    /\ pools' = SubSeq(pools, 1, Len(pools) - 1)
    /\ own' = [own EXCEPT ![p] = 0]
    /\ UNCHANGED <<scopes, pooled, stray>>

\* Mutant: the pool is released without draining its scope.
PoolReleaseForgets(p) ==
    /\ pools # <<>> /\ p = pools[Len(pools)]
    /\ Releasing(One(p))
    /\ scopes' = scopes - 1
    /\ pooled' = {x \in pooled : x[1] # scopes}
    /\ pools' = SubSeq(pools, 1, Len(pools) - 1)
    /\ own' = [own EXCEPT ![p] = 0]
    /\ UNCHANGED stray

PoolRelease(p) ==
    /\ pools # <<>> /\ p = pools[Len(pools)]
    /\ Releasing(PoolDrops(p))
    /\ scopes' = scopes - 1
    /\ pooled' = {x \in pooled : x[1] # scopes}
    /\ pools' = SubSeq(pools, 1, Len(pools) - 1)
    /\ own' = [own EXCEPT ![p] = 0]
    /\ UNCHANGED stray

\* Every call but the two that create an encoder.
ObjectCall ==
    \/ \E d \in Devices : CreateDevice(d)
    \/ \E o \in Obj : Alloc(o) \/ Retain(o) \/ Autorelease(o) \/ Release(o)
    \/ \E o \in Objects : NewString(o)
    \/ \E r \in Devices \cup Objects, o \in Queues \cup Objects : NewFrom(o, r)
    \/ \E c \in CmdBufs, q \in Queues : NewCommandBuffer(c, q)
    \/ \E p \in Descriptors : \/ \E a \in ColorArrays : ColorAttachments(a, p)
                              \/ \E v \in Depths : DepthAttachment(v, p)
    \/ \E a \in ColorArrays, v \in Colors : ColorAttachment(v, a)
    \/ \E p \in Pools : PoolInit(p) \/ PoolRelease(p)

Next ==
    \/ ObjectCall
    \/ \E c \in CmdBufs, e \in ComputeEncoders : NewComputeEncoder(e, c)
    \/ \E c \in CmdBufs, e \in RenderEncoders, p \in Descriptors \cup {None} :
          NewRenderEncoder(e, c, p)

Spec == Init /\ [][Next]_objectVars

-----------------------------------------------------------------------------
(* Properties.                                                              *)

\* Every count is a natural number, every pointer names an allocation of the
\* tag its field is declared with, and only allocations made are alive.
TypeOK ==
    /\ born \subseteq Obj /\ alive \subseteq born /\ tracked \subseteq Obj
    /\ rc \in [Obj -> Nat] /\ own \in [Obj -> Nat] /\ stray \in [Obj -> Nat]
    /\ pools \in Seq(Obj) /\ scopes = Len(pools)
    /\ pooled \subseteq (1..scopes) \X Obj \X Nat
    /\ pass \in [Obj -> Obj \cup {None}] /\ owner \in [Obj -> Obj \cup {None}]

\* The count of a live object (Base::rc) is exactly the number of references
\* the client, the open scopes and the live render encoders hold to it.
RefCountExact == \A o \in alive \cap Counted : rc[o] = Holds(o)

\* No premature free: what the client holds, what an open scope will release
\* and what a live encoder retained is alive, so no later release, drain or
\* encoder destruction (emulated_metal.cpp:341, 442) reads freed memory.
HoldersKeepAlive ==
    \A o \in Counted : Held(o) \/ Retainers(o) # {} => o \in alive

\* An attachment view lives inside its descriptor: the colour array and the depth
\* attachment are freed with it and no view outlives what owns it (~RPDesc, ~RPCAA).
ViewsFollowOwner ==
    \A v \in alive \cap Views :
        owner[v] \in alive \cap (IF v \in Colors THEN ColorArrays ELSE Descriptors)

\* The client has given back all it owns and closed every pool.
Returned == scopes = 0 /\ \A o \in Obj : own[o] = 0

\* "a correctly-written program leaks nothing" (emulated_metal.cpp:11-12): once
\* everything is given back, views included nothing is left allocated, unless
\* something was autoreleased while no scope was open.
CleanExit == Returned /\ (\A o \in Obj : stray[o] = 0) => alive = {}

\* live_objects(): 0 in a build without the leak check.
live_objects == Cardinality(tracked)

\* "0 means nothing leaked" (emulated.hpp:72): with the leak check built in, a
\* report of 0 means no object and no view is allocated; and at exit the report
\* is above 0 exactly when a reference was lost.
LeakReportHonest ==
    LeakCheck =>
        /\ live_objects = 0 => alive = {}
        /\ Returned => (live_objects > 0 <=> \E o \in Obj : stray[o] > 0)

\* Objects live as the abstract ownership says: exactly while somebody holds a
\* reference to them. The mapping counts every kind of holder.
Promise == INSTANCE Ownership WITH
    Things <- Counted,
    live <- alive \cap Counted,
    ever <- born \cap Counted,
    refs <- [o \in Counted |-> Holds(o)]

OwnershipKept == Promise!Spec
=============================================================================
