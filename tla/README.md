# TLA+ models of cheatah-gpu

cheatah-gpu puts the native Vulkan and Metal APIs in front of cheatah programs, whose one integer
type is the long long. Its largest part is the generated Vulkan surface
(`gpu/vulkan/commands.hpp`), whose long long overloads carry handles and numbers across; beside it
stand the software Metal device that lets Metal programs run off Apple
(`gpu/metal/emulated/emulated_metal.cpp`), the arithmetic that sizes a dispatch
(`gpu/dispatch/dispatch.hpp`), the selection of a backend with its one-shot notice
(`gpu/backend.hpp`), the harness that shows frames in a window (`tests/window/window.cpp`) and the
script that releases it all (`scripts/release.sh`). These modules model them, TLC checks them on
small instances, and TLAPS proves the main properties for every instance.

Contents: the inventory, the modules, the runs and findings, the proofs, what is not modelled, the
plan.

## Inventory

| Part | State | Operations | What is hard |
|---|---|---|---|
| Object runtime of the emulator | tag and count of each allocation, the stack of autorelease scopes, the pass an encoder retained, views owned by a pass descriptor, the leak-check set | `alloc`, the device's `new*`, `string*`, `commandBuffer`, the two encoder constructors, attachment views, `retain`, `release`, `autorelease`, pool `init` and `release`/`drain` | long call sequences: a count wrong now is a crash much later; destructors that release other objects, in the middle of a drain |
| Raw pointers of the emulator | `Enc::cb`, `REnc::cb`, bindings, attachment textures, captured pointers in `CmdBuf::work` | `setBuffer`, `setVertexBuffer`, `setFragmentTexture`, `setTexture`, dispatch, draw, `commit` | pointers stored in one call and dereferenced in another, with releases in between |
| Render path | attachments and load actions, encoder state, the queue of closures, texture contents | attachment setters, encoder creation (queues clears), state setters, `drawIndexedPrimitives`, `endEncoding`, `commit` | what is captured when: clears at creation, draws when encoded, both run at commit |
| Compute path | kernel table, encoder pipeline and bindings, the queue | `register_kernel`, `computeCommandEncoder`, `setComputePipelineState`, `setBuffer`, the dispatches, `commit` | copies at dispatch, kernel lookup at commit, sparse binding indices |
| Dispatch sizing | none (pure) | `ceil_div`, `group_count_3d`, `clamp_group_count`, normalisation to a thread grid | overflow at `UINT32_MAX`, zero sizes, clamping |
| Backend selection | macros (fixed at compile time), two process-wide flags | preprocessing, `silence_backend_warning`, `warn_backend_selection` | macros that redefine each other; flags shared by threads without a lock |
| Vulkan surface | the program's tokens; the function pointers volk loaded | `token`, `handle`, the overloads' casts, `load_instance`, `load_device`, every command's make, lend, release or call | handle words that are negative as a long long, several devices behind one table of pointers, a note that names the wrong command |
| Window harness | one fence, two semaphores, one command buffer, the swapchain | `open`, `draw`, `close`, the loop around them | one set of objects for frames in flight on a GPU and a presentation engine; out-of-date swapchains, calls that fail |
| Release script | working tree, index, HEAD, tags here and on origin, releases, tarballs | regenerate, compare, gates, tag, push, archive, publish | a developer who works meanwhile; a step that fails after others took effect, or after its own effect |
| Rasterizer, texture regions | pixels | `raster_draw`, `getBytes`, `replaceRegion` | boundaries, floating point |
| Metal surface, types, `gpu.hpp` | none | generated aliases, casts, includes | - |
| Generators and gates | files | parse a registry, write a surface; build and test | text processing, tool chains |
| Shims, block stubs, `third_party/metal-cpp`, cmake, shaders | - | - | - |

How they interact. A Metal client calls metal-cpp, every call of which is one `objc_msgSend` to the
emulator. The device creates queues, a queue command buffers, a command buffer encoders; encoders
append closures to their command buffer, and `commit` runs them before it returns. The client sizes
its dispatches with `dispatch.hpp`. A Vulkan client holds tokens, calls the long long overloads,
which cast and call the exact ones, which call volk's function pointers; `loader.hpp` sets these to
an instance's or one device's. `backend.hpp` decides at compile time which surface is included at
all. The window harness is C++ on Vulkan itself, called by a cheatah loop, in front of a GPU and a
presentation engine that run behind it. The release script runs the generators and the gates and
reads the repository three times: the working tree, the index, HEAD. The emulator is
single-threaded by design (`emulated_metal.cpp:13`); the notice of `backend.hpp` is the one piece
of shared state any thread of a program can reach.

What makes each part correct:

- runtime: a count equals the number of references that exist; nothing that is held is freed, and
  what nobody holds is freed; views die with their owner; the leak report tells the truth;
- raw pointers: whatever a call or a commit dereferences is alive, and is what the client handed over;
- render path: clears precede the draws of their pass and follow those of earlier passes; a draw is a
  snapshot, and lands on the textures its encoder was created on;
- compute path: a kernel is called with the bindings of its dispatch, in order, nulls in the holes;
- sizing: counts are exact ceilings within the limits, and the grid covers the items unless clamped;
- selection: the active backend can run, the notice is loud, mutable and not repeated;
- Vulkan surface: each call reaches the driver of its handles with the objects and numbers the
  program means; releasing as the notes say leaves nothing behind;
- window: no wait is for something that cannot come, what is shown is what was drawn, nothing is
  drawn, recorded or destroyed while in use, the program ends;
- release: what is published was gated, is what its tag names, and was generated from its sources.

The hazards behind these, each at its line, are in `PROJECT.json`.

## Modules

| Module | Models | Relation |
|---|---|---|
| `Ownership` | what reference counting promises | abstract; implemented by `MetalObjects` |
| `MetalObjects`, `MCMetalObjects` | the object runtime; its symmetry | core |
| `MetalEncoding` | the uncounted pointers | extends `MetalObjects` |
| `MetalProofs` | - | proofs about `MetalObjects` and `MetalEncoding` |
| `RenderPasses` | what a render command buffer promises | abstract; implemented by `RenderQueue` |
| `RenderQueue`, `MCRenderQueue`, `RenderQueueProofs` | the render path's queue; its symmetry; proofs | |
| `RenderTargets` | where draws land, against what a pass was when its encoder was created | extends `RenderQueue` by a history variable |
| `ComputeQueue`, `ComputeQueueProofs` | the compute path; proofs | |
| `Dispatch`, `DispatchProofs` | `dispatch.hpp` and the grid the emulator launches; proofs | |
| `BackendSelection`, `BackendProofs` | `backend.hpp`; proofs | |
| `VulkanHandles` | `handles.hpp` and the casts of the overloads | |
| `VulkanCommands` | what each command of `commands.hpp` takes and does to handles | data, used by `MCVulkanProgram` |
| `VulkanProgram`, `MCVulkanProgram` | a program on the Vulkan surface; its instance | extends `VulkanHandles` |
| `VulkanProofs` | - | proofs about `VulkanHandles` and `VulkanProgram` |
| `WindowFrames`, `MCWindowFrames`, `WindowFramesProofs` | `window.cpp`; its instance; proofs | |
| `Release`, `ReleaseProofs` | `release.sh`; proofs | |

Definitions marked "Mutant" are not part of the models: each is a definition with a plausible bug
in it, and putting it in place of the definition after it makes a property fail, which shows the
property depends on that code.

### MetalObjects

An object is a name from a set for its tag; a name is used once, so a freed object never returns
and a dangling reference stays visible. `rc`, `tracked`, `pass`, `owner` are the fields `Base::rc`,
`live()`, `REnc::pass` and the owning pointers in `RPDesc` and `RPCAA`. `autorelease_stack()` is
`scopes` (its height) with `pooled`, a set of entries `<<scope, object, n>>`: draining a scope
releases all its entries, so the order inside a scope is left out, but how often an object is
named is not. `own` and `stray` are ghost state: the references the client must release, and those
that went nowhere because no scope was open (line 352).

Every call is one action. `NewFrom(o, r)` is a `new*` message to `r`, a device or, for a function,
the library it comes from. `Releasing(drops)` is `release` applied `drops[o]` times to every `o`,
with all that follows from it: counts that reach zero, the destructor of a render encoder
releasing its pass, the destructors of a descriptor and its colour array deleting views. A pool
drain is one call of it. The order of releases inside a drain does not matter to the outcome since
counts only fall, and the only chain is encoder to descriptor to views.

The client is constrained to Cocoa's ownership rules, which the tests follow: it messages only
what it owns, what a scope holds for it, or a view of such a descriptor; it releases only what it
owns; it initialises a pool once, closes pools innermost first and neither retains nor autoreleases
one; it does not retain views. Retaining a view would dangle (`emulated_metal.cpp:82-97` deletes it
whatever its count), and releasing pools out of order would drain the wrong scope (438-443); both
are listed as hazards that the rules exclude. Losing a reference (never releasing it) is allowed.

### MetalEncoding

Adds the plain pointers. Freeing an object erases its own fields; pointers *to* it stay, as in the code.
`captured[c]` is what the closures queued on `c` will dereference. `handed[c]` is ghost state and speaks
of the client's calls alone: what it bound to an encoder of `c`, the index buffers of its draws, and the
textures its passes named when an encoder was created on them or were given while one was open. With
`KeepsResources` the client holds, when it commits, all of `handed`; the command buffer itself holds
nothing (lines 501, 524, 539, 577, 740). That `captured`, which is computed from the encoders' fields,
contains nothing else is what `CommitSafe` then depends on: an encoder that took the clears of another
pass, or a binding that outlived its encoder, would break it. The client encodes only into a command
buffer it holds; what an encoder does after that is the hazard at line 508. A command buffer is
committed once here; `RenderQueue` and `ComputeQueue` commit repeatedly. `Object` excludes the two
encoder constructors, which appear with their pointers as `ComputeEncoder` and `RenderEncoder`; every
step of the module is a step of `MetalObjects` or leaves it alone, which is the first lemma of the
proofs.

### RenderQueue and RenderPasses

Contents of a texture are the marks left since it was last cleared: `<<Cleared>>`, then a pair
<vertex buffer, sampled texture> for each draw, so that order, loss and duplication of work show.
The clears of an encoder are queued when it is created, one after another with nothing between them,
and are one item here. A draw goes to colour attachment 0 and the depth attachment. The client has
one encoder open at a time in a command buffer, and may change a pass at any moment, one in use
included: clears and draws may then disagree, since clears read the attachments when the encoder is
created and draws when they are encoded. `RenderTargets` records what a pass was at creation and states
that draws land there, which is finding 2. `vbuf` and `tex` stand for all of the snapshot (buffer(0) bytes,
index buffer, fill mode); draws without their 80-byte constant or index buffer return early like
draws without vertices, which is the case kept. A depth target smaller than the colour target is
ignored by the code and not modelled.

`RenderPasses` says nothing of queues: a command buffer is a sequence of passes, each of which
clears its textures and then applies its draws. The refinement mapping rebuilds the passes from
the queue with `PassesOf`, item by item: an item joins the pass before it if both are of one encoder,
and begins a pass if not. A pass whose encoder queued nothing has no effect and is not in the sequence.

### ComputeQueue

`bufs[e][i]` distinguishes an index never set from one set to nil, because the code does (it has a map
entry in the second case and dereferences it). `PtrCount` and `Ptrs` are lines 580-582, `Registered` is
the lookup at commit. The client binds nil as it likes. `calls` is the ghost record of kernel calls;
`crashed` ends the program.

### Dispatch

`Word` is an unsigned type that wraps, `MaxWord` its maximum, and the launched grid is computed
in words of twice the width, as `MTL::Size` on the platforms the emulator runs on. The three steps
are those a client makes (`systests/test_dispatch.purr`): count, clamp, dispatch. `group_count_1d`
is `ceil_div` under another name.

### BackendSelection

`build` ranges over the combinations of platform, pinned backend, `CHEATAH_GPU_METAL_AVAILABLE`
(inferred, yes or no) and `CHEATAH_GPU_NO_BACKEND_WARNING`; defining both backend macros is
excluded, since `backend.hpp:34` asks for exactly one. Each read or write of a flag in
`warn_backend_selection` is a step of its own. The flags are plain `bool`s, so overlapping calls
are a data race; the model gives a racing read the old or the new value, which is what a build
produces for a byte. Printing is one step. `printed < 2` bounds the notices. `wasMuted`, `hushed`
and `late` are ghost state the properties are stated with.

### VulkanHandles and VulkanCommands

Words are numbers below `W64`, `W32`, `W16`; a long long is the signed word of `W64` values. `token`
and `handle` are the conversions of `handles.hpp`, `Cast` what the body of an overload does with the
long long it was given: a `reinterpret_cast` for a handle, a `static_cast` for a number, by the width
of its Vulkan type. Keeping the sign matters: half of the handle words are negative as a long long.

`VulkanCommands` is the surface as data, one record of commands for each stretch of `commands.hpp`
and one set of records for each `#ifdef` guard: the types the long long overload casts its by-value
parameters to, whether the command makes, lends or frees a handle or is a plain call, and the command
its `@destroy` note names. The roles follow from the exact overload's signature (an out-parameter of
a handle type, a name beginning with Create, Allocate, Get, Destroy or Free) and the note. Commands
whose parameters are pointers only appear with empty lists.

### VulkanProgram

The program holds tokens and, for the specification only, knows what object each should name
(`maker`, `object`). The driver's objects are pairs <kind, word>; the driver and volk are external.
A program makes objects, passes their tokens, and releases each with the command that the note of its
maker names, inner objects first; command buffers and descriptor sets may go with their pool. At
every call `FaultsOf` compares what reaches the driver with what the program means: `"handle"` for a
word that is not the object meant, `"driver"` for a function pointer that leads to another driver,
`"number"` for a number that changed. A program loads its instance and its only device as
`loader.hpp` says; the suite (`tests/vulkan`) has several devices and loads each for a moment to
probe it, then restores the instance's pointers. A program stops at its first fault, so that each
behaviour has one cause.

### WindowFrames

`pc` is the position of the one thread in `open_impl`, the loop of `test_window.purr`, `draw_impl` and
`close_impl`; each Vulkan call that can block, fail or be seen by the GPU is a step. The GPU, the queue
and the presentation engine are external and run at their own pace. A submit has three stages: its first
barrier runs without waiting, since it starts at the top of the pipe (lines 242-244), and what the image
held is gone; colours are written once `acquired` is set, which is where the submit waits (265-267); the
end leaves the commands' frame in the image, as they are recorded at that moment, and signals. A present
waits and hands its image over; the engine gives an image back when it holds as many as the surface
needs, and may read it until `acquired` is signaled. The user may close the window, the surface may go
out of date, a step of opening, an acquire or a submit may fail. A surface says, beside its image
counts, whether its presents keep the queue's order (`QueuePresents`): a driver may do so, and
`close_impl` needs it of `vkDeviceWaitIdle`, but the specification of presentation does not promise it.
On other surfaces work overtakes a present that waits, and closing does not wait for it. The properties
on images and presents are about surfaces of the first sort; finding 7 says what becomes of them on the
others. `TypeOK`, `FenceWillSignal`, `CommandBufferIdle` and the rest of `NothingInUseDestroyed` are
about both. `dropped` is set by a failed submit, whose result the code ignores (line 270): the
properties that then fail say so in their text.

### Release

A tree is the state of the sources and, for each surface, the sources it was generated from. `green` and
`readme_ver` say which sources pass the gates and which version their README names. The developer edits,
generates, stages and commits between any two steps of the script. Each step may fail; `push`, `gh
release create` and the upload may also have their effect and then fail. `clean`, `careful` and
`earlier` are ghost state: a run is clean when all was committed at its start, nobody touched anything
and no gate was skipped; `earlier` are the tags there were when the run began. Pre-release marks and
notes are left out.

## Runs

All runs are in `PROJECT.json` with their properties. Deadlock checking is off in all of them: a
client may stop at any call, names run out, programs and scripts end.

| Run | Instance | Shows |
|---|---|---|
| `metal_program` | one object of each kind, both encoders, a colour and a depth view, two pools; counts up to 2; 165 000 states | `TypeOK`; counts exact; nothing held is freed; views follow their owner; nothing left at the end, and an honest leak report; implements `Ownership` |
| `encoding` | both encoders on one command buffer, one pass, one shared resource; 134 000 states | encoders in use have a live pass; commit reads live resources, and only what the client handed over |
| `released_before_commit` | a compute encoder and two buffers, a client that relies on the command buffer | finding: commit reads a freed buffer |
| `render_queue` | two encoders on one pass of a colour and a depth attachment, two textures, two changes of attachment, two draws, two commits; 1 million states | clears lead, `RenderPasses` implemented |
| `retargeted_pass` | one encoder, two textures, two changes of attachment | finding: a draw lands on a texture set after the clears were taken |
| `compute_queue` | one encoder, indices 0 and 1, two buffers and nil, two kernels, two dispatches, two commits; 259 000 states | kernels see their dispatch's bindings, in order |
| `dispatch` | two axes, words of two bits: all 4096 combinations of items, group size and limit | nothing wraps; exact, within limits, covering |
| `backend_notice` | two threads, all builds | the active backend runs; loud, muted, not repeated later |
| `backend_race` | two threads | finding: the notice is printed twice |
| `vulkan_program` | the whole surface under its smallest and its largest set of guards; six programs that together make every kind of object; words of 3, 2 and 1 bits; 6 tokens; 5 500 states | handles, drivers and numbers arrive; releasing by the notes leaves nothing |
| `window_frames` | surfaces of one or two images at least, with or without a maximum, presents ordered or not; 4 frames; 134 000 states | fence and command buffer are used in turn; where presents are ordered, what is shown is what was drawn, closing destroys nothing in use, the program ends and presents arrive |
| `release` | two states of the sources, two tags, four moves of the developer; 3 million states | gated first, release equals tag, a careful release is checked, nothing changes under an earlier run's tag |

Why the bounds are enough. The runtime's hazards need a count of two, one object released by
another's destructor, one view of each kind and two nested scopes; each is present, and the proofs
lift the bound. In `metal_program` every `new*` message goes to a device, since there is one object of
the plain kind; functions from libraries occur in `released_before_commit` and in the proofs. An order
violation in a queue needs two encoders or two draws, a stale capture one change between two calls, a
repeated commit two commits. Holes in the pointer vector need two indices. Two-bit words contain zero,
one, the maximum, exact and inexact quotients; the proofs hold for every width. A race on one flag
needs two threads. A wrong cast shows in words of any width that have a sign and differ from the next
width, and a command's entry does not depend on the width. The widest command list belongs to the
largest set of guards; the smallest shows that no note names a command of another guard. A draw
waits for the submit before it, and the surfaces have one to three images, so that by the fourth frame
an image is drawn to again while others are shown; a surface that allows only its minimum is the tight
case. A release needs one change between the comparison
and the tag and a second run under the same tag: four moves are an edit, a generation, a staging and a
commit. Interchangeable pools, encoders and textures are declared symmetric in the `MC` modules.

Fairness is assumed in `WindowFrames` only. The program is one thread that goes on unless a wait holds
it: `WF` on `Proceeds`, all its steps but the two failures, `OpenFails` and `DrawFails`. An acquire that
finds no image therefore waits for ever (its timeout is `UINT64_MAX`) and is not saved by a failure. The
GPU goes on with what can go on, and the engine goes on presenting and giving back images: `WF` on each
of `ImageReady`, `RenderBegins`, `RenderDraws`, `RenderEnds`, `PresentStarts`, `Refresh`. Nothing is
assumed of the user, of the surface or of failures. Elsewhere
nothing has to happen: a client may stop, and a script that fails ends.

### Findings

With a run:

1. `commandBuffer` behaves as `commandBufferWithUnretainedReferences` (`emulated_metal.cpp:501`): a
   resource released between encoding and commit is freed, and commit reads it. On a device
   `commandBuffer` keeps it, so a program that is correct there is not correct here, while
   `emulated_metal.cpp:6` promises that the same code compiles and runs.
2. A draw lands on the textures its pass names when it is encoded (`emulated_metal.cpp:725-733`), not
   on those it named when the encoder was created, when its clears were queued (518-547). A device
   takes both at creation, "a snapshot" (515-516); the same code (6) draws elsewhere here.
3. Two threads can both print the notice (`backend.hpp:237-242`), which is documented as printed
   at most once per process (`backend.hpp:182`). For one thread it is (proved), and no call that
   begins when a notice is out prints another (proved).

Met while modelling, without a run of their own:

4. A nil bound with `setBuffer` is dereferenced at commit (`emulated_metal.cpp:582`), while
   `emulated.hpp:47-48` and 61-62 tell a kernel to expect null. `crashed` marks these behaviours of
   `ComputeQueue`, which make no call; its properties are about the others.
5. A build off Apple that predefines `CHEATAH_GPU_METAL_AVAILABLE` and pins no backend gets Vulkan,
   its platform's default, and is told that it is suboptimal (`backend.hpp:79` against 32 and 173).
6. The barrier that takes an acquired image out of its old layout starts at `TOP_OF_PIPE`
   (`window.cpp:242-244`), but the submit waits for `acquired` only at `COLOR_ATTACHMENT_OUTPUT` (265-267):
   the transition is not behind the wait and may write the image while the engine still reads it.
   `RenderBegins` does so; `NotWhileRead` and `DrawnWhenGivenBack` speak of the colour writes, which do wait.
7. One `rendered` semaphore for all images (`window.cpp:272`) counts on presents in queue order, which
   presentation does not promise. With unordered presents and four frames, `window_frames`
   gives: `TypeOK`, `FenceWillSignal` and `CommandBufferIdle` hold; with more images than one, a
   render may signal the semaphore while an earlier present still waits on it, one signal is lost, and
   `ShowsDrawn`, `NotWhileRead` and `PresentsArrive` without their condition fail; with one image they hold, but
   closing may destroy the semaphore and the swapchain under a present; `ProgramEnds` without its condition
   holds with a minimum of one image and fails with a minimum of two, where presents that never start
   keep the images an acquire waits for.
8. A submit that fails leaves the fence reset with nothing to signal it, and the next draw waits for
   ever (`window.cpp:232, 236-238, 270`), although `window.hpp:31` has draw return 0 on failure.
   `dropped` marks these behaviours.
9. An out-of-date swapchain makes every later draw return 1 without drawing (`window.cpp:236`); it is
   never recreated. The program still ends, which `ProgramEnds` shows.
10. A step of `open_impl` that fails returns without destroying what the earlier ones made
   (`window.cpp:50` and after).
11. `release.sh:12` says a release can never ship generated code without checking it, which holds when
   everything was committed at the start and nobody works meanwhile (`CarefulReleaseIsChecked`): the
   working tree is tested and compared with the index (line 40), but HEAD is tagged (line 72).
   `QA_GATE_SKIP=1` passes the QA gate untested, although `release.sh:2-3` says every gate must pass.
12. A release that failed after its tag was made cannot be completed by running the script again
   (`NoRetry`): `git tag` refuses.
13. `CreateComputePipelines`, `CreateGraphicsPipelines` and `CreateRenderPass2` have no `@destroy`
    note; the program of `VulkanProgram` falls back on the command that takes the kind back.

## Proofs

Every property of the passing runs is proved for all values of the constants, except the two about
liveness. Assumptions are those the modules name: the sets of object names are finite and disjoint where
tags differ, `None` is not an object, the bounds are natural numbers, `MaxWord` is positive, the widths
are even and each at least the next (64 bits at least twice 32). No bound on the size of a set or on a
count is assumed. `CommitReadsLive` assumes `KeepsResources`, `OnceForOneThread` that all threads are
equal; the theorems on the window carry `QueuePresents` where the properties do. What the theorems on
Vulkan need of the table of commands is in `CommandsAssumption` and `SurfaceAssumption` of
`VulkanProgram`, and `vulkan_program` evaluates them on the table of the whole surface. The type
invariants of the dispatch, backend, queue and release modules other than `Dim3Type` are proved and not
run.

**Object runtime.** `RefCountExact` is not inductive by itself. `IInv` adds: a live object has at
least one holder (`CountsOK`); nobody refers to what is not allocated (`DeadOK`, from which
`HoldersKeepAlive` follows); only descriptors are retained as a pass, and only by live encoders
(`LinksOK`); a pool is held by the client alone, and open pools are distinct and alive (`PoolsOK`);
what is tracked is what is alive and counted when the leak check is built in (`TrackedOK`); the
entries of a scope that name an object are numbered from 0 up (`PooledOK`), so that the entry an
`autorelease` adds is new and adds exactly one to the count. The hard step is a release: several
objects lose several references at once, an encoder that dies passes one on, and the descriptor that
then dies takes its views. The lemmas first give the number of holders of each object after a
release (cardinalities of entries and retainers before and after), then show that `IInv` is kept by
`Releasing` for any `drops` that removes holders accordingly, and only then look at the two calls
that release. Creation, `retain`, `autorelease` and `init` each change the holders of one object.
From `IInv` follow, without further induction, `TypeOK`, `RefCountExact`, `HoldersKeepAlive`,
`ViewsFollowOwner`, `CleanExit` and `LeakReportHonest`. The refinement maps references to `Holds`;
its key lemma is that an object is alive exactly if somebody holds it.

**Raw pointers.** Every step of `EncodingSpec` is a step or a stutter of `Spec`, so `IInv` holds
there and its consequences are reused. `EncodersSafe` needs one more invariant, `EncodersOK`: a live
encoder has its command buffer, and only a render encoder has a pass. That the pass is alive then follows
from `IInv`: it is retained. `CommitReadsLive` rests on `HandedOK`: what an encoder is bound to, what the
attachments reachable from a retained pass name and what the closures captured has all been handed to
that command buffer. Its hard cases are a view created late on a pass in use, which names nothing yet,
and an encoder's death, after which its pass may serve another (`RootKept`, `ObjectKeepsHanded`,
`CallsKeepHanded`). What is handed over is held at a commit, and what a client holds is alive.

**Dispatch.** One invariant states what each step has computed, and that nothing outgrew its word
(`Dim3Type`); the rest is integer arithmetic on one axis: quotient and remainder, and a product that
fits in twice the width.

**Backend.** One invariant for each theorem. `Muted`, `Loud` and `NoneLater` hold for any number of
threads; `BackendRuns` is a case split on the macros.

**Compute queue.** The invariant is the type of the queues and of the record of calls in full: every
queued dispatch is one, every call has pointers that fit its dispatch (`GoodCalls`). A commit goes
over the queue with a recursive function; that such a function exists, and that what it yields are
good calls, is shown by an induction over the naturals which is itself derived (`Least`, `Induction`)
from the well-foundedness of `<`. `EncodedOrder` compares the calls a commit adds with the queue: the
same induction carries, over the prefixes of the queue, that the calls made so far are those of the
dispatches so far whose kernel is registered, in their places.

**Render queue.** `ClearsLead` follows from `QueueInv`: one encoder is open at a time (`OneOpen`), the
items of an encoder stand in the queue in one block (`Placed`, `Blocks`), and an open encoder's block is
the last (`StillLast`). The queue may have any length.

`PassesRefined` is the refinement of `RenderPasses`. Four recursive functions meet in it: the passes of
a queue (`PassesOf`), the marks of a pass (`MarksOn`), the pictures after a sequence of passes
(`RunPasses`) and the contents after a queue of closures (`RunAll`). For each, one lemma says that the
function exists and has its type (`PassesAre`, `MarksAre`, `PicturesAre`, `ContentsAre`; all four apply
`RecursionExists`), and, for the first three, another what one element more adds (`...Grow`).
`AddItemRuns` is the heart of it: an item adds to the last pass, or to the passes, exactly what running
its closure does. It needs that a clear never joins a pass, since a pass clears before it draws whenever
the clear was queued; this is what `Blocks` says of the queue. `RunsAlike` takes it over the queue by
induction. Then an encoder that clears encodes a pass, a draw encodes a pass or a draw in the last one,
a commit commits, and all other calls are stutters.

**Vulkan.** `TokenRoundTrip` is that `handle` undoes `token`, and the cast of a handle parameter too,
for every word of every width. `NumbersUnchanged` does the same for numbers and lifts it to the
program: no call of any program, on any table of commands, changes a number that fits.

`HandlesArrive`, `DriverReached` and `TokensNameObjects` are conjuncts or consequences of one inductive
invariant, `HandlesInv`. `ObjectsInv`: what an object is inside of is there, and is inside of no more
than the object is; so releasing an object with all below it leaves nothing inside of what is gone.
`HeldInv`: the program has exactly one token for each object. `VolkInv`: all objects are inside of the
one instance, and what dispatches on a device is below one; the pointers lead to the only device, or look
the device up; a suite that probes makes no call meanwhile. `ReleaseInv`: the command that releases an
object takes the object and what it is inside of, nothing else, which is where the table of commands
matters. `faults = {}` is the last conjunct: at a call, each of the others excludes one cause. The
assumptions on the table
are that a maker takes a dispatchable handle first (only instances are made from nothing), that what is
lent has no optional parents, and that the note of each maker names a command that takes
what the maker gave (`Releases`), also for the surface that GLFW makes.

**Window.** `BaseInv` holds without an assumption on presents. `MadeInv` says which Vulkan objects exist
at each step of opening and closing. `FenceInv` says that the fence is reset only while a submit that
will signal it is in the queue, or is about to be made, or failed: `FenceWillSignal` and
`CommandBufferIdle` follow, since at most one render is in the queue and it ended when the fence is
signaled. `OrderInv` is kept on surfaces whose presents keep the queue's order. `QueueInv`: the queue is
at most the present of the frame before, the render of this frame and its present. `RenderedInv`:
`rendered` is set exactly when the present that will wait for it is the head of the queue, or is about
to be queued. `AcquiredInv`: `acquired` belongs to the image being drawn, and is clear once its render
runs. `FrameInv`: frames are queued and shown in order. `ImageInv`: an image that is shown, or due to
be, holds its frame and is not the one being drawn. That a submit failed (`dropped`) is where the
properties themselves stop.

**Release.** `TypeInv`, `RunInv` (what the step says about tags and gates of the current run) and
`TagInv` (releases, tarballs and remote tags agree with the tag) are inductive and give
`ReleaseMatchesTag` and `GatedFirst`, and `NoRetry` with one more step: past `git_tag`, the tag of the
current run is none of the earlier ones (`RunInv`), and the steps that publish write under that tag
alone (`PublishingSteps`). `CleanInv` says that in a clean run the three copies
agree up to what was regenerated and compared so far; `CarefulInv` carries what a clean run tested
over to the tag it made. They hold for any sources, tags and number of moves.

Model-checked only: `ProgramEnds` and `PresentsArrive`, since liveness and ENABLED are out of the
provers' reach, and the three findings, which are counterexamples. The library's induction theorems
take an operator as a parameter, which the provers cannot instantiate; `ComputeQueueProofs` and
`RenderQueueProofs` therefore derive induction over the naturals as a statement on sets, and use it
wherever a recursive function is reasoned about.

## Not modelled

- Pixel arithmetic of `raster_draw`, clear colours, depth values: floating point.
- `getBytes`/`replaceRegion`: copies of rows without state but the bytes.
- Selector and class lookup, argument unpacking, class objects: naming. Block stubs and the platform
  shim: symbols that only have to exist.
- Buffer offsets and contents, vertex and fragment bytes.
- The Metal surface and the Metal and Vulkan type aliases: `using` declarations and casts between
  pointers and integers; nothing runs. The umbrella header: includes.
- What a Vulkan command does to the GPU: the driver's.
- The text processing of the generators, and what each gate compiles and runs: tool chains.
- Tests and system tests: read as the statement of how clients use the code.
- Builds without the leak check report 0 whatever leaks (line 376); `LeakReportHonest` speaks of
  builds with it. `scripts/metal_gate.sh:112-113` builds the emulator for the system tests without
  it, so the leak assertion of `systests/metal/test_compute.purr` cannot fail off Apple.
- Build configuration, shaders, Valgrind settings, vendored metal-cpp: no behaviour of this
  repository.

## Plan

Done: every module above and the proofs listed.

Left, in this order:

1. `TextureRegions`: the two region copies as functions on rows and columns with strides, checked
   against a reference definition (what is inside the region is copied, the rest kept), with words
   that wrap in the bounds test; the depth test of the rasterizer as an order-dependent fold.
2. `RenderQueue` with several colour attachments, vertex bytes in the snapshot, and a depth target of
   another size than the colour target.
3. `OpenFails` with the objects each failing step leaves (finding 10), and the release of pools out of
   order, if a client is found that does it.
