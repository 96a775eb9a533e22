\* One command buffer, both kinds of encoder, a pass with a depth view, and one
\* resource, held more than once, for every binding.
SPECIFICATION EncodingSpec
CONSTANTS
    Devices = {d}
    Queues = {q}
    CmdBufs = {c}
    ComputeEncoders = {g}
    RenderEncoders = {e}
    Descriptors = {r}
    ColorArrays = {}
    Colors = {}
    Depths = {z}
    Pools = {p}
    Objects = {x}
    Shared = {x}
    MaxRefs = 2
    None = None
    LeakCheck = TRUE
    Slots = {1}
    KeepsResources = TRUE
INVARIANTS  CommitSafe
CHECK_DEADLOCK FALSE
