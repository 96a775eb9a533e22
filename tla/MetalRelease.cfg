\* A compute encoder, two buffers and a client that counts on the command buffer to
\* keep what was encoded into it, as one of commandBuffer does on a device.
SPECIFICATION EncodingSpec
CONSTANTS
    Devices = {d}
    Queues = {q}
    CmdBufs = {c}
    ComputeEncoders = {g}
    RenderEncoders = {}
    Descriptors = {}
    ColorArrays = {}
    Colors = {}
    Depths = {}
    Pools = {p}
    Objects = {x, y}
    Shared = {g, x}
    MaxRefs = 2
    None = None
    LeakCheck = TRUE
    Slots = {1}
    KeepsResources = FALSE
INVARIANTS CommitSafe
CHECK_DEADLOCK FALSE
