\* Both kinds of encoder, a pass with a colour and a depth view, another object and
\* two pools; the render encoder is also retained, autoreleased and lost.
SPECIFICATION Spec
CONSTANTS
    Devices = {d}
    Queues = {q}
    CmdBufs = {c}
    ComputeEncoders = {g}
    RenderEncoders = {e}
    Descriptors = {r}
    ColorArrays = {a}
    Colors = {v1}
    Depths = {z}
    Pools = {p1, p2}
    Objects = {x}
    Shared = {e}
    MaxRefs = 2
    None = None
    LeakCheck = TRUE
SYMMETRY Symmetry
INVARIANTS TypeOK RefCountExact HoldersKeepAlive CleanExit ViewsFollowOwner LeakReportHonest
PROPERTIES OwnershipKept
CHECK_DEADLOCK FALSE
