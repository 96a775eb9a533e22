\* One encoder, two dispatches with bindings, nil among them, pipeline and kernel
\* changed between.
SPECIFICATION Spec
CONSTANTS
    CmdBufs = {c}
    Encoders = {e}
    Buffers = {b1, b2}
    Names = {f}
    Kernels = {k1, k2}
    MaxIndex = 1
    Nil = Nil
    Unbound = Unbound
    MaxDispatches = 2
    MaxCommits = 2
INVARIANTS KernelSeesBindings
PROPERTIES EncodedOrder
CHECK_DEADLOCK FALSE
