\* Two encoders, one after the other, on one pass with a colour and a depth
\* attachment that is retargeted between them; bindings change between two draws,
\* and the work is committed twice.
SPECIFICATION Spec
CONSTANTS
    CmdBufs = {c}
    Encoders = {e1, e2}
    Descriptors = {p}
    Textures = {t1, t2}
    Vertices = {v}
    ColorIndices = {0}
    Depth = Depth
    None = None
    Cleared = Cleared
    Samples = {s}
    MaxSets = 2
    MaxDraws = 2
    MaxCommits = 2
SYMMETRY Symmetry
INVARIANTS ClearsLead
PROPERTIES PassesKept
CHECK_DEADLOCK FALSE
