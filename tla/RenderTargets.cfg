\* One encoder on a pass that is given another texture while the encoder is open.
SPECIFICATION TargetsSpec
CONSTANTS
    CmdBufs = {c}
    Encoders = {e}
    Descriptors = {p}
    Textures = {t1, t2}
    Vertices = {v}
    ColorIndices = {0}
    Depth = Depth
    None = None
    Cleared = Cleared
    Samples = {s}
    MaxSets = 2
    MaxDraws = 2
    MaxCommits = 1
INVARIANTS DrawsOnSnapshot
CHECK_DEADLOCK FALSE
