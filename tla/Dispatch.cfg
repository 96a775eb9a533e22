\* Two axes and words of two bits: every problem size, group size and limit.
SPECIFICATION Spec
CONSTANTS
    Axes = {x, y}
    MaxWord = 3
INVARIANTS Dim3Type WithinLimits CountsExact CoveredUnlessClamped
CHECK_DEADLOCK FALSE
