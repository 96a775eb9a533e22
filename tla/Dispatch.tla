------------------------------ MODULE Dispatch ------------------------------
(***************************************************************************)
(* Dispatch dimensioning (gpu/dispatch/dispatch.hpp) and what becomes of it: *)
(* a client turns a problem size into workgroup counts, clamps them to the   *)
(* device's limits and hands them to dispatchThreadgroups:, where the        *)
(* emulated encoder normalises them to a grid of threads.                    *)
(*                                                                           *)
(* Words are unsigned and wrap: std::uint32_t is Word with MaxWord = 2^32-1,  *)
(* and the MTL::Size fields the counts are widened to have twice the width.   *)
(***************************************************************************)
EXTENDS Integers

CONSTANTS Axes,     \* x, y and z
          MaxWord   \* UINT32_MAX

ASSUME MaxWordType == MaxWord \in Nat \ {0}

Word  == 0..MaxWord
Wrap(n) == n % (MaxWord + 1)
WrapWide(n) == n % ((MaxWord + 1) * (MaxWord + 1))
Dim3  == [Axes -> Word]

-----------------------------------------------------------------------------
(* dispatch.hpp                                                             *)

\* Mutant: the usual rounding, which overflows.
ceil_div_naive(numerator, denom) ==
    IF denom = 0 THEN 0 ELSE Wrap(numerator + denom - 1) \div denom

\* Mutant: a group too many, in a type wider than a dimension.
ceil_div_wide(numerator, denom) ==
    IF denom = 0 THEN 0 ELSE numerator \div denom + 1

ceil_div(numerator, denom) ==
    IF denom = 0 THEN 0
    ELSE Wrap(numerator \div denom + IF numerator % denom # 0 THEN 1 ELSE 0)

group_count_3d(items, local_size) ==
    [a \in Axes |-> ceil_div(items[a], local_size[a])]

clamp_axis(want, device_max) == IF want < device_max THEN want ELSE device_max

\* Mutant: a count at or above the limit is left alone.
clamp_missing(want, device_max) ==
    [a \in Axes |-> IF want[a] < device_max[a] THEN device_max[a] ELSE want[a]]

clamp_group_count(want, device_max) ==
    [a \in Axes |-> clamp_axis(want[a], device_max[a])]

\* The grid of threads dispatchThreadgroups: launches: groups times group size.
threads(groups, threads_per_threadgroup) ==
    [a \in Axes |-> WrapWide(groups[a] * threads_per_threadgroup[a])]

-----------------------------------------------------------------------------
(* The client's three steps, as test_dispatch.purr makes them.               *)

VARIABLES
    items,       \* the problem size
    local_size,  \* the shader's threads per workgroup
    device_max,  \* maxComputeWorkGroupCount
    want,        \* the counts the problem asks for
    groups,      \* the counts dispatched
    grid,        \* the threads launched
    step         \* what the client does next

dispatchVars == <<items, local_size, device_max, want, groups, grid, step>>

None3 == [a \in Axes |-> 0]

Init ==
    /\ items \in Dim3 /\ local_size \in Dim3 /\ device_max \in Dim3
    /\ want = None3 /\ groups = None3 /\ grid = None3
    /\ step = "count"

Count ==
    /\ step = "count"
    /\ want' = group_count_3d(items, local_size)
    /\ step' = "clamp"
    /\ UNCHANGED <<items, local_size, device_max, groups, grid>>

Clamp ==
    /\ step = "clamp"
    /\ groups' = clamp_group_count(want, device_max)
    /\ step' = "dispatch"
    /\ UNCHANGED <<items, local_size, device_max, want, grid>>

DispatchThreadgroups ==
    /\ step = "dispatch"
    /\ grid' = threads(groups, local_size)
    /\ step' = "done"
    /\ UNCHANGED <<items, local_size, device_max, want, groups>>

Next == Count \/ Clamp \/ DispatchThreadgroups

Spec == Init /\ [][Next]_dispatchVars

-----------------------------------------------------------------------------
(* Properties.                                                              *)

Dim3Type ==
    /\ items \in Dim3 /\ local_size \in Dim3 /\ device_max \in Dim3
    /\ want \in Dim3 /\ groups \in Dim3
    /\ grid \in [Axes -> Nat]
    /\ step \in {"count", "clamp", "dispatch", "done"}

\* A launch "never exceeds" the device's limits (dispatch.hpp:64, 127).
WithinLimits == step \in {"dispatch", "done"} => \A a \in Axes : groups[a] <= device_max[a]

\* The counts are exact ceilings up to UINT32_MAX: they cover the items and one
\* group less would not (dispatch.hpp:25-27, test_dispatch_cr_group_count_1d.purr:17-19).
CountsExact ==
    step # "count" =>
        \A a \in Axes : local_size[a] > 0 =>
            /\ want[a] * local_size[a] >= items[a]
            /\ want[a] > 0 => (want[a] - 1) * local_size[a] < items[a]

\* The threads of an axis reach every item exactly when there is nothing to do,
\* or the group size is not 0 and the limit is not in the way: a clamped dispatch
\* silently leaves items out, and no product wraps on the way to the grid.
CoveredUnlessClamped ==
    step = "done" =>
        \A a \in Axes :
            grid[a] >= items[a] <=>
                items[a] = 0 \/ (local_size[a] > 0 /\ want[a] <= device_max[a])
=============================================================================
