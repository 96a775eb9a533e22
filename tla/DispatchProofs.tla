--------------------------- MODULE DispatchProofs ---------------------------
(***************************************************************************)
(* The dimensioning arithmetic is right for words of every width and any    *)
(* number of axes.                                                           *)
(***************************************************************************)
EXTENDS Dispatch, TLAPS

\* Division with remainder.
LEMMA Division ==
  ASSUME NEW n \in Nat, NEW d \in Nat \ {0}
  PROVE  /\ n \div d \in Nat /\ n % d \in Nat
         /\ n = d * (n \div d) + (n % d) /\ n % d < d
BY SMT

\* A product of naturals with a positive factor is no smaller than the other.
LEMMA ProductBound ==
  ASSUME NEW q \in Nat, NEW d \in Nat \ {0}
  PROVE  d * q >= q
BY SMT

\* ceil_div is the least count of groups of d that covers n, and never wraps.
LEMMA CeilDiv ==
  ASSUME NEW n \in Word, NEW d \in Word
  PROVE  /\ ceil_div(n, d) \in Word
         /\ d > 0 => /\ ceil_div(n, d) * d >= n
                     /\ ceil_div(n, d) > 0 => (ceil_div(n, d) - 1) * d < n
         /\ d = 0 => ceil_div(n, d) = 0
         /\ n = 0 => ceil_div(n, d) = 0
<1> USE MaxWordType DEF Word
<1>1. CASE d = 0  BY <1>1 DEF ceil_div
<1>2. CASE d > 0
  <2> DEFINE q == n \div d
             r == n % d
             c == q + IF r # 0 THEN 1 ELSE 0
  <2>1. q \in Nat /\ r \in Nat /\ n = d * q + r /\ r < d  BY <1>2, Division
  <2>2. d * q >= q  BY <2>1, <1>2, ProductBound
  <2> HIDE DEF q, r
  <2>3. c \in 0..MaxWord
    <3>1. CASE r = 0  BY <3>1, <2>1, <2>2
    <3>2. CASE r # 0  BY <3>2, <2>1, <2>2
    <3> QED  BY <3>1, <3>2
  <2>4. ceil_div(n, d) = c
    <3>1. ceil_div(n, d) = Wrap(c)  BY <1>2 DEF ceil_div, q, r
    <3>2. c % (MaxWord + 1) = c  BY <2>3
    <3> QED  BY <3>1, <3>2 DEF Wrap
  <2>5. (q + 1) * d = d * q + d /\ q * d = d * q  BY <2>1
  <2>6. c * d >= n
    <3>1. CASE r = 0  BY <3>1, <2>1, <2>5
    <3>2. CASE r # 0  BY <3>2, <2>1, <2>5
    <3> QED  BY <3>1, <3>2
  <2>7. c > 0 => (c - 1) * d < n
    <3>1. CASE r = 0
      <4>1. (q - 1) * d = d * q - d  BY <2>1
      <4> QED  BY <3>1, <4>1, <2>1, <1>2
    <3>2. CASE r # 0
      <4>1. c - 1 = q  BY <3>2, <2>1
      <4> QED  BY <3>2, <4>1, <2>1, <2>5
    <3> QED  BY <3>1, <3>2
  <2>8. n = 0 => c = 0
    <3>1. ASSUME n = 0  PROVE q = 0 /\ r = 0
      <4>1. q = 0  BY <3>1, <2>1, <2>2
      <4> QED  BY <4>1, <3>1, <2>1
    <3> QED  BY <3>1
  <2> QED  BY <2>3, <2>4, <2>6, <2>7, <2>8, <1>2
<1> QED  BY <1>1, <1>2

\* The product of two words fits the double-width size fields.
LEMMA ProductFits ==
  ASSUME NEW a \in Word, NEW b \in Word
  PROVE  /\ a * b \in Nat
         /\ WrapWide(a * b) = a * b
<1> USE MaxWordType DEF Word
<1> DEFINE M == MaxWord + 1
<1>1. a * b <= MaxWord * b  BY SMT
<1>2. MaxWord * b <= MaxWord * MaxWord  BY SMT
<1>3. M * M = MaxWord * MaxWord + 2 * MaxWord + 1  BY SMT
<1>4. a * b \in Nat /\ MaxWord * b \in Nat /\ MaxWord * MaxWord \in Nat  BY SMT
<1>5. a * b < M * M  BY <1>1, <1>2, <1>3, <1>4
<1>6. M * M \in Nat \ {0}  BY <1>3, <1>4
<1>7. \A x, m \in Nat : x < m => x % m = x  BY SMT
<1> HIDE DEF M
<1>8. (a * b) % (M * M) = a * b  BY <1>4, <1>5, <1>6, <1>7
<1> QED  BY <1>4, <1>8 DEF WrapWide, M

-----------------------------------------------------------------------------
\* What each step has left behind.
Steps ==
    /\ step \in {"count", "clamp", "dispatch", "done"}
    /\ items \in Dim3 /\ local_size \in Dim3 /\ device_max \in Dim3
    /\ want = IF step = "count" THEN None3 ELSE group_count_3d(items, local_size)
    /\ groups = IF step \in {"count", "clamp"} THEN None3
                ELSE clamp_group_count(want, device_max)
    /\ grid = IF step # "done" THEN None3 ELSE threads(groups, local_size)

\* The steps are taken in order, each once.
LEMMA StepsInvariant == Spec => []Steps
<1>1. Init => Steps  BY DEF Init, Steps
<1>2. Steps /\ [Next]_dispatchVars => Steps'
  <2> SUFFICES ASSUME Steps, [Next]_dispatchVars  PROVE Steps'
    OBVIOUS
  <2>1. CASE Count  BY <2>1 DEF Count, Steps
  <2>2. CASE Clamp  BY <2>2 DEF Clamp, Steps
  <2>3. CASE DispatchThreadgroups  BY <2>3 DEF DispatchThreadgroups, Steps
  <2>4. CASE UNCHANGED dispatchVars  BY <2>4 DEF dispatchVars, Steps
  <2> QED  BY <2>1, <2>2, <2>3, <2>4 DEF Next
<1> QED  BY <1>1, <1>2, PTL DEF Spec

\* Per axis, the counts asked for and the counts dispatched are words.
LEMMA AxisFacts ==
  ASSUME Steps, NEW a \in Axes
  PROVE  /\ items[a] \in Word /\ local_size[a] \in Word /\ device_max[a] \in Word
         /\ want[a] \in Word /\ groups[a] \in Word
         /\ step # "count" => want[a] = ceil_div(items[a], local_size[a])
         /\ step \in {"dispatch", "done"} =>
               groups[a] = IF want[a] < device_max[a] THEN want[a] ELSE device_max[a]
         /\ step = "done" => grid[a] = groups[a] * local_size[a]
<1>1. items[a] \in Word /\ local_size[a] \in Word /\ device_max[a] \in Word
  BY DEF Steps, Dim3
<1>2. 0 \in Word  BY MaxWordType DEF Word
<1>3. step # "count" => want[a] = ceil_div(items[a], local_size[a])
  BY DEF Steps, group_count_3d
<1>4. want[a] \in Word  BY <1>1, <1>2, <1>3, CeilDiv DEF Steps, None3
<1>5. step \in {"dispatch", "done"} =>
        groups[a] = IF want[a] < device_max[a] THEN want[a] ELSE device_max[a]
  BY DEF Steps, clamp_group_count, clamp_axis
<1>6. groups[a] \in Word  BY <1>1, <1>2, <1>4, <1>5 DEF Steps, None3
<1>7. step = "done" => grid[a] = groups[a] * local_size[a]
  BY <1>1, <1>6, ProductFits DEF Steps, threads
<1> QED  BY <1>1, <1>3, <1>4, <1>5, <1>6, <1>7

\* Sizes, counts and grids stay what their types hold: no count outgrows a word.
THEOREM DimTypes == Spec => []Dim3Type
<1>1. Steps => Dim3Type
  <2> SUFFICES ASSUME Steps  PROVE Dim3Type
    OBVIOUS
  <2>1. want = [a \in Axes |-> want[a]]  BY DEF Steps, None3, group_count_3d
  <2>2. groups = [a \in Axes |-> groups[a]]  BY DEF Steps, None3, clamp_group_count
  <2>3. \A a \in Axes : want[a] \in Word /\ groups[a] \in Word  BY AxisFacts
  <2>4. want \in Dim3 /\ groups \in Dim3  BY <2>1, <2>2, <2>3 DEF Dim3
  <2>5. grid \in [Axes -> Nat]
    <3>1. CASE step # "done"  BY <3>1 DEF Steps, None3
    <3>2. CASE step = "done"
      <4>1. grid = threads(groups, local_size)  BY <3>2 DEF Steps
      <4>2. grid = [a \in Axes |-> grid[a]]  BY <4>1 DEF threads
      <4>3. ASSUME NEW a \in Axes  PROVE grid[a] \in Nat
        <5>1. groups[a] \in Word /\ local_size[a] \in Word /\ grid[a] = groups[a] * local_size[a]
          BY <3>2, AxisFacts
        <5> QED  BY <5>1, ProductFits
      <4> QED  BY <4>2, <4>3
    <3> QED  BY <3>1, <3>2
  <2> QED  BY <2>4, <2>5 DEF Steps, Dim3Type
<1> QED  BY <1>1, StepsInvariant, PTL

\* No dispatch exceeds the device's limits.
THEOREM NeverOverLimit == Spec => []WithinLimits
<1>1. Steps => WithinLimits
  <2>1. ASSUME Steps, step \in {"dispatch", "done"}, NEW a \in Axes
        PROVE  groups[a] <= device_max[a]
    BY <2>1, AxisFacts, MaxWordType DEF Word
  <2> QED  BY <2>1 DEF WithinLimits
<1> QED  BY <1>1, StepsInvariant, PTL

\* The counts are the exact ceilings, with no overflow at UINT32_MAX.
THEOREM ExactCounts == Spec => []CountsExact
<1>1. Steps => CountsExact
  <2>1. ASSUME Steps, step # "count", NEW a \in Axes, local_size[a] > 0
        PROVE  /\ want[a] * local_size[a] >= items[a]
               /\ want[a] > 0 => (want[a] - 1) * local_size[a] < items[a]
    <3>1. /\ items[a] \in Word /\ local_size[a] \in Word
          /\ want[a] = ceil_div(items[a], local_size[a])
      BY <2>1, AxisFacts
    <3> QED  BY <2>1, <3>1, CeilDiv
  <2> QED  BY <2>1 DEF CountsExact
<1> QED  BY <1>1, StepsInvariant, PTL

\* The launched threads reach every item exactly when the clamp did not bite.
THEOREM Coverage == Spec => []CoveredUnlessClamped
<1>1. ASSUME Steps, step = "done", NEW a \in Axes
      PROVE  grid[a] >= items[a] <=>
                items[a] = 0 \/ (local_size[a] > 0 /\ want[a] <= device_max[a])
  <2> DEFINE n == items[a]
             d == local_size[a]
             m == device_max[a]
             w == want[a]
  <2>1. /\ n \in Nat /\ d \in Nat /\ m \in Nat /\ w \in Nat
        /\ grid[a] = (IF w < m THEN w ELSE m) * d
        /\ d > 0 => w * d >= n /\ (w > 0 => (w - 1) * d < n)
    <3>1. /\ n \in Word /\ d \in Word /\ m \in Word /\ w \in Word
          /\ w = ceil_div(n, d)
          /\ grid[a] = (IF w < m THEN w ELSE m) * d
      BY <1>1, AxisFacts
    <3>2. n \in Nat /\ d \in Nat /\ m \in Nat /\ w \in Nat
      BY <3>1, MaxWordType DEF Word
    <3>3. d > 0 => w * d >= n /\ (w > 0 => (w - 1) * d < n)
      BY <3>1, CeilDiv
    <3> QED  BY <3>1, <3>2, <3>3
  <2> HIDE DEF n, d, m, w
  <2>2. CASE d = 0
    <3>1. grid[a] = 0  BY <2>1, <2>2
    <3> QED  BY <3>1, <2>1, <2>2 DEF n, d
  <2>3. CASE d > 0 /\ w <= m
    <3>1. grid[a] = w * d  BY <2>1, <2>3
    <3> QED  BY <3>1, <2>1, <2>3 DEF n, d, m, w
  <2>4. CASE d > 0 /\ w > m
    <3>1. grid[a] = m * d  BY <2>1, <2>4
    <3>2. m * d <= (w - 1) * d  BY <2>1, <2>4, SMT
    <3>3. m * d \in Nat /\ (w - 1) * d \in Int  BY <2>1, SMT
    <3>4. m * d < n  BY <3>2, <3>3, <2>1, <2>4
    <3>5. n # 0  BY <3>3, <3>4, <2>1
    <3> QED  BY <3>1, <3>3, <3>4, <3>5, <2>1, <2>4 DEF n, d, m, w
  <2> QED  BY <2>1, <2>2, <2>3, <2>4
<1>2. Steps => CoveredUnlessClamped  BY <1>1 DEF CoveredUnlessClamped
<1> QED  BY <1>2, StepsInvariant, PTL
=============================================================================
