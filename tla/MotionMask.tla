------------------------------ MODULE MotionMask ------------------------------
(***************************************************************************)
(* The motion detectors of core/motion.hpp.  An image is a function from   *)
(* pixels to brightness; a mask is the set of the pixels that changed.     *)
(* Two frames of one provider have the same size.                          *)
(***************************************************************************)
EXTENDS Integers, FiniteSets

CONSTANTS Width, Height

ASSUME ImageConstants == Width \in Nat \ {0} /\ Height \in Nat \ {0}

Pixel == (0..Width - 1) \X (0..Height - 1)
Image == [Pixel -> Nat]

Difference(prev, next, p) == IF prev[p] > next[p] THEN prev[p] - next[p] ELSE next[p] - prev[p]

DetectMotion(prev, next, threshold) == {p \in Pixel : Difference(prev, next, p) > threshold}

\* The difference at index percentile/100 * count of the sorted differences,
\* or the base threshold if that is larger.
AdaptiveThreshold(prev, next, base, percentile) ==
    LET count == Cardinality(Pixel)
        wanted == (percentile * count) \div 100
        index == IF wanted < count - 1 THEN wanted ELSE count - 1
        Below(d) == Cardinality({p \in Pixel : Difference(prev, next, p) < d})
        UpTo(d)  == Cardinality({p \in Pixel : Difference(prev, next, p) <= d})
        value == CHOOSE d \in {Difference(prev, next, p) : p \in Pixel} : Below(d) <= index /\ index < UpTo(d)
    IN  IF value > base THEN value ELSE base

DetectMotionAdaptive(prev, next, base, percentile) ==
    DetectMotion(prev, next, AdaptiveThreshold(prev, next, base, percentile))

Border == {p \in Pixel : p[1] \in {0, Width - 1} \/ p[2] \in {0, Height - 1}}
Around(p) == {q \in Pixel \ {p} : q[1] - p[1] \in -1..1 /\ q[2] - p[2] \in -1..1}

\* Changed pixels with too few changed neighbours are dropped, except on the
\* border, which the filter does not look at.
DetectMotionFiltered(prev, next, threshold, min_region_size) ==
    LET changed == DetectMotion(prev, next, threshold)
    IN  {p \in changed : \/ min_region_size <= 1
                         \/ p \in Border
                         \/ Cardinality(Around(p) \cap changed) >= min_region_size}
=============================================================================
