----------------------------- MODULE MCLiveMapper -----------------------------
(* A plane of 4 by 4 voxels, a 3 by 3 image: the corner pixels look along the
   diagonal and a row, the others along a row or nowhere inside the grid. *)
EXTENDS LiveMapper

MCAxis == 1..2
Vec(x, y) == [a \in 1..2 |-> IF a = 1 THEN x ELSE y]
MCCameras == {Vec(0, 0), Vec(5, -5)}
MCPositions == {Vec(0, 1), Vec(16, 1)}
MCHeadings == {Vec(5, 0), Vec(-5, 0), Vec(4, 3)}

Spot == [p \in Pixel |-> IF p = <<2, 0>> THEN 10 ELSE 0]
Block == [p \in Pixel |-> IF p[1] > 0 THEN 10 ELSE 0]
MCScenes == {Spot, Block}

\* The right column looks along +x, then down; the rest beyond the border.
MCBeam == [p \in Pixel |-> CASE p = <<2, 0>> -> {Vec(2, 2), Vec(3, 2)}
                             [] p = <<2, 2>> -> {Vec(2, 1), Vec(2, 0)}
                             [] p = <<1, 1>> -> {Vec(2, 2), Vec(2, 3)}
                             [] OTHER -> {}]
MCOptions == {<<TRUE, TRUE>>}
MCSpeeds == {0, 3, NaN}

\* Every black and white frame after a black one: the noise filter only drops
\* pixels, and at the 50th percentile a change of more than half of the pixels
\* raises the threshold to itself, so that nothing counts as changed.
ASSUME DetectorsCompared ==
    \A m \in SUBSET Pixel :
        LET black == [p \in Pixel |-> 0]
            image == [p \in Pixel |-> IF p \in m THEN 10 ELSE 0]
        IN  /\ DetectMotion(black, image, 3) = m
            /\ DetectMotionFiltered(black, image, 3, 4) \subseteq m
            /\ DetectMotionAdaptive(black, image, 3, 50) = IF 2 * Cardinality(m) > Cardinality(Pixel) THEN {} ELSE m
=============================================================================
