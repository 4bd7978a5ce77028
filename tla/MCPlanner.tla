------------------------------ MODULE MCPlanner ------------------------------
(* A plane of 3 by 3 voxels of one metre, a map of 6 by 6 places. *)
EXTENDS Planner

MCAxis == 1..2
Vec(x, y) == [a \in 1..2 |-> IF a = 1 THEN x ELSE y]
Grid(marked) == [c \in Cell |-> IF c \in marked THEN 1 ELSE 0]
Double(marked) == [c \in Cell |-> IF c \in marked THEN 2 ELSE 0]
Moving(marked) == [dyn |-> Grid(marked), stat |-> Grid({})]


\* Nothing, two rows, the row between them, an L and a stray voxel, one voxel
\* among static ones too faint to block, a faint diagonal, two static ones that
\* block.
MCScenes ==
    { Moving({}), Moving({c \in Cell : c[2] # 1}), Moving({c \in Cell : c[2] = 1}),
      Moving({Vec(0, 0), Vec(1, 0), Vec(0, 1), Vec(2, 2)}),
      [dyn |-> Grid({Vec(2, 1)}), stat |-> Grid({Vec(0, 0), Vec(1, 0), Vec(1, 1)})],
      [dyn |-> Grid({}), stat |-> Grid({Vec(0, 0), Vec(1, 1), Vec(2, 2)})],
      [dyn |-> Grid({}), stat |-> Double({Vec(1, 2), Vec(2, 0)})] }
MCDrones == {Vec(0, 0), Vec(1, 0)}
MCTrips == {<<Vec(-3, -3), Vec(2, -3)>>, <<Vec(-1, -3), Vec(2, 1)>>, <<Vec(-3, 2), Vec(3, 2)>>, <<Vec(-3, -3), Vec(2, 2)>>}
=============================================================================
