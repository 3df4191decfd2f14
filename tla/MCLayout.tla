------------------------------ MODULE MCLayout ------------------------------
(***************************************************************************)
(* A small instance of Layout: a grid of two columns with rows 0..2, tiles *)
(* of one or two columns, all two rows high, as appended tiles are.        *)
(***************************************************************************)
EXTENDS Layout, TLC

CONSTANTS main, side

MCSections == {main, side}
Narrow(s) == {[section |-> s, x |-> x, y |-> y, w |-> 1, h |-> 2] : x \in 0..1, y \in 0..2}
\* These begin in the second column: placeTile pushes them into the grid.
Wide(s) == {[section |-> s, x |-> 1, y |-> y, w |-> 2, h |-> 2] : y \in {0, 2}}
MCAsked == UNION {Narrow(s) \cup Wide(s) : s \in MCSections}

AppSymmetry == Permutations(Apps)
=============================================================================
