------------------------------ MODULE Generations ------------------------------
(***************************************************************************)
(* Conway's Game of Life, as cw09 is to play it: each generation is        *)
(* computed from the whole of the one before.                              *)
(***************************************************************************)
EXTENDS Grid

VARIABLE grid

Init == grid \in Grids
Next == grid' = UpdateGrid(grid)
Spec == Init /\ [][Next]_grid

=============================================================================
