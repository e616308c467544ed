--------------------------------- MODULE Grid ----------------------------------
(***************************************************************************)
(* The grid of cw09 (grid.c) and its division among threads (life.c:82-90).*)
(***************************************************************************)
EXTENDS Integers, FiniteSets

CONSTANTS Width, Height,  (* GRID_WIDTH, GRID_HEIGHT                        *)
          NThreads        (* n_threads                                      *)

Size == Width * Height

ASSUME GridAssumption ==
  /\ Width \in Nat \ {0} /\ Height \in Nat \ {0}
  /\ NThreads \in 1 .. Size   \* life.c:65

Cells  == 0 .. Size - 1
Grids  == [Cells -> BOOLEAN]
Thread == 0 .. NThreads - 1

Row(k) == k \div Width
Col(k) == k % Width

Neighbours(k) ==
  {n \in Cells \ {k} : Row(n) - Row(k) \in -1 .. 1 /\ Col(n) - Col(k) \in -1 .. 1}

IsAlive(k, grid) ==
  LET count == Cardinality({n \in Neighbours(k) : grid[n]})
  IN  IF grid[k] THEN count \in {2, 3} ELSE count = 3

UpdateGrid(grid) == [k \in Cells |-> IsAlive(k, grid)]

(* A thread computes the cells from Start up to, not including, End.       *)
Start(t) == (t * Size) \div NThreads

(* Faulty variant of End: the division comes first.                        *)
EndRounded(t) == (t + 1) * (Size \div NThreads)

End(t) == IF t = NThreads - 1 THEN Size ELSE ((t + 1) * Size) \div NThreads

Part(t) == {k \in Cells : Start(t) <= k /\ k < End(t)}

=============================================================================
