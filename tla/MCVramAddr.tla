----------------------------- MODULE MCVramAddr -----------------------------
(* Values of the program's accesses for checking VramAddr.                 *)
EXTENDS VramAddr

\* Scroll positions before every edge: of a tile, of the last row of a
\* nametable, of the attribute table, and of the last column.
MCTemps ==
  {Register(7, 0, 1, 29, 31), Register(7, 1, 0, 31, 30), Register(6, 1, 1, 29, 0)}

\* Scrolled to the bottom of the fourth nametable.
PaletteTemps == {Register(7, 1, 1, 25, 0)}

MCCtrls == {[nt |-> 0, by32 |-> FALSE], [nt |-> 3, by32 |-> TRUE]}
=============================================================================
