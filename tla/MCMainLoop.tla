----------------------------- MODULE MCMainLoop -----------------------------
(* What users do, one kind of trouble each.                                *)
EXTENDS MainLoop, TLC

CONSTANTS
  A, B, short, long,
  MaxSaves   \* bound: presses of P, each of which may begin a save

TheButtons == A :> 0 @@ B :> 1
TheLengths == short :> 1 @@ long :> 2

Does(keys, window, game) ==
  [keys |-> keys, window |-> window, roms |-> {short}, save |-> FALSE, game |-> game,
   starts |-> 1, presses |-> 0]
Plays == Does({A, B}, FALSE, TRUE)
PlaysAndPauses == [Does({A, Esc}, TRUE, FALSE) EXCEPT !.starts = 2]
PausesAndQuits == [Does({Esc, CtrlQ}, TRUE, TRUE) EXCEPT !.starts = 2]
Saves(roms) ==
  [Does({P}, FALSE, FALSE) EXCEPT !.roms = roms, !.save = TRUE, !.starts = 3, !.presses = MaxSaves]
NoSaveFile == [Does({A, P}, TRUE, FALSE) EXCEPT !.presses = 2]
AllSessions ==
  {Plays, PlaysAndPauses, PausesAndQuits, Saves({long}), Saves({short, long}), NoSaveFile}
=============================================================================
