------------------------------ MODULE Display ------------------------------
(***************************************************************************)
(* What the renderer promises to the emulator: whenever the window changes *)
(* what it shows, it shows the newest frame that the emulator has drawn,   *)
(* whole; and it goes on doing so.                                         *)
(***************************************************************************)
EXTENDS Naturals

CONSTANT MaxBehind   \* bound: frames are told apart up to this age

VARIABLES
  on,        \* the renderer is in use
  drawing,   \* the emulator is in the middle of a frame
  behind     \* the frames begun since the one that is shown

vars == <<on, drawing, behind>>

Init == on = TRUE /\ drawing = FALSE /\ behind = MaxBehind

BeginFrame ==
  /\ on /\ ~drawing
  /\ drawing' = TRUE
  /\ behind' = IF behind < MaxBehind THEN behind + 1 ELSE behind
  /\ UNCHANGED on

EndFrame ==
  /\ on /\ drawing
  /\ drawing' = FALSE
  /\ UNCHANGED <<on, behind>>

Show ==
  /\ on /\ ~drawing
  /\ behind' = 0
  /\ UNCHANGED <<on, drawing>>

SwitchOff ==
  /\ on
  /\ on' = FALSE
  /\ UNCHANGED <<drawing, behind>>

Next == BeginFrame \/ EndFrame \/ Show \/ SwitchOff

(* Frames that are drawn over and over are shown over and over.            *)
Spec == Init /\ [][Next]_vars /\ SF_vars(Show)
=============================================================================
