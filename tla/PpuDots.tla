------------------------------ MODULE PpuDots ------------------------------
(***************************************************************************)
(* The raster positions of the PPU and how far one call of Ppu::step       *)
(* (ppu/mod.rs) moves through them.  A position is a scanline and a dot of *)
(* that scanline.  step() never visits every dot: it moves 1, 5, 7, 8 or   *)
(* 168 dots at a time, so only the dots below are ever reached, and on any *)
(* other dot some match arm does nothing at all, which would leave         *)
(* catch_up() looping for ever.                                            *)
(*                                                                         *)
(* The number of scanlines is a parameter (the hardware has LastVisible =  *)
(* 239 and LastVblank = 260); the dots of a line are the real ones.        *)
(***************************************************************************)
EXTENDS Integers

CONSTANTS
  LastVisible,   \* the last visible scanline, 239 in the source
  LastVblank     \* the last scanline of vertical blanking, 260 in the source

ASSUME LinesAssumption ==
  /\ LastVisible \in Nat
  /\ LastVblank \in Nat
  /\ LastVblank >= LastVisible + 2

PreRender   == -1
Idle        == LastVisible + 1
FirstVblank == LastVisible + 2

RenderLines == PreRender .. LastVisible
VblankLines == FirstVblank .. LastVblank
Lines       == PreRender .. LastVblank

DotsPerLine == 341
LineEnd     == 336     \* the dot from which the last step of a line is made

\* The dots on which a step of each kind of line can start.
RenderDots == {0} \cup {1 + 8 * k : k \in 0 .. 40} \cup {328, LineEnd}
IdleDots   == {0, 168, LineEnd}
VblankDots == (0 .. 3) \cup {8 * k : k \in 1 .. 42}

DotsOf(l) ==
  IF l \in RenderLines THEN RenderDots
  ELSE IF l = Idle THEN IdleDots ELSE VblankDots

(***************************************************************************)
(* How many dots one step moves, arm by arm; 0 where the code's match arm  *)
(* is "_ => ()".                                                           *)
(***************************************************************************)
\* Mutant: the arm for dots 321..327 moves a whole tile like its neighbours.
RenderWidthWholeTile(d) ==
  IF d = 0 THEN 1
  ELSE IF d \in 1 .. 328 THEN 8
  ELSE IF d = LineEnd THEN 5
  ELSE 0

RenderWidth(d) ==
  IF d = 0 THEN 1
  ELSE IF d \in 1 .. 320 \/ d = 328 THEN 8
  ELSE IF d \in 321 .. 327 THEN 7
  ELSE IF d = LineEnd THEN 5
  ELSE 0

IdleWidth(d) ==
  IF d \in {0, 168} THEN 168
  ELSE IF d = LineEnd THEN 5
  ELSE 0

VblankWidth(d) ==
  IF d \in 0 .. 2 THEN 1
  ELSE IF d \in {3, LineEnd} THEN 5
  ELSE 8

\* The dot after a step of width w: the step from LineEnd ends the line.
DotAfter(d, w) == IF d = LineEnd THEN 0 ELSE d + w

(***************************************************************************)
(* Dots since the start of the idle line.  Every frame of the main loop is *)
(* counted from there: Ppu::new starts at (240, 0) and frame_done is set   *)
(* when the last visible line ends, that is on reaching (240, 0) again.    *)
(***************************************************************************)
LineIndex(l) == IF l >= Idle THEN l - Idle ELSE l + (LastVblank - Idle) + 2
Elapsed(l, d) == DotsPerLine * LineIndex(l) + d
FrameDots == DotsPerLine * (LastVblank + 2)
=============================================================================
