---------------------------- MODULE PpuPosition ----------------------------
(***************************************************************************)
(* The part of the PPU's state that decides what a step does: where it     *)
(* stands (PpuDots has the positions) and whether it renders.  SpriteEval  *)
(* and VramAddr add the rest of the state that they are about.             *)
(***************************************************************************)
EXTENDS PpuDots

VARIABLES
  line, dot,    \* Ppu.current_scanline, Ppu.current_scanline_dot
  rendering     \* ppumask enables the background or the sprites

\* is_currently_rendering: the idle line counts as well.
CurrentlyRendering == rendering /\ line < FirstVblank
=============================================================================
