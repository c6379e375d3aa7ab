----------------------------- MODULE SpriteEval -----------------------------
(***************************************************************************)
(* Sprite evaluation and sprite fetching (ppu/sprite_state.rs, called from *)
(* the render lines of ppu/mod.rs): on dots 65..256 of a visible line the  *)
(* sprites of the next line are searched in primary OAM and copied to the  *)
(* slots of secondary OAM, on dots 257..320 the slots become the list that *)
(* the next line draws.  Meanwhile the program can rewrite OAM by DMA,     *)
(* change the sprite size, or switch rendering off and on.                 *)
(*                                                                         *)
(* A byte of OAM is abstracted to one bit: whether, read as a sprite's y,  *)
(* it puts the sprite on the next line.  A sprite's bytes are numbered     *)
(* 4 * sprite + m as in the code's index (n and m of its comments).  The   *)
(* vblank lines, where nothing here changes, are left out.                 *)
(***************************************************************************)
EXTENDS PpuPosition, FiniteSets

CONSTANTS
  NumSprites,   \* sprites in primary OAM: 64
  Oams,         \* the contents of OAM that the program writes: sets of bytes in range
  MaxWrites     \* bound: writes of the program in a behaviour

NumSlots == 8   \* slots in secondary OAM, as many as there are fetch steps

OamBytes == 0 .. 4 * NumSprites - 1

\* An index into primary OAM is a u8, and secondary OAM is no larger.
ASSUME SpriteAssumption ==
  /\ NumSprites \in NumSlots .. 64
  /\ Oams \subseteq SUBSET OamBytes
  /\ MaxWrites \in Nat

VARIABLES
  oam,          \* the bytes of primary OAM that are in range of the next line
  ev,           \* the evaluation, see EvalTypes
  draw,         \* current_sprites_data: a sprite or End in each slot
  writes,       \* bounded: the program's writes so far
  steady        \* auxiliary: since dot 0 of this line OAM and the sprite size
                \* have not changed, and rendering has been on

spriteVars == <<line, dot, rendering, oam, ev, draw, writes, steady>>

Slots == 0 .. NumSlots - 1
End == -1       \* bit 2 of 'attributes': the list ends here

(***************************************************************************)
(* idx: current_sprite_idx; found: sprites_found; done: eval_done;         *)
(* over: the sprite overflow flag of ppustatus; sec: secondary OAM, the    *)
(* sprite in each slot and whether it was in range when its y was copied.  *)
(***************************************************************************)
EvalTypes ==
  [idx : OamBytes, found : 0 .. NumSlots, done : BOOLEAN, over : BOOLEAN,
   sec : [Slots -> [sprite : 0 .. NumSprites - 1, inRange : BOOLEAN]]]

SpritesTypeOK ==
  /\ line \in RenderLines
  /\ dot \in RenderDots
  /\ rendering \in BOOLEAN
  /\ oam \in SUBSET OamBytes
  /\ ev \in EvalTypes
  /\ draw \in [Slots -> -1 .. NumSprites - 1]
  /\ writes \in 0 .. MaxWrites
  /\ steady \in BOOLEAN

\* Ppu::new, at the start of the first pre-render line; draw's slots are
\* zeroed there, so that sprite 0's blank data stands in each.
SpritesInit ==
  /\ line = PreRender
  /\ dot = 0
  /\ rendering = FALSE
  /\ oam \in Oams
  /\ ev = [idx |-> 0, found |-> 0, done |-> FALSE, over |-> FALSE,
           sec |-> [s \in Slots |-> [sprite |-> 0, inRange |-> FALSE]]]
  /\ draw = [s \in Slots |-> 0]
  /\ writes = 0
  /\ steady = FALSE

(***************************************************************************)
(* eval_next_scanline_sprite.                                              *)
(***************************************************************************)
\* current_sprite_idx is a u8 and OAM has 256 bytes: the index wraps.
Wrap(i) == i % (4 * NumSprites)

\* Mutant: the index is advanced past the last sprite without a check.
CopyYNoDone(e) ==
  LET in == e.idx \in oam
      next == IF in THEN e.idx + 1 ELSE Wrap(e.idx + 4)
  IN [e EXCEPT !.sec[e.found] = [sprite |-> e.idx \div 4, inRange |-> in],
               !.idx = next]

\* The byte is a y: an out-of-range sprite is skipped, and its slot reused.
CopyY(e) ==
  LET in == e.idx \in oam
      next == IF in THEN e.idx + 1 ELSE Wrap(e.idx + 4)
  IN [e EXCEPT !.sec[e.found] = [sprite |-> e.idx \div 4, inRange |-> in],
               !.idx = next,
               !.done = ~in /\ next = 0]

\* The other three bytes of a sprite in range; the last completes its slot.
CopyRest(e) ==
  [e EXCEPT !.found = IF e.idx % 4 = 3 THEN e.found + 1 ELSE e.found,
            !.idx = Wrap(e.idx + 1)]

(* All slots are full: look for one sprite more.  m is incremented with n, *)
(* as the hardware does by mistake.                                        *)
ProbeOverflow(e) ==
  LET next == Wrap(e.idx + 4) IN
  IF e.idx \in oam THEN [e EXCEPT !.over = TRUE]
  ELSE [e EXCEPT !.done = next \div 4 = 0,
                 !.idx = IF next % 4 = 3 THEN next - 3 ELSE next + 1]

\* Mutant: overflow is looked for one sprite too early.
EvalOnceEarly(e) ==
  IF e.done THEN e
  ELSE IF e.found < NumSlots - 1
       THEN IF e.idx % 4 = 0 THEN CopyY(e) ELSE CopyRest(e)
  ELSE IF ~e.over THEN ProbeOverflow(e) ELSE e

EvalOnce(e) ==
  IF e.done THEN e
  ELSE IF e.found < NumSlots
       THEN IF e.idx % 4 = 0 THEN CopyY(e) ELSE CopyRest(e)
  ELSE IF ~e.over THEN ProbeOverflow(e) ELSE e

(***************************************************************************)
(* fetch_next_scanline_sprite_data: one slot per step.                     *)
(***************************************************************************)
\* Mutant: no sentinel is written after the last sprite.
FetchNoSentinel(e) ==
  IF e.idx \div 4 < e.found
  THEN /\ draw' = [draw EXCEPT ![e.idx \div 4] = e.sec[e.idx \div 4].sprite]
       /\ ev' = [e EXCEPT !.idx = Wrap(e.idx + 4)]
  ELSE UNCHANGED draw /\ ev' = e

Fetch(e) ==
  IF e.idx \div 4 < e.found
  THEN /\ draw' = [draw EXCEPT ![e.idx \div 4] = e.sec[e.idx \div 4].sprite]
       /\ ev' = [e EXCEPT !.idx = Wrap(e.idx + 4)]
  ELSE /\ draw' = [draw EXCEPT ![e.idx \div 4] = End]
       /\ ev' = e

(***************************************************************************)
(* The steps of a render line.                                             *)
(***************************************************************************)
Advance ==
  /\ dot' = DotAfter(dot, RenderWidth(dot))
  /\ line' = IF dot # LineEnd THEN line
             ELSE IF line = LastVisible THEN PreRender ELSE line + 1
  /\ UNCHANGED <<rendering, oam, writes>>

StartLine ==
  /\ dot = 0
  /\ ev' = [ev EXCEPT !.idx = 0, !.found = 0, !.done = FALSE]
  /\ steady' = rendering
  /\ Advance
  /\ UNCHANGED draw

\* Dot 1 of the pre-render line clears the overflow flag.
DrawTile ==
  /\ dot \in 1 .. 256
  /\ \/ /\ line = PreRender
        /\ ev' = [ev EXCEPT !.over = @ /\ dot # 1]
     \/ /\ line # PreRender
        /\ ev' = IF dot >= 65 /\ rendering
                 THEN EvalOnce(EvalOnce(EvalOnce(EvalOnce(ev)))) ELSE ev
  /\ Advance
  /\ UNCHANGED <<draw, steady>>

\* Mutant: the index of the evaluation is not reset before the fetches.
StartFetchKeepIndex ==
  /\ dot = 257
  /\ IF rendering THEN Fetch(ev) ELSE UNCHANGED <<ev, draw>>
  /\ Advance
  /\ UNCHANGED steady

StartFetch ==
  /\ dot = 257
  /\ IF rendering THEN Fetch([ev EXCEPT !.idx = 0])
     ELSE ev' = [ev EXCEPT !.idx = 0] /\ UNCHANGED draw
  /\ Advance
  /\ UNCHANGED steady

FetchNext ==
  /\ dot \in 258 .. 320
  /\ IF rendering THEN Fetch(ev) ELSE UNCHANGED <<ev, draw>>
  /\ Advance
  /\ UNCHANGED steady

\* The rest of the line prefetches two background tiles.
EndLine ==
  /\ dot \in 321 .. LineEnd
  /\ Advance
  /\ UNCHANGED <<ev, draw, steady>>

SpritesStep == StartLine \/ DrawTile \/ StartFetch \/ FetchNext \/ EndLine

(***************************************************************************)
(* The program, between any two steps.                                     *)
(***************************************************************************)
\* write_ppumask
SetRendering ==
  /\ writes < MaxWrites
  /\ writes' = writes + 1
  /\ rendering' = ~rendering
  /\ steady' = FALSE
  /\ UNCHANGED <<line, dot, oam, ev, draw>>

\* OAM DMA, OAMDATA while not rendering, or a new sprite size in ppuctrl
ChangeOam ==
  /\ writes < MaxWrites
  /\ writes' = writes + 1
  /\ oam' \in Oams \ {oam}
  /\ steady' = FALSE
  /\ UNCHANGED <<line, dot, rendering, ev, draw>>

SpritesNext == SpritesStep \/ SetRendering \/ ChangeOam

SpritesSpec == SpritesInit /\ [][SpritesNext]_spriteVars

-----------------------------------------------------------------------------
(***************************************************************************)
(* Properties.                                                             *)
(***************************************************************************)
\* The sprites in range, and whether OAM's last sprite is one of them.
SpritesInRange == {n \in 0 .. NumSprites - 1 : 4 * n \in oam}
LastInRange == NumSprites - 1 \in SpritesInRange

Evaluated == dot >= 257 /\ line # PreRender /\ steady

(* The search over an unchanging OAM ends in time, and the slots hold the  *)
(* first sprites in range, in OAM order and without repetition.  (With the *)
(* last sprite in range the code starts over from sprite 0, see            *)
(* OverflowOnlyWhenFull.)                                                  *)
FirstSpritesFound ==
  Evaluated /\ ~LastInRange =>
    /\ \A s, t \in 0 .. ev.found - 1 : s < t => ev.sec[s].sprite < ev.sec[t].sprite
    /\ \A s \in 0 .. ev.found - 1 : ev.sec[s].sprite \in SpritesInRange
    /\ \A n \in SpritesInRange :
         \/ \E s \in 0 .. ev.found - 1 : ev.sec[s].sprite = n
         \/ ev.found = NumSlots /\ n > ev.sec[NumSlots - 1].sprite

(* A slot that counts as found was in range when it was copied, whatever   *)
(* happened to OAM since: the fetch's "scanline - y" cannot underflow.     *)
FoundInRange == \A s \in 0 .. ev.found - 1 : ev.sec[s].inRange

(* The fetch writes to a slot that exists, for every point at which        *)
(* rendering is switched off and on.                                       *)
FetchInBounds ==
  dot \in 258 .. 320 /\ rendering => ev.idx \div 4 \in Slots

(* No index of the evaluation or of the fetches leaves its array, and no   *)
(* fetch meets a slot that was not completed.                              *)
SlotsInBounds == SpritesTypeOK /\ FoundInRange /\ FetchInBounds

(* After a line that was rendered throughout, the list to draw is the      *)
(* found slots in order and then the end marker: nothing of an older list  *)
(* is drawn again.                                                         *)
DrawListIsFound ==
  dot >= 321 /\ steady =>
    /\ \A s \in 0 .. ev.found - 1 : draw[s] = ev.sec[s].sprite
    /\ ev.found < NumSlots => draw[ev.found] = End

(* The overflow flag is set by the search over an unchanging OAM only if   *)
(* at least as many sprites are in range as there are slots, provided the  *)
(* last sprite of OAM is not one of them.                                  *)
Overflows == ev'.over /\ ~ev.over /\ steady
EnoughSprites == Cardinality(SpritesInRange) >= NumSlots
OverflowUnlessLast == [][Overflows /\ ~LastInRange => EnoughSprites]_spriteVars

(* The same without the proviso, as the tests of the repository state it:  *)
(* false, because a last sprite in range makes the code start over from    *)
(* sprite 0 and count sprites twice.                                       *)
OverflowOnlyWhenFull == [][Overflows => EnoughSprites]_spriteVars
=============================================================================
