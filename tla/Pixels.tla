------------------------------- MODULE Pixels -------------------------------
(***************************************************************************)
(* The picture of one visible line (Ppu::draw_8_pixels,                    *)
(* BgDrawState, SpriteState::get_sprite_at_dot_info): the two tiles before *)
(* the line, then 32 steps that draw eight pixels each out of two tiles    *)
(* held in a shift register and fetch the next tile.  The CPU writes the   *)
(* mask and the fine scroll between any two steps.                         *)
(***************************************************************************)
EXTENDS Integers

CONSTANTS
  Strip,     \* the row of the n-th tile fetched, n = 0, 1, ...
  Sprites    \* current_sprites_data: eight rows, and where the list ends

Colours == 0 .. 3
Columns == 0 .. 7           \* column c is bit 7 - c of both bit planes
ScreenX == 0 .. 255

TileRows == [colour : [Columns -> Colours], palette : 0 .. 3]
SpriteRows == [colour : [Columns -> Colours], palette : 0 .. 3, x : 0 .. 255,
               flipped : BOOLEAN, front : BOOLEAN, zero : BOOLEAN, end : BOOLEAN]
DrawRegisters == [bg : BOOLEAN, sprites : BOOLEAN,           \* ppumask
              bgLeft : BOOLEAN, spritesLeft : BOOLEAN,
              fineX : 0 .. 7]                            \* fine_x_scroll

VARIABLES
  screenDot, \* current_scanline_dot
  regs,
  held,      \* bg_state: held[1] is shifted out, held[2] follows it
  fetched,   \* tiles fetched for this line
  screen,    \* the palette index of each pixel of the line; -1 before it is drawn
  zeroHit,   \* sprite zero was hit on this line
  drawnWith, \* auxiliary: the registers when a pixel was drawn
  interrupted \* auxiliary: a step found rendering off

pixelVars == <<screenDot, regs, held, fetched, screen, zeroHit, drawnWith, interrupted>>

Rendering == regs.bg \/ regs.sprites

-----------------------------------------------------------------------------
(***************************************************************************)
(* Sprites: the first of the list with an opaque pixel at the dot.         *)
(***************************************************************************)
Places == 1 .. 8
Listed == {k \in Places : \A j \in 1 .. k : ~Sprites[j].end}

\* current_scanline_dot.wrapping_sub(x + 1)
SpriteOffset(k, d) == (d - (Sprites[k].x + 1)) % 65536

SpriteColour(k, offset) ==
  Sprites[k].colour[IF Sprites[k].flipped THEN 7 - offset ELSE offset]

\* A sprite that would leave the screen on the right is not drawn at all.
Opaque(d) ==
  {k \in Listed : /\ Sprites[k].x < 249
                  /\ SpriteOffset(k, d) < 8
                  /\ SpriteColour(k, SpriteOffset(k, d)) # 0}

First(S) == CHOOSE k \in S : \A j \in S : k <= j

-----------------------------------------------------------------------------
(***************************************************************************)
(* One pixel, the i-th of the eight that a step draws.                     *)
(***************************************************************************)
ColourIndex(palette, colour) == IF colour = 0 THEN 0 ELSE 4 * palette + colour

Shown(on, left, d) == on /\ (d \in 1 .. 8 => left)

\* Column 0 .. 14 of the two tiles.
HeldColour(offset) ==
  IF offset > 7 THEN held[2].colour[offset - 8] ELSE held[1].colour[offset]

BgColour(i) ==
  IF Shown(regs.bg, regs.bgLeft, screenDot + i) THEN HeldColour(i + regs.fineX) ELSE 0

BgPalette(i) == IF i + regs.fineX > 7 THEN held[2].palette ELSE held[1].palette

SpritesAt(i) == IF Shown(regs.sprites, regs.spritesLeft, screenDot + i) THEN Opaque(screenDot + i) ELSE {}

Pixel(i) ==
  LET k == First(SpritesAt(i))
  IN IF SpritesAt(i) # {} /\ (Sprites[k].front \/ BgColour(i) = 0)
     THEN ColourIndex(Sprites[k].palette + 4, SpriteColour(k, SpriteOffset(k, screenDot + i)))
     ELSE ColourIndex(BgPalette(i), BgColour(i))

HitsZero(i) ==
  /\ SpritesAt(i) # {} /\ Sprites[First(SpritesAt(i))].zero
  /\ BgColour(i) # 0
  /\ screenDot + i - 1 # 255

\* With rendering off, one colour: index 0, or the one the address points to.
BackdropIndices == 0 .. 31

-----------------------------------------------------------------------------
\* shift_tile_data_by_8, fetch_current_tile_data
ShiftAndFetch ==
  IF Rendering
  THEN /\ held' = <<held[2], Strip[fetched]>>
       /\ fetched' = fetched + 1
  ELSE UNCHANGED <<held, fetched>>

Noted == interrupted' = (interrupted \/ ~Rendering)

Prefetch ==
  /\ screenDot \in {328, 336}
  /\ ShiftAndFetch /\ Noted
  /\ screenDot' = IF screenDot = 328 THEN 336 ELSE 0
  /\ UNCHANGED <<regs, screen, zeroHit, drawnWith>>

Start ==
  /\ screenDot = 0
  /\ screenDot' = 1
  /\ UNCHANGED <<regs, held, fetched, screen, zeroHit, drawnWith, interrupted>>

Eight == screenDot - 1 .. screenDot + 6

DrawEight ==
  /\ screenDot \in 1 .. 256
  /\ IF Rendering
     THEN /\ screen' = [x \in ScreenX |-> IF x \in Eight THEN Pixel(x - (screenDot - 1))
                                          ELSE screen[x]]
          /\ zeroHit' = (zeroHit \/ \E i \in Columns : HitsZero(i))
     ELSE /\ \E b \in BackdropIndices :
               screen' = [x \in ScreenX |-> IF x \in Eight THEN b ELSE screen[x]]
          /\ UNCHANGED zeroHit
  /\ drawnWith' = [x \in ScreenX |-> IF x \in Eight THEN regs ELSE drawnWith[x]]
  \* The last step of the line increments fine y instead.
  /\ IF screenDot = 249 THEN UNCHANGED <<held, fetched>> ELSE ShiftAndFetch
  /\ Noted
  /\ screenDot' = screenDot + 8
  /\ UNCHANGED regs

\* ppumask and ppuscroll, between two steps
WriteRegisters ==
  /\ screenDot # 257
  /\ regs' \in DrawRegisters
  /\ UNCHANGED <<screenDot, held, fetched, screen, zeroHit, drawnWith, interrupted>>

\* After the end of the line before, with whatever tiles it left.
PixelsInit ==
  /\ screenDot = 328
  /\ regs \in DrawRegisters
  /\ held \in TileRows \X TileRows
  /\ fetched = 0
  /\ screen = [x \in ScreenX |-> -1]
  /\ zeroHit = FALSE
  /\ drawnWith = [x \in ScreenX |-> regs]
  /\ interrupted = FALSE

PixelsNext == Prefetch \/ Start \/ DrawEight \/ WriteRegisters

PixelsSpec == PixelsInit /\ [][PixelsNext]_pixelVars

-----------------------------------------------------------------------------
(***************************************************************************)
(* The picture in screen coordinates: the tiles in a row from the left     *)
(* edge, scrolled by the fine scroll, and each sprite in the eight columns *)
(* from its x.                                                             *)
(***************************************************************************)
InLeft(x) == x < 8

BgAt(x, r) ==
  IF r.bg /\ (InLeft(x) => r.bgLeft)
  THEN Strip[(x + r.fineX) \div 8].colour[(x + r.fineX) % 8] ELSE 0

Covers(k, x) == Sprites[k].x <= x /\ x <= Sprites[k].x + 7 /\ Sprites[k].x <= 248

OwnColour(k, x) ==
  Sprites[k].colour[IF Sprites[k].flipped THEN Sprites[k].x + 7 - x ELSE x - Sprites[k].x]

OpaqueAt(x, r) ==
  IF r.sprites /\ (InLeft(x) => r.spritesLeft)
  THEN {k \in Listed : Covers(k, x) /\ OwnColour(k, x) # 0} ELSE {}

PictureAt(x, r) ==
  LET k == First(OpaqueAt(x, r))
  IN IF OpaqueAt(x, r) # {} /\ (Sprites[k].front \/ BgAt(x, r) = 0)
     THEN ColourIndex(Sprites[k].palette + 4, OwnColour(k, x))
     ELSE ColourIndex(Strip[(x + r.fineX) \div 8].palette, BgAt(x, r))

Drawn == {x \in ScreenX : screenDot \in 1 .. 257 /\ x < screenDot - 1}

\* While rendering stays on, every pixel shows the tile and the sprite that
\* its own column asks for under the registers of its step, whatever the
\* registers were before (draw_8_pixels and the shift register together).
PictureShown ==
  ~interrupted => \A x \in Drawn : screen[x] = PictureAt(x, drawnWith[x])

\* The mark of sprite zero, on the frontmost opaque sprite of the column.
MarkShown(x, r) == OpaqueAt(x, r) # {} /\ Sprites[First(OpaqueAt(x, r))].zero

\* The sprite zero hit does not depend on the sprite's own priority: it is
\* reported where the background is opaque and the frontmost opaque sprite is
\* marked as sprite zero, in any column but the last, and nowhere else
\* (sprite_zero in draw_8_pixels_bg_and_sprites).  Which sprites are marked is
\* open: the evaluation begins with sprite zero, but an index that wraps finds
\* it again and copies it, marked, behind others, where their opaque pixels
\* hide it from the hit.
ZeroHitExact ==
  ~interrupted =>
    (zeroHit <=> \E x \in Drawn : /\ x # 255
                                  /\ BgAt(x, drawnWith[x]) # 0
                                  /\ MarkShown(x, drawnWith[x]))

\* The first of the list is marked and opaque where the background is.
FirstMeetsBg(x, r) ==
  /\ x # 255 /\ BgAt(x, r) # 0
  /\ 1 \in OpaqueAt(x, r) /\ Sprites[1].zero

\* A hit of the first of the list cannot be hidden, and it is the only hit if
\* no other is marked, as when the evaluation has not wrapped.
FirstIsNeverHidden ==
  ~interrupted =>
    /\ (\E x \in Drawn : FirstMeetsBg(x, drawnWith[x])) => zeroHit
    /\ zeroHit /\ (\A k \in Listed : Sprites[k].zero => k = 1) =>
         \E x \in Drawn : FirstMeetsBg(x, drawnWith[x])

PixelsAssumption ==
  /\ Strip \in [Nat -> TileRows]
  /\ Sprites \in [Places -> SpriteRows]
=============================================================================
