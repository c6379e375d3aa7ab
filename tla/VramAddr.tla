------------------------------ MODULE VramAddr ------------------------------
(***************************************************************************)
(* The address registers of the PPU (ppu/mod.rs).  One register has two    *)
(* users: while the PPU renders, its steps walk 'current_vram_addr' over   *)
(* the nametables and reload it from 'temp_vram_addr'; at other times the  *)
(* program points it at video memory through ppuaddr and ppudata.  The     *)
(* program writes ppuscroll and ppuaddr in two halves, told apart by one   *)
(* toggle, at any time.                                                    *)
(*                                                                         *)
(* The bytes of video memory are left out: a byte is known by its address. *)
(* The program acts before the steps from ProgramDots only.  What the      *)
(* accesses put on the PPU's address bus is the matter of Mmc3Irq.         *)
(***************************************************************************)
EXTENDS PpuPosition

CONSTANTS
  Temps,          \* temp_vram_addr as the program's set-up leaves it
  Ctrls,          \* values written to ppuctrl: the nametable, the increment mode
  Scrolls,        \* bytes written to ppuscroll
  AddrBytes,      \* bytes written to ppuaddr
  ProgramDots,    \* dots before whose step the program may act
  MaxAccesses     \* bound: accesses of the program in a behaviour

Bytes == 0 .. 255
Addrs == {a \in Nat : a < 16384}

\* VramAddrRegister.inner is a u16 of which 15 bits are used.
Registers == {a \in Nat : a < 32768}

\* The vertical parts of the register count the 240 rows of a nametable.
ASSUME VramAssumption ==
  /\ LastVisible <= 239
  /\ Temps \subseteq Registers
  /\ Ctrls \subseteq [nt : 0 .. 3, by32 : BOOLEAN]
  /\ Scrolls \subseteq Bytes
  /\ AddrBytes \subseteq Bytes
  /\ ProgramDots \subseteq 0 .. LineEnd
  /\ MaxAccesses \in Nat

VARIABLES
  by32,         \* bit 2 of ppuctrl: increment by 32
  v,            \* current_vram_addr
  temp,         \* temp_vram_addr
  toggle,       \* low_bits_toggle: the next write is a second half
  buffer,       \* ppudata_read_buffer: the address of the byte in it
  accesses,     \* bounded: the program's accesses so far
  top, left,    \* auxiliary: the vertical and the horizontal part of temp that
                \* were last loaded into v; None once anything but the
                \* rendering has changed v since, or rendering was off
  half,         \* auxiliary: the program's view of a write to ppuaddr
  pointed       \* auxiliary: where the program has pointed v, or None

ppu == <<line, dot>>
aux == <<top, left, half, pointed>>
vars == <<line, dot, rendering, by32, v, temp, toggle, buffer, accesses,
          top, left, half, pointed>>

None == -1
Fresh == -2     \* half: the next byte written to ppuaddr is the high one

(***************************************************************************)
(* VramAddrRegister: yyy NN YYYYY XXXXX.                                   *)
(***************************************************************************)
CoarseX(a) == a % 32
CoarseY(a) == (a \div 32) % 32
NtX(a)     == (a \div 1024) % 2
NtY(a)     == (a \div 2048) % 2
FineY(a)   == (a \div 4096) % 8

Register(fineY, ntY, ntX, coarseY, coarseX) ==
  4096 * fineY + 2048 * ntY + 1024 * ntX + 32 * coarseY + coarseX

\* get_addr
Addr(a) == a % 16384

SetNametable(a, nt) ==
  Register(FineY(a), nt \div 2, nt % 2, CoarseY(a), CoarseX(a))

\* transfer_temp_horizontal_bits, transfer_temp_vert_bits
WithHorizontal(a, t) == Register(FineY(a), NtY(a), NtX(t), CoarseY(a), CoarseX(t))
WithVertical(a, t)   == Register(FineY(t), NtY(t), NtX(a), CoarseY(t), CoarseX(a))

\* Mutant: the nametable is not switched at the right edge.
NextTileSameTable(a) == IF CoarseX(a) = 31 THEN a - 31 ELSE a + 1

\* increment_vram_addr_coarse_x
NextTile(a) ==
  IF CoarseX(a) = 31
  THEN Register(FineY(a), NtY(a), 1 - NtX(a), CoarseY(a), 0)
  ELSE a + 1

\* Mutant: the fine y is incremented without a look at its value.
NextRowNoCarry(a) == a + 4096

\* increment_vram_addr_y: only the last of 30 rows switches the nametable.
NextRow(a) ==
  IF FineY(a) < 7 THEN a + 4096
  ELSE IF CoarseY(a) = 29 THEN Register(0, 1 - NtY(a), NtX(a), 0, CoarseX(a))
  ELSE Register(0, NtY(a), NtX(a), (CoarseY(a) + 1) % 32, CoarseX(a))

\* increment_vram_addr
NextAddr(a) == (a + (IF by32 THEN 32 ELSE 1)) % 16384

TypeOK ==
  /\ line \in Lines
  /\ dot \in DotsOf(line)
  /\ rendering \in BOOLEAN
  /\ by32 \in BOOLEAN
  /\ v \in Registers
  /\ temp \in Registers
  /\ toggle \in BOOLEAN
  /\ buffer \in Addrs
  /\ accesses \in 0 .. MaxAccesses
  /\ top = None \/ top \in Registers
  /\ left = None \/ left \in Registers
  /\ half \in {None, Fresh} \/ half \in Bytes
  /\ pointed = None \/ pointed \in Addrs

\* In vblank, after a program's set-up writes to ppuctrl, ppuscroll and ppumask.
Init ==
  /\ line = FirstVblank
  /\ dot = 0
  /\ rendering \in BOOLEAN
  /\ by32 = FALSE
  /\ v = 0
  /\ temp \in Temps
  /\ toggle = FALSE
  /\ buffer = 0
  /\ accesses = 0
  /\ top = None
  /\ left = None
  /\ half = Fresh
  /\ pointed = None

(***************************************************************************)
(* The steps of the PPU, one action per match arm.                         *)
(***************************************************************************)
NextDot(w) ==
  /\ dot' = DotAfter(dot, w)
  /\ line' = IF dot = LineEnd
             THEN IF line = LastVblank THEN PreRender ELSE line + 1
             ELSE line

\* What rendering does to v; the program's own address is lost with it.
Walk(a) ==
  IF rendering
  THEN /\ v' = a
       /\ pointed' = None
  ELSE UNCHANGED <<v, pointed>>

StepUntouched == UNCHANGED <<rendering, by32, temp, toggle, buffer, accesses, half>>

StepStart ==
  /\ line \in RenderLines
  /\ dot = 0
  /\ NextDot(1)
  /\ top' = IF line = PreRender THEN None ELSE top
  /\ StepUntouched
  /\ UNCHANGED <<v, left, pointed>>

StepTile ==
  /\ line \in RenderLines
  /\ dot \in 1 .. 256
  /\ Walk(IF dot + 8 = 257 THEN NextRow(v) ELSE NextTile(v))
  /\ NextDot(8)
  /\ StepUntouched
  /\ UNCHANGED <<top, left>>

\* Mutant: x is also reloaded while rendering is off.
StepReloadXAlways ==
  /\ line \in RenderLines
  /\ dot = 257
  /\ v' = WithHorizontal(v, temp)
  /\ left' = IF rendering THEN temp ELSE left
  /\ pointed' = IF rendering THEN None ELSE pointed
  /\ NextDot(8)
  /\ StepUntouched
  /\ UNCHANGED top

StepReloadX ==
  /\ line \in RenderLines
  /\ dot = 257
  /\ Walk(WithHorizontal(v, temp))
  /\ left' = IF rendering THEN temp ELSE left
  /\ NextDot(8)
  /\ StepUntouched
  /\ UNCHANGED top

StepSprites ==
  /\ line \in RenderLines
  /\ dot \in 258 .. 320
  /\ IF line = PreRender /\ dot = 281
     THEN /\ Walk(WithVertical(v, temp))
          /\ top' = IF rendering THEN temp ELSE top
     ELSE UNCHANGED <<v, top, pointed>>
  /\ NextDot(8)
  /\ StepUntouched
  /\ UNCHANGED left

StepGap ==
  /\ line \in RenderLines
  /\ dot \in 321 .. 327
  /\ NextDot(7)
  /\ StepUntouched
  /\ UNCHANGED <<v, top, left, pointed>>

StepPrefetch ==
  /\ line \in RenderLines
  /\ dot \in {328, LineEnd}
  /\ Walk(NextTile(v))
  /\ NextDot(RenderWidth(dot))
  /\ StepUntouched
  /\ UNCHANGED <<top, left>>

\* step_idle_line and step_vblank_line leave the registers alone.
StepNotRendered ==
  /\ line \notin RenderLines
  /\ NextDot(IF line = Idle THEN IdleWidth(dot) ELSE VblankWidth(dot))
  /\ StepUntouched
  /\ UNCHANGED <<v, top, left, pointed>>

Step ==
  StepStart \/ StepTile \/ StepReloadX \/ StepSprites \/ StepGap
    \/ StepPrefetch \/ StepNotRendered

(***************************************************************************)
(* The program's accesses.                                                 *)
(***************************************************************************)
Access ==
  /\ dot \in ProgramDots
  /\ accesses < MaxAccesses
  /\ accesses' = accesses + 1
  /\ UNCHANGED ppu

WriteCtrl(c) ==
  /\ Access
  /\ temp' = SetNametable(temp, c.nt)
  /\ by32' = c.by32
  /\ half' = IF half \in Bytes THEN None ELSE half
  /\ UNCHANGED <<rendering, v, toggle, buffer, top, left, pointed>>

WriteMask ==
  /\ Access
  /\ rendering' = ~rendering
  /\ top' = None
  /\ left' = None
  /\ UNCHANGED <<by32, v, temp, toggle, buffer, half, pointed>>

ReadStatus ==
  /\ Access
  /\ toggle' = FALSE
  /\ half' = Fresh
  /\ UNCHANGED <<rendering, by32, v, temp, buffer, top, left, pointed>>

WriteScroll(b) ==
  /\ Access
  /\ temp' = IF toggle
             THEN Register(b % 8, NtY(temp), NtX(temp), b \div 8, CoarseX(temp))
             ELSE temp - CoarseX(temp) + b \div 8
  /\ toggle' = ~toggle
  /\ half' = None
  /\ UNCHANGED <<rendering, by32, v, buffer, top, left, pointed>>

\* The program's view: the high byte, then the low byte.
PointAt(b) ==
  /\ half' = IF half = Fresh THEN b
             ELSE IF half \in Bytes THEN Fresh ELSE None
  /\ pointed' = IF half = Fresh THEN pointed
                ELSE IF half \in Bytes THEN Addr(256 * half + b) ELSE None

WriteAddrHigh(b) ==
  /\ Access
  /\ ~toggle
  /\ temp' = 256 * (b % 64) + (temp % 256)
  /\ toggle' = TRUE
  /\ PointAt(b)
  /\ UNCHANGED <<rendering, by32, v, buffer, top, left>>

WriteAddrLow(b) ==
  /\ Access
  /\ toggle
  /\ temp' = temp - (temp % 256) + b
  /\ v' = temp'
  /\ toggle' = FALSE
  /\ top' = None
  /\ left' = None
  /\ PointAt(b)
  /\ UNCHANGED <<rendering, by32, buffer>>

\* After an access to ppudata: while rendering, both parts of v move on.
MoveOn ==
  /\ v' = IF CurrentlyRendering THEN NextRow(NextTile(v)) ELSE NextAddr(v)
  /\ top' = None
  /\ left' = None
  /\ pointed' = IF pointed = None \/ (rendering /\ line <= Idle) THEN None
                ELSE Addr(pointed + (IF by32 THEN 32 ELSE 1))
  /\ UNCHANGED <<rendering, by32, temp, toggle, half>>

IsPalette(a) == a \in 16128 .. 16383      \* 0x3f00-0x3fff

\* The test of read_ppudata: inner >> 8 == 0b111111, of all 15 bits.
ReadsPalette == v \div 256 = 63

\* The address of the byte that a read of ppudata returns.
Returned == IF ReadsPalette THEN Addr(v) ELSE buffer

ReadData ==
  /\ Access
  /\ buffer' = IF ReadsPalette THEN Addr(v) - 4096 ELSE Addr(v)
  /\ MoveOn

WriteData ==
  /\ Access
  /\ UNCHANGED buffer
  /\ MoveOn

Program ==
  \/ \E c \in Ctrls : WriteCtrl(c)
  \/ WriteMask
  \/ ReadStatus
  \/ \E b \in Scrolls : WriteScroll(b)
  \/ \E b \in AddrBytes : WriteAddrHigh(b) \/ WriteAddrLow(b)
  \/ ReadData
  \/ WriteData

Next == Step \/ Program

Spec == Init /\ [][Next]_vars

(***************************************************************************)
(* Properties.                                                             *)
(***************************************************************************)
\* A column of tiles, of the two nametables side by side.
Column(a) == 32 * NtX(a) + CoarseX(a)

\* How many tiles the PPU has fetched since the reload of x at dot 257: two
\* at the end of the line before, and one per step up to dot 241.
TilesFetched ==
  IF line \notin RenderLines \/ dot = 0 THEN 2
  ELSE IF dot <= 249 THEN 2 + (dot - 1) \div 8
  ELSE IF dot = 257 THEN 33
  ELSE IF dot = LineEnd THEN 1 ELSE 0

(* Tile k of a rendered line is fetched from column k to the right of the  *)
(* scroll position that was in force when the line before ended, whatever  *)
(* the program writes to ppuscroll, ppuctrl or the high half of ppuaddr    *)
(* during the line (increment_vram_addr_coarse_x, the fetches on dots 1 to *)
(* 241, 328 and 336, the reload on dot 257).                               *)
ScrollColumn ==
  left # None => Column(v) = (Column(left) + TilesFetched) % 64

\* The rows that the PPU has finished since the reload of y.
RowsDone ==
  IF line \notin RenderLines \/ (line = PreRender /\ dot = 0) THEN LastVisible + 1
  ELSE IF line = PreRender THEN 0
  ELSE IF dot > 249 THEN line + 1 ELSE line

\* The row of pixels n below that of a: a nametable and a row of it.  The rows
\* from 240 on, which are the attribute table, run into row 0 of the same one.
RowBelow(a, n) ==
  LET r == 8 * CoarseY(a) + FineY(a)
  IN CASE r < 240 /\ r + n < 240   -> <<NtY(a), r + n>>
       [] r < 240 /\ r + n >= 240  -> <<1 - NtY(a), r + n - 240>>
       [] r >= 240 /\ r + n < 256  -> <<NtY(a), r + n>>
       [] r >= 240 /\ r + n >= 256 -> <<NtY(a), r + n - 256>>

(* Line n of a frame shows the row n below the vertical scroll position of *)
(* the pre-render line: a write in the middle of a frame moves the picture *)
(* sideways at most (increment_vram_addr_y at dot 249, the reload at dot   *)
(* 281 of the pre-render line).                                            *)
ScrollRow ==
  top # None => RowBelow(v, 0) = RowBelow(top, RowsDone)

\* Every tile comes from where the scroll position says, across and down.
ScrollPosition == ScrollColumn /\ ScrollRow

(* A program that reads ppustatus and writes both halves of an address to  *)
(* ppuaddr points at that address, and keeps pointing 1 or 32 bytes on     *)
(* after each access to ppudata, until the PPU renders; the steps of the   *)
(* PPU leave its address alone while rendering is off                      *)
(* (write_ppuaddr, read_ppustatus, read_ppudata, write_ppudata).           *)
AddressKept ==
  pointed # None => Addr(v) = pointed

(* "read directly from vram if address is in range 0x3f00-0x3fff (palette  *)
(* ram)": a read of ppudata at a palette address does not come from the    *)
(* buffer (the comment in read_ppudata).  False: rendering leaves a fine y *)
(* in v whose top bit, above the 14 bits of the address, fails the test.   *)
PaletteReadDirectly ==
  [][ReadData /\ ~CurrentlyRendering /\ IsPalette(Addr(v)) => Returned = Addr(v)]_vars
=============================================================================
