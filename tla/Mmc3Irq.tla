------------------------------ MODULE Mmc3Irq ------------------------------
(***************************************************************************)
(* The scanline counter of the MMC3 mapper (address_bus/mmc3.rs).  The     *)
(* mapper does not see scanlines: it sees address line A12 of the PPU's    *)
(* bus, in the order and at the cycle counts at which the PPU's steps      *)
(* (ppu/mod.rs, bg_state.rs, sprite_state.rs) and the program's accesses   *)
(* drive it, and has to ignore the rises that follow a high A12 within six *)
(* cycles.  The main loop resets Ppu.cycle_count once a frame, but not the *)
(* cycle count that the mapper remembers.                                  *)
(***************************************************************************)
EXTENDS PpuDots

CONSTANTS
  MaxLatch,      \* the largest value of the latch: 255
  Programs,      \* bound: what a program does, <<tables, dots, accesses, writes>>:
                 \* the settings <<bgTable, sprTable, tall>> that it uses, the dots
                 \* before which it does something, its accesses to PPU registers
                 \* and its writes to the mapper's registers
  Leads          \* bound: by how much the PPU leads the CPU when a frame ends

ASSUME Mmc3Assumption ==
  /\ MaxLatch \in Nat
  /\ \A p \in Programs : /\ p[1] \subseteq BOOLEAN \X BOOLEAN \X BOOLEAN
                         /\ p[2] \subseteq 0 .. LineEnd
                         /\ p[3] \in Nat /\ p[4] \in Nat
  /\ Leads \subseteq 0 .. 167

VARIABLES
  line, dot, evenFrame, frameDone,   \* as in FrameClock
  cycle,       \* Ppu.cycle_count
  rendering,   \* ppumask enables the background or the sprites
  bgTable,     \* A12 of the background's pattern table (ppuctrl bit 4)
  sprTable,    \* A12 of the sprites' pattern table (ppuctrl bit 3)
  tall,        \* sprites are 8x16: each names its own table
  irq,         \* the mapper, see IrqTypes
  cpuIrq,      \* Cpu.irq
  seen,        \* auxiliary: what the mapper should see, see SeenTypes
  quiet,       \* auxiliary: rendering, and no access since dot 0 of this line
  quietBefore, \* auxiliary: the same of the line before
  tables,      \* bounded: the settings that the program uses
  dots,        \* bounded: the dots before which it does something
  accesses,    \* bounded: accesses to PPU registers that are left to it
  writes       \* bounded: writes to the mapper's registers that are left to it

posVars == <<line, dot, evenFrame, frameDone, cycle>>
ctrlVars == <<rendering, bgTable, sprTable, tall>>
watchVars == <<quiet, quietBefore>>
boundVars == <<tables, dots, accesses, writes>>
vars == <<posVars, ctrlVars, irq, cpuIrq, seen, watchVars, boundVars>>

(***************************************************************************)
(* irq_counter, irq_latch, irq_reload, irq_enable, trigger_irq, prev_a12   *)
(* and cycle_count_at_prev_a12_high.                                       *)
(***************************************************************************)
IrqTypes ==
  [counter : 0 .. MaxLatch, latch : 0 .. MaxLatch, reload : BOOLEAN,
   enable : BOOLEAN, trigger : BOOLEAN, a12 : BOOLEAN, highAt : Int]

(***************************************************************************)
(* ticks: times the counter was clocked on this line; loaded, run: the     *)
(* value last loaded into the counter and the ticks since; age: the true   *)
(* number of cycles since A12 was last high, up to FilterSpan; missed: a   *)
(* rise was ignored on this line though A12 had been low for long.         *)
(***************************************************************************)
FilterSpan == 7
UpToSpan(n) == IF n > FilterSpan THEN FilterSpan ELSE n
SeenTypes ==
  [ticks : Nat, loaded : 0 .. MaxLatch, run : Nat,
   age : Int, missed : BOOLEAN]

TypeOK ==
  /\ line \in Lines
  /\ dot \in DotsOf(line)
  /\ evenFrame \in BOOLEAN /\ frameDone \in BOOLEAN
  /\ cycle \in Int
  /\ rendering \in BOOLEAN /\ tall \in BOOLEAN
  /\ bgTable \in BOOLEAN /\ sprTable \in BOOLEAN
  /\ irq \in IrqTypes
  /\ cpuIrq \in Nat
  /\ seen \in SeenTypes
  /\ quiet \in BOOLEAN /\ quietBefore \in BOOLEAN
  /\ accesses \in Nat /\ writes \in Nat

(* Ppu::new and Mmc3CpuAddressBus::new, except that the tables are those   *)
(* that the program will have chosen when it first switches rendering on:  *)
(* until then nothing depends on them.                                     *)
Init ==
  /\ line = Idle
  /\ dot = 0
  /\ evenFrame = TRUE
  /\ frameDone = FALSE
  /\ cycle = 0
  /\ rendering = FALSE
  /\ \E p \in Programs :
       tables = p[1] /\ dots = p[2] /\ accesses = p[3] /\ writes = p[4]
  /\ \E set \in tables : bgTable = set[1] /\ sprTable = set[2] /\ tall = set[3]
  /\ irq = [counter |-> 0, latch |-> 0, reload |-> FALSE, enable |-> FALSE,
            trigger |-> FALSE, a12 |-> FALSE, highAt |-> 0]
  /\ cpuIrq = 0
  /\ seen = [ticks |-> 0, loaded |-> 0, run |-> 0,
             age |-> FilterSpan, missed |-> FALSE]
  /\ quiet = FALSE /\ quietBefore = FALSE

(***************************************************************************)
(* clock_irq_counter.                                                      *)
(***************************************************************************)
\* Mutant: a rise exactly six cycles after a high A12 is not ignored.
LongLowOffByOne(c, at) == c - at >= 6 \/ c - at < 0

\* The difference is cast to u32: a negative one is large.
LongLow(c, at) == c - at > 6 \/ c - at < 0

\* Mutant: the counter is only reloaded on request.
TickedNoWrap(q) ==
  IF q.reload
  THEN [q EXCEPT !.counter = q.latch, !.reload = FALSE]
  ELSE [q EXCEPT !.counter = @ - 1]

\* The counter is reloaded, on request or when it is zero, or decremented.
Ticked(q) ==
  IF q.reload \/ q.counter = 0
  THEN [q EXCEPT !.counter = q.latch, !.reload = FALSE]
  ELSE [q EXCEPT !.counter = @ - 1]

\* Mutant: the IRQ is raised one tick early.
FiresEarly(q) == q.counter <= 1 /\ q.enable

Fires(q) == q.counter = 0 /\ q.enable

\* The counter is clocked when A12 rises after it has been low for long.
Rises(q, a12) == a12 /\ ~q.a12
Ticks(q, a12, c) == Rises(q, a12) /\ LongLow(c, q.highAt)

\* The mapper after A12 had a value at cycle c.
MapperAfter(q, a12, c) ==
  LET tick == Ticks(q, a12, c)
      q1   == IF tick THEN Ticked(q) ELSE q
  IN [q1 EXCEPT !.trigger = @ \/ (tick /\ Fires(q1)),
                !.highAt = IF a12 THEN c ELSE @,
                !.a12 = a12]

\* What is seen of the mapper q, after age cycles without a high A12.
SeenAfter(e, q, a12, c, age) ==
  LET tick   == Ticks(q, a12, c)
      reload == q.reload \/ q.counter = 0
  IN [ticks  |-> IF tick THEN e.ticks + 1 ELSE e.ticks,
      loaded |-> IF tick /\ reload THEN q.latch ELSE e.loaded,
      run    |-> IF ~tick THEN e.run ELSE IF reload THEN 0 ELSE e.run + 1,
      age    |-> IF a12 THEN 0 ELSE UpToSpan(age),
      missed |-> e.missed \/ (Rises(q, a12) /\ ~tick /\ age > 6)]

\* One value of A12 on the bus, at cycle c; s is the mapper, Cpu.irq and
\* what is seen of them.
Clock(s, a12, c) ==
  LET q == MapperAfter(s.irq, a12, c)
  IN [irq |-> q,
      cpuIrq |-> IF q.trigger /\ ~s.irq.trigger THEN s.cpuIrq + 1 ELSE s.cpuIrq,
      cycle |-> c,
      seen |-> SeenAfter(s.seen, s.irq, a12, c, s.seen.age + (c - s.cycle))]

\* What Clock takes, as it is before a step.
Now == [irq |-> irq, cpuIrq |-> cpuIrq, cycle |-> cycle, seen |-> seen]

\* The four values of A12 in bus, two cycles apart from now on.
AfterFetch(bus) ==
  LET s1 == Clock(Now, bus[1], cycle)
      s2 == Clock(s1, bus[2], cycle + 2)
      s3 == Clock(s2, bus[3], cycle + 4)
  IN Clock(s3, bus[4], cycle + 6)

\* The end of a step, cost cycles after its start, that has led to s.
Settle(s, cost) ==
  /\ irq' = s.irq
  /\ cpuIrq' = s.cpuIrq
  /\ cycle' = cycle + cost
  /\ seen' = [s.seen EXCEPT !.age = UpToSpan(@ + (cycle + cost - s.cycle))]

(***************************************************************************)
(* The PPU's steps.                                                        *)
(***************************************************************************)
\* fetch_current_tile_data: nametable, two pattern bytes, attribute
BgFetch == <<FALSE, bgTable, bgTable, FALSE>>

\* fetch_next_scanline_sprite_data: two nametable bytes, two pattern bytes
SpriteFetch(table) == <<FALSE, FALSE, table, table>>

\* What the step may lead to: a tall sprite names its table.
Fetches ==
  IF ~rendering \/ dot \in {249} \cup 321 .. 327 THEN {Now}
  ELSE IF dot \in 257 .. 320
       THEN {AfterFetch(SpriteFetch(t)) : t \in (IF tall THEN BOOLEAN ELSE {sprTable})}
  ELSE {AfterFetch(BgFetch)}

\* The idle cycle of the first visible line is skipped on odd frames.
RenderCost ==
  IF dot = 0 /\ line = 0 /\ rendering THEN (IF evenFrame THEN 1 ELSE 0)
  ELSE RenderWidth(dot)

\* frame_done is handled before the next frame is drawn, see EndFrame.
StepRenderLine ==
  /\ line \in RenderLines
  /\ ~frameDone
  /\ dot' = DotAfter(dot, RenderWidth(dot))
  /\ line' = IF dot = LineEnd THEN line + 1 ELSE line
  /\ frameDone' = (dot = LineEnd /\ line = LastVisible)
  /\ IF dot = 0
     THEN /\ Settle([Now EXCEPT !.seen = [seen EXCEPT !.ticks = 0, !.missed = FALSE]],
                 RenderCost)
          /\ quiet' = rendering
          /\ quietBefore' = quiet
     ELSE /\ \E s \in Fetches : Settle(s, RenderCost)
          /\ UNCHANGED watchVars
  /\ UNCHANGED <<evenFrame, ctrlVars, boundVars>>

(* An instruction goes on for at most one of these steps after the frame is *)
(* done (see FrameClock's LeadBounded); OAM DMA across the end of a frame   *)
(* is left to FrameClock.                                                   *)
StepIdleLine ==
  /\ line = Idle
  /\ frameDone => dot = 0
  /\ dot' = DotAfter(dot, IdleWidth(dot))
  /\ line' = IF dot = LineEnd THEN FirstVblank ELSE line
  /\ Settle(Now, IdleWidth(dot))
  /\ quiet' = FALSE
  /\ quietBefore' = FALSE
  /\ UNCHANGED <<evenFrame, frameDone, ctrlVars, boundVars>>

StepVblankLine ==
  /\ line \in VblankLines
  /\ dot' = DotAfter(dot, VblankWidth(dot))
  /\ line' = IF dot # LineEnd THEN line
             ELSE IF line = LastVblank THEN PreRender ELSE line + 1
  /\ evenFrame' = IF dot = LineEnd /\ line = LastVblank THEN ~evenFrame ELSE evenFrame
  /\ Settle(Now, VblankWidth(dot))
  /\ UNCHANGED <<frameDone, ctrlVars, watchVars, boundVars>>

(* The main loop resets the counters after the instruction during which    *)
(* the frame was done: the PPU's becomes its lead over the CPU, which is   *)
(* only large after a step on the idle line.                               *)
EndFrame ==
  /\ frameDone
  /\ frameDone' = FALSE
  /\ cycle' \in {lead \in Leads : dot = 0 => lead <= 4}
  /\ UNCHANGED <<line, dot, evenFrame, ctrlVars, irq, cpuIrq, seen, watchVars,
                 boundVars>>

(***************************************************************************)
(* The program's accesses to PPU registers.  At least one CPU cycle of the *)
(* frame has passed by then.                                               *)
(***************************************************************************)
Access ==
  /\ cycle >= 3
  /\ dot \in dots
  /\ accesses > 0
  /\ accesses' = accesses - 1
  /\ quiet' = FALSE
  /\ UNCHANGED <<line, dot, evenFrame, frameDone, quietBefore, tables, dots, writes>>

\* write_ppuctrl
SetTables ==
  /\ Access
  /\ \E set \in tables \ {<<bgTable, sprTable, tall>>} :
       bgTable' = set[1] /\ sprTable' = set[2] /\ tall' = set[3]
  /\ UNCHANGED <<cycle, rendering, irq, cpuIrq, seen>>

\* write_ppumask: the bus shows current_vram_addr when not rendering
SetRendering ==
  /\ Access
  /\ rendering' = ~rendering
  /\ IF rendering' /\ line < FirstVblank
     THEN UNCHANGED <<cycle, irq, cpuIrq, seen>>
     ELSE \E a12 \in BOOLEAN : Settle(Clock(Now, a12, cycle), 0)
  /\ UNCHANGED <<bgTable, sprTable, tall>>

\* ppuaddr and ppudata put addresses of the program's choice on the bus
SetAddress ==
  /\ Access
  /\ \E a12 \in BOOLEAN : Settle(Clock(Now, a12, cycle), 0)
  /\ UNCHANGED ctrlVars

(***************************************************************************)
(* The program's writes to the mapper, which do not catch the PPU up.      *)
(***************************************************************************)
MapperWrite ==
  /\ dot \in dots
  /\ writes > 0
  /\ writes' = writes - 1
  /\ UNCHANGED <<posVars, ctrlVars, seen, watchVars, tables, dots, accesses>>

\* 0xc000
WriteLatch ==
  /\ MapperWrite
  /\ \E v \in 0 .. MaxLatch : irq' = [irq EXCEPT !.latch = v]
  /\ UNCHANGED cpuIrq

\* 0xc001
WriteReload ==
  /\ MapperWrite
  /\ irq' = [irq EXCEPT !.reload = TRUE, !.counter = 0]
  /\ UNCHANGED cpuIrq

\* 0xe001
EnableIrq ==
  /\ MapperWrite
  /\ irq' = [irq EXCEPT !.enable = TRUE]
  /\ UNCHANGED cpuIrq

\* Mutant: disabling forgets that the IRQ was triggered, but not Cpu.irq.
DisableIrqKeepLine ==
  /\ MapperWrite
  /\ irq' = [irq EXCEPT !.enable = FALSE, !.trigger = FALSE]
  /\ UNCHANGED cpuIrq

\* 0xe000: also acknowledges the IRQ; Cpu.irq saturates at zero
DisableIrq ==
  /\ MapperWrite
  /\ irq' = [irq EXCEPT !.enable = FALSE, !.trigger = FALSE]
  /\ cpuIrq' = IF irq.trigger /\ cpuIrq > 0 THEN cpuIrq - 1 ELSE cpuIrq

Step == StepRenderLine \/ StepIdleLine \/ StepVblankLine
Program == SetTables \/ SetRendering \/ SetAddress
           \/ WriteLatch \/ WriteReload \/ EnableIrq \/ DisableIrq

Next == Step \/ EndFrame \/ Program

Spec == Init /\ [][Next]_vars

-----------------------------------------------------------------------------
(***************************************************************************)
(* Properties.                                                             *)
(***************************************************************************)
(* Cpu.irq, which the mapper only changes by one, never disagrees with     *)
(* trigger_irq: an acknowledged IRQ leaves nothing pending, and an IRQ     *)
(* that is already pending is not counted twice.                           *)
IrqLineMatches == cpuIrq = IF irq.trigger THEN 1 ELSE 0

(* A line that was rendered without accesses to the PPU clocks the counter *)
(* exactly once, with the background and the sprites in different pattern  *)
(* tables, although A12 rises eight times or more on it.  (With the        *)
(* background in the upper table the line's prefetches belong to the next, *)
(* which counts from the second visible line on.)                          *)
OneTickPerLine ==
  dot = 0 /\ line \in 0 .. Idle /\ quiet /\ ~tall /\ ~seen.missed =>
    /\ ~bgTable /\ sprTable => seen.ticks = 1
    /\ bgTable /\ ~sprTable /\ quietBefore /\ line > 0 => seen.ticks = 1
    /\ ~bgTable /\ ~sprTable => seen.ticks = 0

(* The mapper raises an IRQ on the very tick on which the number of ticks  *)
(* since the counter was loaded reaches the value loaded.                  *)
IrqOnTime ==
  [][~irq.trigger /\ irq'.trigger => seen'.run = seen'.loaded]_vars

(* Only a rise that follows a high A12 within six cycles is ignored, as a  *)
(* comment in clock_irq_counter has it.  False: the remembered cycle count *)
(* survives the reset of Ppu.cycle_count, and in a later frame it lies six *)
(* or fewer cycles back once more.                                         *)
RiseNotMissed == [][seen'.missed => seen.missed]_vars
=============================================================================
