----------------------------- MODULE VblankNmi -----------------------------
(***************************************************************************)
(* The vblank flag of ppustatus, its suppression by a badly timed read,    *)
(* the NMI it raises and how the CPU takes it.  The flag is set by the     *)
(* PPU's step on dot 1 of the first vblank line, the NMI is raised by the  *)
(* step on dot 3, and both race the program's reads of ppustatus (0x2002)  *)
(* and writes of ppuctrl (0x2000), which happen after a catch_up().        *)
(*                                                                         *)
(* Time is kept as the PPU's lead over the CPU: what FrameClock counts as  *)
(* ppuCycle - 3 * cpuCycle.  The main loop's reset of the two counters     *)
(* leaves the lead unchanged, so the end of a frame is not an action here. *)
(***************************************************************************)
EXTENDS PpuDots

CONSTANTS
  MaxInstr,          \* most cycles an instruction takes, DMA apart: 7
  InterruptCycles,   \* cycles of Cpu::interrupt: 7
  DmaBytes,          \* bytes an OAM DMA copies: 256
  MaxDmas            \* most writes to 0x4014 in one instruction: 2

ASSUME CpuAssumption ==
  /\ MaxInstr \in Nat /\ MaxInstr >= 2
  /\ InterruptCycles \in Nat \ {0}
  /\ DmaBytes \in Nat \ {0}
  /\ MaxDmas \in {0, 1, 2}

\* Most cycles of one instruction, its DMAs included.
DmaCycles == 2 * DmaBytes + 2
MaxSpent  == MaxInstr + MaxDmas * DmaCycles

(* Two instructions and an interrupt end before the next vblank begins: on *)
(* the hardware 6231 dots at most, of the 82522 from the pre-render line   *)
(* to the idle line.                                                       *)
ASSUME FrameAssumption ==
  6 * MaxSpent + 3 * InterruptCycles + 8 < DotsPerLine * (LastVisible + 3)

VARIABLES
  line, dot,      \* Ppu.current_scanline, Ppu.current_scanline_dot
  lead,           \* Ppu.cycle_count - 3 * Cpu.cycle_count
  evenFrame,      \* Ppu.bits.even_frame
  rendering,      \* ppumask enables the background or the sprites
  vblank,         \* bit 7 of ppustatus
  suppress,       \* Ppu.bits.suppress_vblank_flag
  nmiEnabled,     \* bit 7 of ppuctrl
  nmi, delayNmi,  \* Cpu.bits.nmi, Cpu.bits.delay_nmi
  irqMasked,      \* no IRQ can be entered (the I flag, delay_irq or no IRQ)
  phase,          \* as in FrameClock
  spent,          \* cycles of the current instruction so far, DMA apart
  dmas,           \* DMAs the current instruction has finished
  dmaIdx,         \* bytes the running DMA has copied
  dmaReg,         \* the running DMA reads its bytes from PPU registers
  armed,          \* auxiliary: vblank /\ nmiEnabled has been low since nmi
                  \* was last pending
  statusRead      \* auxiliary: ppustatus was read in this vblank, at or
                  \* after the dot that is to set the flag

posVars  == <<line, dot, evenFrame>>
flagVars == <<vblank, suppress, statusRead>>
cpuVars  == <<spent, dmas, dmaIdx, dmaReg, irqMasked>>
vars == <<posVars, lead, rendering, flagVars, nmiEnabled, nmi, delayNmi,
          cpuVars, phase, armed>>

CatchUps == {"register", "dmaStart", "dmaNext", "end"}
Phases == {"cpu", "dma"} \cup CatchUps

TypeOK ==
  /\ line \in Lines
  /\ dot \in DotsOf(line)
  /\ lead \in Int
  /\ evenFrame \in BOOLEAN /\ rendering \in BOOLEAN
  /\ vblank \in BOOLEAN /\ suppress \in BOOLEAN /\ nmiEnabled \in BOOLEAN
  /\ nmi \in BOOLEAN /\ delayNmi \in BOOLEAN /\ irqMasked \in BOOLEAN
  /\ phase \in Phases
  /\ spent \in 0 .. MaxInstr
  /\ dmas \in 0 .. MaxDmas
  /\ dmaIdx \in 0 .. DmaBytes
  /\ dmaReg \in BOOLEAN
  /\ armed \in BOOLEAN /\ statusRead \in BOOLEAN

\* Ppu::new; the CPU starts with the I flag set.
Init ==
  /\ line = Idle
  /\ dot = 0
  /\ lead = 0
  /\ evenFrame = TRUE
  /\ rendering = FALSE
  /\ vblank = FALSE
  /\ suppress = FALSE
  /\ nmiEnabled = FALSE
  /\ nmi = FALSE
  /\ delayNmi = FALSE
  /\ irqMasked = TRUE
  /\ phase = "cpu"
  /\ spent = 0
  /\ dmas = 0
  /\ dmaIdx = 0
  /\ dmaReg = FALSE
  /\ armed = TRUE
  /\ statusRead = FALSE

\* The auxiliary edge detector, a conjunct of every action.
Watch == armed' = (~nmi' /\ (armed \/ ~(vblank' /\ nmiEnabled')))

(***************************************************************************)
(* The CPU.                                                                *)
(***************************************************************************)
AtInstrStart == phase = "cpu" /\ spent = 0 /\ dmas = 0

\* Mutant: the NMI is masked like an IRQ.
NmiTakenMaskable == nmi /\ ~delayNmi /\ ~irqMasked

NmiTaken == nmi /\ ~delayNmi

\* exec_instruction with an NMI to take: the vector is entered, nmi cleared.
TakeNmi ==
  /\ AtInstrStart
  /\ NmiTaken
  /\ lead' = lead - 3 * InterruptCycles
  /\ nmi' = FALSE
  /\ irqMasked' = TRUE
  /\ phase' = "end"
  /\ UNCHANGED <<posVars, rendering, flagVars, nmiEnabled, delayNmi,
                 spent, dmas, dmaIdx, dmaReg>>

\* exec_instruction enters an IRQ; the delay flags are left as they are.
TakeIrq ==
  /\ AtInstrStart
  /\ ~NmiTaken
  /\ ~irqMasked
  /\ lead' = lead - 3 * InterruptCycles
  /\ irqMasked' = TRUE
  /\ phase' = "end"
  /\ UNCHANGED <<posVars, rendering, flagVars, nmiEnabled, nmi, delayNmi,
                 spent, dmas, dmaIdx, dmaReg>>

(* exec_instruction executes an instruction: it clears the delay flags and *)
(* runs n cycles to an access that catches the PPU up first, or to the     *)
(* end.  What it does to the I flag and to the IRQ line is left open.      *)
RunInstr(n, next) ==
  /\ phase = "cpu"
  /\ AtInstrStart => ~NmiTaken
  /\ n >= 1
  /\ IF next = "end" THEN spent + n \in 2 .. MaxInstr ELSE spent + n < MaxInstr
  /\ next = "dmaStart" => dmas < MaxDmas
  /\ lead' = lead - 3 * n
  /\ spent' = spent + n
  /\ delayNmi' = IF AtInstrStart THEN FALSE ELSE delayNmi
  /\ phase' = next
  /\ irqMasked' \in (IF next = "end" THEN BOOLEAN ELSE {irqMasked})
  /\ UNCHANGED <<posVars, rendering, flagVars, nmiEnabled, nmi,
                 dmas, dmaIdx, dmaReg>>

(***************************************************************************)
(* Register accesses, once the PPU is up to date.                          *)
(***************************************************************************)
Synced(p) == phase = p /\ lead >= 0

InVblankWindow ==
  \/ line = FirstVblank /\ dot >= 1
  \/ line \in FirstVblank + 1 .. LastVblank

\* Mutant: a read one dot before the flag is set does not suppress it.
StatusReadNoSuppress ==
  /\ vblank' = FALSE
  /\ suppress' = suppress
  /\ statusRead' = (statusRead \/ InVblankWindow)

(* read_ppustatus: the flag is cleared, and kept clear for this vblank if  *)
(* the next step was about to set it.                                      *)
StatusRead ==
  /\ vblank' = FALSE
  /\ suppress' = (suppress \/ (line = FirstVblank /\ dot = 1))
  /\ statusRead' = (statusRead \/ InVblankWindow)

\* Mutant: a read silences an NMI that is pending already.
ReadStatusClearsNmi ==
  /\ Synced("register")
  /\ StatusRead
  /\ nmi' = FALSE
  /\ phase' = "cpu"
  /\ UNCHANGED <<posVars, lead, rendering, nmiEnabled, delayNmi, cpuVars>>

ReadStatus ==
  /\ Synced("register")
  /\ StatusRead
  /\ phase' = "cpu"
  /\ UNCHANGED <<posVars, lead, rendering, nmiEnabled, nmi, delayNmi, cpuVars>>

\* Mutant: enabling the NMI in the middle of a vblank raises none.
WriteCtrlNoRaise(enable) ==
  /\ Synced("register")
  /\ nmiEnabled' = enable
  /\ delayNmi' = (delayNmi \/ (enable /\ ~nmiEnabled /\ vblank))
  /\ phase' = "cpu"
  /\ UNCHANGED <<posVars, lead, rendering, flagVars, nmi, cpuVars>>

\* write_ppuctrl: enabling the NMI while the flag is set raises it.
WriteCtrl(enable) ==
  LET raise == enable /\ ~nmiEnabled /\ vblank IN
  /\ Synced("register")
  /\ nmiEnabled' = enable
  /\ nmi' = (nmi \/ raise)
  /\ delayNmi' = (delayNmi \/ raise)
  /\ phase' = "cpu"
  /\ UNCHANGED <<posVars, lead, rendering, flagVars, cpuVars>>

\* write_ppumask, and the registers that touch none of this state.
WriteMask(on) ==
  /\ Synced("register")
  /\ rendering' = on
  /\ phase' = "cpu"
  /\ UNCHANGED <<posVars, lead, flagVars, nmiEnabled, nmi, delayNmi, cpuVars>>

(***************************************************************************)
(* OAM DMA.  A DMA from the page 0x2000 reads ppustatus at byte 2, 10, ... *)
(***************************************************************************)
StartDma ==
  /\ Synced("dmaStart")
  /\ phase' = "dma"
  /\ dmaIdx' = 0
  /\ dmaReg' \in BOOLEAN
  /\ UNCHANGED <<posVars, lead, rendering, flagVars, nmiEnabled, nmi, delayNmi,
                 spent, dmas, irqMasked>>

CopyDmaByte ==
  /\ phase = "dma"
  /\ dmaIdx < DmaBytes
  /\ IF dmaReg /\ dmaIdx % 8 = 2 THEN StatusRead ELSE UNCHANGED flagVars
  /\ lead' = lead - 6
  /\ dmaIdx' = dmaIdx + 1
  /\ phase' = IF dmaIdx % 4 = 0 \/ (dmaReg /\ dmaIdx + 1 < DmaBytes)
              THEN "dmaNext" ELSE "dma"
  /\ UNCHANGED <<posVars, rendering, nmiEnabled, nmi, delayNmi,
                 spent, dmas, dmaReg, irqMasked>>

ResumeDma ==
  /\ Synced("dmaNext")
  /\ phase' = "dma"
  /\ UNCHANGED <<posVars, lead, rendering, flagVars, nmiEnabled, nmi, delayNmi, cpuVars>>

\* The end of write_oamdma: it drops whatever NMI is pending.
EndDma ==
  /\ phase = "dma"
  /\ dmaIdx = DmaBytes
  /\ \E c \in {1, 2} : lead' = lead - 3 * c
  /\ nmi' = FALSE
  /\ phase' = "cpu"
  /\ dmas' = dmas + 1
  /\ dmaIdx' = 0
  /\ dmaReg' = FALSE
  /\ UNCHANGED <<posVars, rendering, flagVars, nmiEnabled, delayNmi,
                 spent, irqMasked>>

NextInstr ==
  /\ Synced("end")
  /\ phase' = "cpu"
  /\ spent' = 0
  /\ dmas' = 0
  /\ UNCHANGED <<posVars, lead, rendering, flagVars, nmiEnabled, nmi, delayNmi,
                 dmaIdx, dmaReg, irqMasked>>

(***************************************************************************)
(* The PPU: one iteration of the loop in catch_up().                       *)
(***************************************************************************)
Behind == phase \in CatchUps /\ lead < 0

\* The idle cycle of the first visible line is skipped on odd frames.
RenderCost ==
  IF dot = 0 /\ line = 0 /\ rendering THEN (IF evenFrame THEN 1 ELSE 0)
  ELSE RenderWidth(dot)

\* The pre-render line clears the flag on dot 1.
StepRenderLine ==
  /\ Behind
  /\ line \in RenderLines
  /\ vblank' = (vblank /\ ~(line = PreRender /\ dot = 1))
  /\ lead' = lead + RenderCost
  /\ dot' = DotAfter(dot, RenderWidth(dot))
  /\ line' = IF dot = LineEnd THEN line + 1 ELSE line
  /\ UNCHANGED <<evenFrame, rendering, suppress, statusRead, nmiEnabled, nmi,
                 delayNmi, cpuVars, phase>>

StepIdleLine ==
  /\ Behind
  /\ line = Idle
  /\ lead' = lead + IdleWidth(dot)
  /\ dot' = DotAfter(dot, IdleWidth(dot))
  /\ line' = IF dot = LineEnd THEN FirstVblank ELSE line
  /\ UNCHANGED <<evenFrame, rendering, flagVars, nmiEnabled, nmi, delayNmi,
                 cpuVars, phase>>

\* Mutant: the suppression outlives the vblank it was meant for.
StepVblankLineKeepSuppress ==
  /\ Behind
  /\ line \in VblankLines
  /\ vblank' = (vblank \/ (line = FirstVblank /\ dot = 1 /\ ~suppress))
  /\ nmi' = (nmi \/ (line = FirstVblank /\ dot = 3 /\ nmiEnabled /\ vblank))
  /\ lead' = lead + VblankWidth(dot)
  /\ dot' = DotAfter(dot, VblankWidth(dot))
  /\ IF dot = LineEnd /\ line = LastVblank
     THEN /\ line' = PreRender
          /\ evenFrame' = ~evenFrame
          /\ suppress' = suppress
          /\ statusRead' = FALSE
     ELSE /\ line' = IF dot = LineEnd THEN line + 1 ELSE line
          /\ UNCHANGED <<evenFrame, suppress, statusRead>>
  /\ UNCHANGED <<rendering, nmiEnabled, delayNmi, cpuVars, phase>>

(* Dot 1 of the first line sets the flag unless suppressed, dot 3 raises   *)
(* the NMI, the last dot of the last line ends the frame and the           *)
(* suppression.                                                            *)
StepVblankLine ==
  /\ Behind
  /\ line \in VblankLines
  /\ vblank' = (vblank \/ (line = FirstVblank /\ dot = 1 /\ ~suppress))
  /\ nmi' = (nmi \/ (line = FirstVblank /\ dot = 3 /\ nmiEnabled /\ vblank))
  /\ lead' = lead + VblankWidth(dot)
  /\ dot' = DotAfter(dot, VblankWidth(dot))
  /\ IF dot = LineEnd /\ line = LastVblank
     THEN /\ line' = PreRender
          /\ evenFrame' = ~evenFrame
          /\ suppress' = FALSE
          /\ statusRead' = FALSE
     ELSE /\ line' = IF dot = LineEnd THEN line + 1 ELSE line
          /\ UNCHANGED <<evenFrame, suppress, statusRead>>
  /\ UNCHANGED <<rendering, nmiEnabled, delayNmi, cpuVars, phase>>

Cpu ==
  \/ TakeNmi
  \/ TakeIrq
  \/ \E n \in 1 .. MaxInstr, next \in {"register", "dmaStart", "end"} :
       RunInstr(n, next)
  \/ NextInstr

Access ==
  \/ ReadStatus
  \/ \E b \in BOOLEAN : WriteCtrl(b)
  \/ \E b \in BOOLEAN : WriteMask(b)

Dma == StartDma \/ CopyDmaByte \/ ResumeDma \/ EndDma

Step == StepRenderLine \/ StepIdleLine \/ StepVblankLine

Next == (Cpu \/ Access \/ Dma \/ Step) /\ Watch

Spec == Init /\ [][Next]_vars

\* One thread that never waits between two of these steps.
FairSpec == Spec /\ WF_vars(Next)

-----------------------------------------------------------------------------
(***************************************************************************)
(* Properties.                                                             *)
(***************************************************************************)
(* The vblank flag is only ever set from dot 2 of the first vblank line to *)
(* dot 1 of the pre-render line, whatever was read and written when.  It   *)
(* implies read_ppustatus's debug_assert (the flag is clear at dot 1).     *)
VblankWindow ==
  vblank => \/ line = FirstVblank /\ dot >= 2
            \/ line \in FirstVblank + 1 .. LastVblank
            \/ line = PreRender /\ dot <= 1

(* A suppression concerns one vblank: it exists only inside it, and while  *)
(* it does the flag is clear.                                              *)
SuppressedStaysClear ==
  suppress => ~vblank /\ line \in VblankLines /\ (line = FirstVblank => dot >= 1)

\* The vblank flag is where it belongs, at every access and at every step.
VblankFlag == VblankWindow /\ SuppressedStaysClear

(* One NMI per rising edge of "flag set and NMI enabled": between two NMIs *)
(* either a new vblank began or the program disabled the NMI, although     *)
(* both the step on dot 3 and a write of ppuctrl, on dot 2 even in the     *)
(* same instruction, can raise it.  And once the program has read          *)
(* ppustatus in a vblank, be it one dot before the flag is set or on dots  *)
(* 2 and 3 before the NMI is raised, this vblank raises none any more.     *)
NmiOnlyForEdge == [][~nmi /\ nmi' => armed /\ ~statusRead]_vars

(* No edge is missed: once dot 3 of the first vblank line is over, an NMI  *)
(* is pending or has been for every rising edge of "flag set and NMI       *)
(* enabled", whichever of the two rose last.                               *)
NmiEveryEdge ==
  vblank /\ nmiEnabled /\ (line # FirstVblank \/ dot > 3) => ~armed

(* A pending NMI is dropped by nothing, disabling it or reading ppustatus  *)
(* included, but the CPU entering the vector and the end of an OAM DMA,    *)
(* which clears it whether a catch_up() of the DMA has raised it or it was *)
(* pending before (the HACK of address_bus/mod.rs:104).                    *)
NmiKeptButForDma ==
  [][nmi /\ ~nmi' => AtInstrStart \/ (phase = "dma" /\ dmaIdx = DmaBytes)]_vars

(* No NMI stays pending for ever: neither the delay flag that each enabling *)
(* write of ppuctrl sets again nor IRQs, which are taken before the flag is *)
(* cleared, put it off without end (cpu/mod.rs:47-62).                     *)
NmiServed == nmi ~> ~nmi
=============================================================================
