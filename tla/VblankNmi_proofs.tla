-------------------------- MODULE VblankNmi_proofs --------------------------
(***************************************************************************)
(* Proofs about VblankNmi, for any number of scanlines, any instruction    *)
(* length and any DMA length that satisfy the module's assumptions.        *)
(***************************************************************************)
EXTENDS VblankNmi, PpuDots_proofs

-----------------------------------------------------------------------------
(***************************************************************************)
(* The inductive invariant, part by part.                                  *)
(***************************************************************************)
(* What the current instruction has done, as in FrameClock; here an        *)
(* interrupt also is at its end without having spent a cycle.              *)
Bookkeeping ==
  /\ spent = 0 => phase \in {"cpu", "end"} /\ dmas = 0
  /\ phase \in {"dmaStart", "dma", "dmaNext"} => dmas < MaxDmas
  /\ phase \notin {"dma", "dmaNext"} => dmaIdx = 0
  /\ spent = 0 /\ phase = "end" => irqMasked

\* CPU cycles since the instruction began.
Used == spent + dmas * DmaCycles + 2 * dmaIdx

\* How far the PPU has got since then, in dots; its lead at that time counts.
Progress == lead + 3 * Used

(* At the start of an instruction the PPU is not behind, and it has only   *)
(* moved on since; an interrupt's cycles are not counted in Used.          *)
ProgressBound ==
  /\ Progress >= -3 * InterruptCycles
  /\ ~(spent = 0 /\ phase = "end") => Progress >= 0

\* While the flag is being raised, the PPU is never ahead of the CPU.
LeadAtFlag == line = FirstVblank /\ dot \in 1 .. 3 => lead <= 0

\* The aux variable: cleared with every NMI, set by every low level.
Watched ==
  /\ nmi => ~armed
  /\ ~nmi /\ ~(vblank /\ nmiEnabled) => armed

(* An NMI that is pending before the step on dot 3 was raised by a write   *)
(* of ppuctrl on dot 2 or 3, and the instruction that wrote it cannot end  *)
(* before that step: the PPU is behind already, or will be at the next     *)
(* cycle.                                                                  *)
RaisedEarly ==
  line = FirstVblank /\ dot <= 3 =>
    IF nmi THEN /\ dot >= 2
                /\ \/ phase = "cpu" /\ spent > 0
                   \/ phase \in CatchUps /\ lead <= dot - 4
    ELSE armed

(* A read of ppustatus in a vblank leaves the flag clear for the rest of   *)
(* it: on dot 1 it suppresses it, later it clears it for good.             *)
ReadLeavesClear ==
  statusRead => /\ InVblankWindow
                /\ ~vblank
                /\ line = FirstVblank /\ dot = 1 => suppress

(* How long an NMI can have been pending outside the vblank lines.  Since  *)
(* counts the dots from the start of the pre-render line, the one that odd *)
(* frames skip apart.  The NMI was raised on dot 1 at the latest.  A write *)
(* of ppuctrl that raised it has delayed it for one more instruction, and  *)
(* an IRQ may come between the two.                                        *)
SincePreRender(l, d) ==
  DotsPerLine * (l + 1) + d - (IF l > 0 \/ (l = 0 /\ d > 0) THEN 1 ELSE 0)

Slack ==
  IF delayNmi /\ spent > 0 THEN 0
  ELSE IF delayNmi /\ ~irqMasked THEN 3 * MaxSpent
  ELSE IF delayNmi \/ ~AtInstrStart THEN 3 * MaxSpent + 3 * InterruptCycles
  ELSE 6 * MaxSpent + 3 * InterruptCycles

Budget == 2 + Progress + Slack

PendingBound ==
  nmi /\ line \notin VblankLines => SincePreRender(line, dot) <= Budget

Timing == ProgressBound /\ PendingBound /\ LeadAtFlag

IInv ==
  /\ TypeOK
  /\ Bookkeeping
  /\ VblankFlag
  /\ Timing
  /\ Watched
  /\ RaisedEarly
  /\ ReadLeavesClear
  /\ NmiEveryEdge

-----------------------------------------------------------------------------
(***************************************************************************)
(* Type correctness.                                                       *)
(***************************************************************************)
LEMMA TypingInit == Init => TypeOK /\ Bookkeeping
<1>. SUFFICES ASSUME Init PROVE TypeOK /\ Bookkeeping
  OBVIOUS
<1>1. line \in Lines /\ dot \in DotsOf(line)
  BY LinesAndDots DEF Init
<1>2. 0 \in 0 .. MaxInstr /\ 0 \in 0 .. MaxDmas /\ 0 \in 0 .. DmaBytes
  BY CpuAssumption
<1>3. Bookkeeping
  BY DEF Init, Bookkeeping
<1>4. phase \in Phases
  BY DEF Init, Phases
<1>5. /\ evenFrame \in BOOLEAN /\ rendering \in BOOLEAN
      /\ vblank \in BOOLEAN /\ suppress \in BOOLEAN /\ nmiEnabled \in BOOLEAN
      /\ nmi \in BOOLEAN /\ delayNmi \in BOOLEAN /\ irqMasked \in BOOLEAN
      /\ dmaReg \in BOOLEAN /\ armed \in BOOLEAN /\ statusRead \in BOOLEAN
  BY DEF Init
<1>. QED
  BY <1>1, <1>2, <1>3, <1>4, <1>5 DEF Init, TypeOK

LEMMA WatchType ==
  ASSUME Watch
  PROVE  armed' \in BOOLEAN
BY DEF Watch

(* The CPU's actions leave the PPU's position alone.                       *)
LEMMA TypingCpu ==
  ASSUME TypeOK, Bookkeeping, Cpu, Watch
  PROVE  TypeOK' /\ Bookkeeping'
<1>. USE CpuAssumption DEF TypeOK, Bookkeeping, Phases, CatchUps, posVars,
         flagVars, Watch, AtInstrStart
<1>1. CASE TakeNmi
  <2>1. lead' \in Int
    BY <1>1 DEF TakeNmi
  <2>2. /\ phase' = "end" /\ irqMasked' = TRUE /\ nmi' = FALSE
        /\ dmas = 0 /\ armed' \in BOOLEAN
    BY <1>1, WatchType DEF TakeNmi
  <2>3. TypeOK'
    BY <1>1, <2>1, <2>2 DEF TakeNmi
  <2>. QED
    BY <1>1, <2>2, <2>3 DEF TakeNmi
<1>2. CASE TakeIrq
  BY <1>2 DEF TakeIrq
<1>3. ASSUME NEW n \in 1 .. MaxInstr,
             NEW next \in {"register", "dmaStart", "end"},
             RunInstr(n, next)
      PROVE  TypeOK' /\ Bookkeeping'
  <2>1. spent' \in 1 .. MaxInstr /\ lead' \in Int
    BY <1>3 DEF RunInstr
  <2>2. irqMasked' \in BOOLEAN /\ delayNmi' \in BOOLEAN /\ phase' \in Phases
    BY <1>3 DEF RunInstr
  <2>3. UNCHANGED <<line, dot, evenFrame, rendering, vblank, suppress, statusRead,
                    nmiEnabled, nmi, dmas, dmaIdx, dmaReg>>
    BY <1>3 DEF RunInstr
  <2>4. TypeOK'
    BY <2>1, <2>2, <2>3, WatchType
  <2>5. phase' = next /\ phase = "cpu" /\ (next = "dmaStart" => dmas < MaxDmas)
        /\ dmas' = dmas /\ dmaIdx' = dmaIdx
    BY <1>3 DEF RunInstr
  <2>. QED
    BY <2>1, <2>4, <2>5
<1>4. CASE NextInstr
  <2>1. /\ phase' = "cpu" /\ spent' = 0 /\ dmas' = 0 /\ dmaIdx' = dmaIdx
        /\ phase = "end" /\ armed' \in BOOLEAN
    BY <1>4 DEF NextInstr, Synced
  <2>2. TypeOK'
    BY <1>4, <2>1 DEF NextInstr
  <2>. QED
    BY <2>1, <2>2
<1>. QED
  BY <1>1, <1>2, <1>3, <1>4 DEF Cpu

LEMMA TypingAccess ==
  ASSUME TypeOK, Bookkeeping, Access, Watch
  PROVE  TypeOK' /\ Bookkeeping'
<1>. USE DEF TypeOK, Bookkeeping, Phases, CatchUps, posVars, flagVars, cpuVars,
         Watch, Synced
<1>1. CASE ReadStatus
  BY <1>1 DEF ReadStatus, StatusRead
<1>2. ASSUME NEW b \in BOOLEAN, WriteCtrl(b) PROVE TypeOK' /\ Bookkeeping'
  BY <1>2 DEF WriteCtrl
<1>3. ASSUME NEW b \in BOOLEAN, WriteMask(b) PROVE TypeOK' /\ Bookkeeping'
  BY <1>3 DEF WriteMask
<1>. QED
  BY <1>1, <1>2, <1>3 DEF Access

LEMMA TypingDma ==
  ASSUME TypeOK, Bookkeeping, Dma, Watch
  PROVE  TypeOK' /\ Bookkeeping'
<1>. USE CpuAssumption DEF TypeOK, Bookkeeping, Phases, CatchUps, posVars,
         flagVars, cpuVars, Watch, Synced
<1>1. CASE StartDma
  BY <1>1 DEF StartDma
<1>2. CASE CopyDmaByte
  <2>1. vblank' \in BOOLEAN /\ suppress' \in BOOLEAN /\ statusRead' \in BOOLEAN
    BY <1>2 DEF CopyDmaByte, StatusRead
  <2>2. phase' \in {"dma", "dmaNext"} /\ lead' \in Int /\ dmaIdx' \in 0 .. DmaBytes
    BY <1>2 DEF CopyDmaByte
  <2>. QED
    BY <1>2, <2>1, <2>2 DEF CopyDmaByte
<1>3. CASE ResumeDma
  BY <1>3 DEF ResumeDma
<1>4. CASE EndDma
  <2>1. dmas' \in 0 .. MaxDmas /\ lead' \in Int
    BY <1>4 DEF EndDma
  <2>2. /\ phase' = "cpu" /\ dmaIdx' = 0 /\ spent' = spent /\ phase = "dma"
        /\ nmi' \in BOOLEAN /\ dmaReg' \in BOOLEAN /\ armed' \in BOOLEAN
    BY <1>4, WatchType DEF EndDma
  <2>3. UNCHANGED <<line, dot, evenFrame, rendering, vblank, suppress, statusRead,
                    nmiEnabled, delayNmi, spent, irqMasked>>
    BY <1>4 DEF EndDma
  <2>4. TypeOK'
    BY <2>1, <2>2, <2>3
  <2>. QED
    BY <2>2, <2>4
<1>. QED
  BY <1>1, <1>2, <1>3, <1>4 DEF Dma

(***************************************************************************)
(* A step of the PPU: where it lands, line kind by line kind, and how far  *)
(* it takes the lead.                                                      *)
(***************************************************************************)
LEMMA RenderLineStep ==
  ASSUME TypeOK, StepRenderLine
  PROVE  /\ line \in PreRender .. LastVisible /\ dot \in RenderDots
         /\ line' \in PreRender .. Idle /\ dot' \in DotsOf(line')
         /\ \E w \in Nat :
              /\ lead' = lead + w
              /\ SincePreRender(line', dot') <= SincePreRender(line, dot) + w
<1>. USE LinesAssumption DEF TypeOK
<1>1. /\ line \in PreRender .. LastVisible /\ dot \in RenderDots
      /\ line \in Int /\ dot \in 0 .. LineEnd
  BY PositionKinds DEF StepRenderLine, RenderLines
<1>2. /\ line' = IF dot = LineEnd THEN line + 1 ELSE line
      /\ dot' = IF dot = LineEnd THEN 0 ELSE dot + RenderWidth(dot)
      /\ lead' = lead + RenderCost
  BY DEF StepRenderLine, DotAfter
<1>3. line' \in PreRender .. Idle /\ dot' \in DotsOf(line')
  BY <1>1, <1>2, RenderStep, LinesAndDots DEF PreRender, Idle, RenderLines
<1>4. /\ RenderWidth(dot) \in 1 .. 8
      /\ dot = LineEnd => RenderWidth(dot) = 5
      /\ dot = 0 => RenderWidth(dot) = 1
  BY <1>1, RenderStep
<1>5. \/ RenderCost = RenderWidth(dot)
      \/ RenderCost = 0 /\ dot = 0 /\ line = 0
  BY <1>4 DEF RenderCost
<1>6. SincePreRender(line', dot') <= SincePreRender(line, dot) + RenderCost
  <2>1. CASE dot = LineEnd
    BY <1>1, <1>2, <1>4, <1>5, <2>1 DEF SincePreRender, DotsPerLine, LineEnd, PreRender
  <2>2. CASE dot # LineEnd
    BY <1>1, <1>2, <1>4, <1>5, <2>2 DEF SincePreRender, DotsPerLine, LineEnd, PreRender
  <2>. QED
    BY <2>1, <2>2
<1>. QED
  BY <1>1, <1>2, <1>3, <1>4, <1>5, <1>6

LEMMA IdleLineStep ==
  ASSUME TypeOK, StepIdleLine
  PROVE  /\ line = Idle /\ dot \in IdleDots
         /\ \/ line' = Idle /\ dot' \in IdleDots
            \/ line' = FirstVblank /\ dot' = 0 /\ dot = LineEnd
         /\ dot' \in DotsOf(line')
         /\ \E w \in Nat :
              /\ lead' = lead + w
              /\ line' = Idle =>
                   SincePreRender(line', dot') = SincePreRender(line, dot) + w
<1>. USE LinesAssumption DEF TypeOK
<1>1. line = Idle /\ dot \in IdleDots
  BY PositionKinds DEF StepIdleLine
<1>2. /\ line' = IF dot = LineEnd THEN FirstVblank ELSE Idle
      /\ dot' = IF dot = LineEnd THEN 0 ELSE dot + IdleWidth(dot)
      /\ lead' = lead + IdleWidth(dot)
  BY <1>1 DEF StepIdleLine, DotAfter
<1>3. IdleWidth(dot) = IF dot = LineEnd THEN 5 ELSE 168
  BY <1>1, IdleStep
<1>4. dot \in Int
  BY <1>1, LinesAndDots DEF LineEnd
<1>5. dot' \in DotsOf(line') /\ (dot # LineEnd => dot' \in IdleDots)
  BY <1>1, <1>2, IdleStep, LinesAndDots
     DEF Lines, Idle, FirstVblank, VblankLines, RenderLines, PreRender
<1>6. line' = Idle =>
        SincePreRender(line', dot') = SincePreRender(line, dot) + IdleWidth(dot)
  <2>. SUFFICES ASSUME line' = Idle
                PROVE  SincePreRender(line', dot') = SincePreRender(line, dot) + IdleWidth(dot)
    OBVIOUS
  <2>1. dot # LineEnd
    BY <1>2 DEF Idle, FirstVblank
  <2>2. line' = line /\ dot' = dot + 168 /\ IdleWidth(dot) = 168
    BY <1>1, <1>2, <1>3, <2>1
  <2>3. line \in Int /\ line > 0
    BY <1>1 DEF Idle
  <2>. QED
    BY <1>4, <2>2, <2>3 DEF SincePreRender, DotsPerLine
<1>. QED
  BY <1>1, <1>2, <1>3, <1>5, <1>6

LEMMA VblankLineStep ==
  ASSUME TypeOK, StepVblankLine
  PROVE  /\ line \in FirstVblank .. LastVblank /\ dot \in VblankDots
         /\ dot' \in DotsOf(line')
         /\ \/ /\ dot = LineEnd /\ line = LastVblank
               /\ line' = PreRender /\ dot' = 0
            \/ /\ dot = LineEnd /\ line # LastVblank
               /\ line' = line + 1 /\ dot' = 0
            \/ /\ dot # LineEnd
               /\ line' = line /\ dot' = dot + VblankWidth(dot)
         /\ dot \in 0 .. LineEnd /\ VblankWidth(dot) \in 1 .. 8
         /\ dot < 3 => VblankWidth(dot) = 1
         /\ dot >= 3 => VblankWidth(dot) >= 5
         /\ lead' = lead + VblankWidth(dot)
<1>. USE LinesAssumption DEF TypeOK
<1>1. line \in FirstVblank .. LastVblank /\ dot \in VblankDots
  BY PositionKinds DEF StepVblankLine, VblankLines
<1>2. dot \in 0 .. LineEnd
  BY <1>1, LinesAndDots
<1>3. \/ /\ dot = LineEnd /\ line = LastVblank
         /\ line' = PreRender /\ dot' = 0
      \/ /\ dot = LineEnd /\ line # LastVblank
         /\ line' = line + 1 /\ dot' = 0
      \/ /\ dot # LineEnd
         /\ line' = line /\ dot' = dot + VblankWidth(dot)
  BY <1>1 DEF StepVblankLine, DotAfter
<1>4. dot' \in DotsOf(line')
  BY <1>1, <1>3, VblankStep, LinesAndDots DEF VblankLines, Lines, FirstVblank
<1>5. /\ VblankWidth(dot) \in 1 .. 8
      /\ dot < 3 => VblankWidth(dot) = 1
      /\ dot >= 3 => VblankWidth(dot) >= 5
  BY <1>1, <1>2, VblankStep DEF VblankWidth, LineEnd
<1>. QED
  BY <1>1, <1>2, <1>3, <1>4, <1>5 DEF StepVblankLine

LEMMA TypingStep ==
  ASSUME TypeOK, Bookkeeping, Step, Watch
  PROVE  TypeOK' /\ Bookkeeping'
<1>. USE LinesAssumption DEF TypeOK
<1>1. line' \in Lines /\ dot' \in DotsOf(line') /\ lead' \in Int
  <2>1. CASE StepRenderLine
    BY <2>1, RenderLineStep DEF Lines, PreRender, Idle
  <2>2. CASE StepIdleLine
    BY <2>2, IdleLineStep DEF Lines, PreRender, Idle, FirstVblank
  <2>3. CASE StepVblankLine
    BY <2>3, VblankLineStep DEF Lines, PreRender, FirstVblank, VblankWidth
  <2>. QED
    BY <2>1, <2>2, <2>3 DEF Step
<1>2. /\ evenFrame' \in BOOLEAN /\ vblank' \in BOOLEAN /\ suppress' \in BOOLEAN
      /\ nmi' \in BOOLEAN /\ statusRead' \in BOOLEAN
      /\ UNCHANGED <<rendering, nmiEnabled, delayNmi, cpuVars, phase>>
  BY DEF Step, StepRenderLine, StepIdleLine, StepVblankLine, flagVars
<1>3. armed' \in BOOLEAN
  BY DEF Watch
<1>. QED
  BY <1>1, <1>2, <1>3 DEF Bookkeeping, cpuVars

LEMMA TypingNext ==
  ASSUME TypeOK, Bookkeeping, Next
  PROVE  TypeOK' /\ Bookkeeping'
BY TypingCpu, TypingAccess, TypingDma, TypingStep DEF Next

-----------------------------------------------------------------------------
(***************************************************************************)
(* The flag.                                                               *)
(***************************************************************************)
(* The CPU's side never moves the PPU, and touches the flag only by a read *)
(* of ppustatus.                                                           *)
LEMMA CpuSide ==
  ASSUME Cpu \/ Access \/ Dma
  PROVE  UNCHANGED posVars /\ (StatusRead \/ UNCHANGED flagVars)
<1>1. CASE Cpu
  BY <1>1 DEF Cpu, TakeNmi, TakeIrq, RunInstr, NextInstr
<1>2. CASE Access
  BY <1>2 DEF Access, ReadStatus, WriteCtrl, WriteMask
<1>3. CASE Dma
  BY <1>3 DEF Dma, StartDma, CopyDmaByte, ResumeDma, EndDma
<1>. QED
  BY <1>1, <1>2, <1>3

LEMMA FlagNext ==
  ASSUME TypeOK, VblankFlag, Next
  PROVE  VblankFlag'
<1>. USE LinesAssumption DEF VblankFlag, VblankWindow, SuppressedStaysClear,
         VblankLines, FirstVblank, PreRender, Idle
<1>1. CASE Cpu \/ Access \/ Dma
  <2>1. CASE StatusRead
    <3>1. ~vblank' /\ (suppress' => suppress \/ (line = FirstVblank /\ dot = 1))
      BY <2>1 DEF StatusRead
    <3>. QED
      BY <1>1, <3>1, CpuSide DEF posVars
  <2>2. CASE UNCHANGED flagVars
    BY <1>1, <2>2, CpuSide DEF flagVars, posVars
  <2>. QED
    BY <1>1, <2>1, <2>2, CpuSide
<1>2. CASE StepRenderLine
  <2>1. /\ line \in -1 .. LastVisible /\ line' \in -1 .. LastVisible + 1
        /\ dot \in 0 .. LineEnd
    BY <1>2, RenderLineStep, LinesAndDots
  <2>2. /\ vblank' => vblank /\ ~(line = PreRender /\ dot = 1)
        /\ suppress' = suppress
    BY <1>2 DEF StepRenderLine
  <2>3. ~suppress'
    BY <2>1, <2>2
  <2>4. ASSUME vblank' PROVE line' = PreRender /\ dot' = 1
    <3>1. line = PreRender /\ dot = 0
      BY <2>1, <2>2, <2>4 DEF LineEnd
    <3>. QED
      BY <1>2, <3>1 DEF StepRenderLine, DotAfter, RenderWidth, LineEnd
  <2>. QED
    BY <2>3, <2>4
<1>3. CASE StepIdleLine
  <2>1. line = Idle /\ vblank' = vblank /\ suppress' = suppress
    BY <1>3 DEF StepIdleLine, flagVars
  <2>. QED
    BY <2>1
<1>4. CASE StepVblankLine
  <2>1. /\ line \in LastVisible + 2 .. LastVblank
        /\ dot \in 0 .. LineEnd /\ VblankWidth(dot) \in 1 .. 8
        /\ \/ /\ dot = LineEnd /\ line = LastVblank
              /\ line' = PreRender /\ dot' = 0
           \/ /\ dot = LineEnd /\ line # LastVblank
              /\ line' = line + 1 /\ dot' = 0
           \/ /\ dot # LineEnd
              /\ line' = line /\ dot' = dot + VblankWidth(dot)
    BY <1>4, VblankLineStep
  <2>2. /\ vblank' => vblank \/ (line = FirstVblank /\ dot = 1 /\ ~suppress)
        /\ suppress' => suppress /\ ~(dot = LineEnd /\ line = LastVblank)
    BY <1>4 DEF StepVblankLine
  <2>3. SuppressedStaysClear'
    BY <2>1, <2>2 DEF LineEnd
  <2>4. VblankWindow'
    BY <2>1, <2>2 DEF LineEnd
  <2>. QED
    BY <2>3, <2>4
<1>. QED
  BY <1>1, <1>2, <1>3, <1>4 DEF Next, Step

(* The edge detector means what it says.                                   *)
LEMMA WatchedNext ==
  ASSUME TypeOK', Watch
  PROVE  Watched'
BY DEF Watch, Watched, TypeOK

(* A read on dot 1 suppresses the flag, a later one clears it for good.    *)
LEMMA ReadNext ==
  ASSUME TypeOK, VblankFlag, ReadLeavesClear, Next
  PROVE  ReadLeavesClear'
<1>. USE LinesAssumption DEF ReadLeavesClear, InVblankWindow,
         VblankLines, FirstVblank, PreRender, Idle
<1>1. CASE Cpu \/ Access \/ Dma
  <2>1. CASE StatusRead
    BY <1>1, <2>1, CpuSide DEF StatusRead, posVars
  <2>2. CASE UNCHANGED flagVars
    BY <1>1, <2>2, CpuSide DEF flagVars, posVars
  <2>. QED
    BY <1>1, <2>1, <2>2, CpuSide
<1>2. CASE StepRenderLine
  <2>1. line \in -1 .. LastVisible /\ statusRead' = statusRead
    BY <1>2, RenderLineStep DEF StepRenderLine
  <2>. QED
    BY <2>1
<1>3. CASE StepIdleLine
  BY <1>3 DEF StepIdleLine, flagVars
<1>4. CASE StepVblankLine
  <2>1. /\ line \in LastVisible + 2 .. LastVblank
        /\ dot \in 0 .. LineEnd /\ VblankWidth(dot) \in 1 .. 8
        /\ \/ /\ dot = LineEnd /\ line = LastVblank
              /\ line' = PreRender /\ dot' = 0
           \/ /\ dot = LineEnd /\ line # LastVblank
              /\ line' = line + 1 /\ dot' = 0
           \/ /\ dot # LineEnd
              /\ line' = line /\ dot' = dot + VblankWidth(dot)
    BY <1>4, VblankLineStep
  <2>2. /\ vblank' => vblank \/ (line = FirstVblank /\ dot = 1 /\ ~suppress)
        /\ statusRead' => statusRead /\ ~(dot = LineEnd /\ line = LastVblank)
    BY <1>4 DEF StepVblankLine
  <2>. QED
    BY <2>1, <2>2 DEF LineEnd
<1>. QED
  BY <1>1, <1>2, <1>3, <1>4 DEF Next, Step

(* No edge is missed.                                                      *)
LEMMA EdgeNext ==
  ASSUME TypeOK, VblankFlag, Watched, NmiEveryEdge, Next
  PROVE  NmiEveryEdge'
<1>. USE DEF NmiEveryEdge, Watched
<1>0. armed' => ~nmi' /\ (armed \/ ~(vblank' /\ nmiEnabled'))
  BY DEF Next, Watch
<1>1. CASE Cpu \/ Dma
  <2>1. nmiEnabled' = nmiEnabled
    BY <1>1 DEF Cpu, TakeNmi, TakeIrq, RunInstr, NextInstr,
                Dma, StartDma, CopyDmaByte, ResumeDma, EndDma
  <2>. QED
    BY <1>0, <1>1, <2>1, CpuSide DEF StatusRead, posVars, flagVars
<1>2. CASE Access
  <2>1. nmiEnabled' = nmiEnabled \/ (nmiEnabled' /\ vblank => nmi' \/ nmiEnabled)
    BY <1>2 DEF Access, ReadStatus, WriteCtrl, WriteMask
  <2>. QED
    BY <1>0, <1>2, <2>1, CpuSide DEF StatusRead, posVars, flagVars
<1>3. CASE StepRenderLine
  <2>1. line # FirstVblank
    BY <1>3, RenderLineStep, LinesAssumption DEF FirstVblank, PreRender
  <2>. QED
    BY <1>0, <1>3, <2>1 DEF StepRenderLine
<1>4. CASE StepIdleLine
  <2>1. line # FirstVblank
    BY <1>4, LinesAssumption DEF StepIdleLine, FirstVblank, Idle
  <2>. QED
    BY <1>0, <1>4, <2>1 DEF StepIdleLine, flagVars
<1>5. CASE StepVblankLine
  <2>1. /\ vblank' => vblank \/ (line = FirstVblank /\ dot = 1)
        /\ nmi' <=> nmi \/ (line = FirstVblank /\ dot = 3 /\ nmiEnabled /\ vblank)
        /\ nmiEnabled' = nmiEnabled
    BY <1>5 DEF StepVblankLine
  <2>2. dot \in 0 .. LineEnd /\ (dot < 3 => line' = line /\ dot' = dot + 1)
    BY <1>5, VblankLineStep DEF LineEnd
  <2>3. CASE line = FirstVblank /\ dot < 3
    BY <2>2, <2>3 DEF LineEnd
  <2>4. CASE line = FirstVblank /\ dot = 3
    BY <1>0, <2>1, <2>4
  <2>5. CASE line # FirstVblank \/ dot > 3
    BY <1>0, <2>1, <2>5
  <2>. QED
    BY <2>2, <2>3, <2>4, <2>5 DEF LineEnd
<1>. QED
  BY <1>1, <1>2, <1>3, <1>4, <1>5 DEF Next, Step

-----------------------------------------------------------------------------
(***************************************************************************)
(* Time.                                                                   *)
(***************************************************************************)
LEMMA UsedRange ==
  ASSUME TypeOK, Bookkeeping
  PROVE  /\ Used \in Nat /\ MaxSpent \in Nat /\ Used <= MaxSpent
         /\ DmaCycles \in Nat
         /\ Progress \in Int /\ Slack \in Nat
         /\ spent = 0 => Used = 0
<1>. USE CpuAssumption DEF TypeOK, Bookkeeping
<1>1. DmaCycles \in Nat /\ DmaCycles = 2 * DmaBytes + 2
  BY DEF DmaCycles
<1>2. /\ MaxSpent \in Nat
      /\ dmas * DmaCycles \in Nat
      /\ MaxDmas * DmaCycles \in Nat
      /\ dmas * DmaCycles <= MaxDmas * DmaCycles
      /\ dmas < MaxDmas => dmas * DmaCycles + DmaCycles <= MaxDmas * DmaCycles
  <2>1. CASE MaxDmas = 0
    BY <1>1, <2>1 DEF MaxSpent
  <2>2. CASE MaxDmas = 1
    <3>1. CASE dmas = 0
      BY <1>1, <2>2, <3>1 DEF MaxSpent
    <3>2. CASE dmas = 1
      BY <1>1, <2>2, <3>2 DEF MaxSpent
    <3>. QED
      BY <2>2, <3>1, <3>2
  <2>3. CASE MaxDmas = 2
    <3>1. CASE dmas = 0
      BY <1>1, <2>3, <3>1 DEF MaxSpent
    <3>2. CASE dmas = 1
      BY <1>1, <2>3, <3>2 DEF MaxSpent
    <3>3. CASE dmas = 2
      BY <1>1, <2>3, <3>3 DEF MaxSpent
    <3>. QED
      BY <2>3, <3>1, <3>2, <3>3
  <2>. QED
    BY <2>1, <2>2, <2>3
<1>3. Used \in Nat /\ Used = spent + dmas * DmaCycles + 2 * dmaIdx
  BY <1>2 DEF Used
<1>4. MaxSpent = MaxInstr + MaxDmas * DmaCycles
  BY DEF MaxSpent
<1>5. Used <= MaxSpent
  BY <1>1, <1>2, <1>3, <1>4
<1>6. Progress \in Int
  BY <1>3 DEF Progress
<1>7. Slack \in Nat
  BY <1>2 DEF Slack
<1>8. spent = 0 => Used = 0
  BY <1>1, <1>3
<1>. QED
  BY <1>1, <1>2, <1>3, <1>5, <1>6, <1>7, <1>8

(* What the CPU's side spends, it counts; only the cycles of an interrupt  *)
(* are not counted, and a new instruction starts from zero.                *)
LEMMA CpuSideProgress ==
  ASSUME TypeOK, Bookkeeping, Cpu \/ Access \/ Dma
  PROVE  /\ lead' <= lead
         /\ \/ /\ TakeNmi \/ TakeIrq
               /\ Progress' = Progress - 3 * InterruptCycles
            \/ NextInstr /\ Used' = 0 /\ Progress' = lead
            \/ /\ ~(TakeNmi \/ TakeIrq \/ NextInstr)
               /\ Progress' >= Progress
<1>. USE CpuAssumption DEF TypeOK
<1>1. DmaCycles \in Nat /\ DmaCycles = 2 * DmaBytes + 2
      /\ dmas * DmaCycles \in Int /\ Progress \in Int
      /\ (dmas + 1) * DmaCycles = dmas * DmaCycles + DmaCycles
  <2>1. DmaCycles \in Nat /\ Progress \in Int
    BY UsedRange
  <2>. HIDE DEF TypeOK
  <2>2. dmas \in {0, 1, 2}
    BY DEF TypeOK
  <2>. QED
    BY <2>1, <2>2 DEF DmaCycles
<1>2. Progress = lead + 3 * (spent + dmas * DmaCycles + 2 * dmaIdx)
  BY DEF Progress, Used
<1>3. Progress' = lead' + 3 * (spent' + dmas' * DmaCycles + 2 * dmaIdx')
  BY DEF Progress, Used
<1>4. CASE TakeNmi \/ TakeIrq
  <2>1. /\ lead' = lead - 3 * InterruptCycles
        /\ UNCHANGED <<spent, dmas, dmaIdx>>
    BY <1>4 DEF TakeNmi, TakeIrq
  <2>. QED
    BY <1>1, <1>2, <1>3, <1>4, <2>1
<1>5. ASSUME NEW n \in 1 .. MaxInstr,
             NEW next \in {"register", "dmaStart", "end"},
             RunInstr(n, next)
      PROVE  /\ lead' <= lead /\ Progress' >= Progress
             /\ ~(TakeNmi \/ TakeIrq \/ NextInstr)
  <2>1. /\ lead' = lead - 3 * n /\ spent' = spent + n
        /\ UNCHANGED <<dmas, dmaIdx>>
    BY <1>5 DEF RunInstr
  <2>2. ~(TakeNmi \/ TakeIrq \/ NextInstr)
    BY <2>1 DEF TakeNmi, TakeIrq, NextInstr, AtInstrStart
  <2>. QED
    BY <1>1, <1>2, <1>3, <2>1, <2>2
<1>6. CASE NextInstr
  <2>1. lead' = lead /\ spent' = 0 /\ dmas' = 0 /\ dmaIdx' = 0
    BY <1>6 DEF NextInstr, Synced, Bookkeeping
  <2>. QED
    BY <1>1, <1>3, <1>6, <2>1 DEF Used
<1>7. CASE Access
  <2>1. UNCHANGED <<lead, spent, dmas, dmaIdx>> /\ phase = "register"
    BY <1>7 DEF Access, ReadStatus, WriteCtrl, WriteMask, Synced, cpuVars
  <2>2. ~(TakeNmi \/ TakeIrq \/ NextInstr)
    BY <2>1 DEF TakeNmi, TakeIrq, NextInstr, AtInstrStart, Synced
  <2>. QED
    BY <1>1, <1>2, <1>3, <2>1, <2>2
<1>8. CASE Dma
  <2>1. phase \in {"dmaStart", "dma", "dmaNext"}
    BY <1>8 DEF Dma, StartDma, CopyDmaByte, ResumeDma, EndDma, Synced
  <2>2. ~(TakeNmi \/ TakeIrq \/ NextInstr)
    BY <2>1 DEF TakeNmi, TakeIrq, NextInstr, AtInstrStart, Synced
  <2>3. CASE StartDma \/ ResumeDma
    <3>1. UNCHANGED <<lead, spent, dmas, dmaIdx>>
      BY <2>3 DEF StartDma, ResumeDma, Synced, cpuVars, Bookkeeping
    <3>. QED
      BY <1>1, <1>2, <1>3, <2>2, <3>1
  <2>4. CASE CopyDmaByte
    <3>1. /\ lead' = lead - 6 /\ dmaIdx' = dmaIdx + 1
          /\ UNCHANGED <<spent, dmas>>
      BY <2>4 DEF CopyDmaByte
    <3>. QED
      BY <1>1, <1>2, <1>3, <2>2, <3>1
  <2>5. CASE EndDma
    <3>1. /\ lead' \in {lead - 3, lead - 6} /\ dmaIdx = DmaBytes
          /\ dmas' = dmas + 1 /\ dmaIdx' = 0 /\ spent' = spent
      BY <2>5 DEF EndDma
    <3>2. dmas' * DmaCycles = dmas * DmaCycles + 2 * dmaIdx + 2
      BY <1>1, <3>1
    <3>3. lead' \in Int /\ lead' <= lead /\ lead' >= lead - 6
      BY <3>1
    <3>4. Used \in Nat /\ Used' = Used + 2
      <4>1. Used \in Nat
        BY UsedRange
      <4>. QED
        BY <1>1, <3>1, <3>2, <4>1 DEF Used
    <3>5. \A l, m \in Int, u \in Nat : m >= l - 6 => m + 3 * (u + 2) >= l + 3 * u
      OBVIOUS
    <3>6. lead \in Int
      BY DEF TypeOK
    <3>7. Progress' >= Progress
      BY <3>3, <3>4, <3>5, <3>6 DEF Progress
    <3>. QED
      BY <2>2, <3>3, <3>7
  <2>. QED
    BY <1>8, <2>3, <2>4, <2>5 DEF Dma
<1>. QED
  BY <1>4, <1>5, <1>6, <1>7, <1>8 DEF Cpu

(* A step of the PPU leaves the CPU alone; its dots are counted.           *)
LEMMA StepProgress ==
  ASSUME TypeOK, Bookkeeping, Step
  PROVE  /\ lead < 0
         /\ \E w \in Nat : lead' = lead + w /\ Progress' = Progress + w
         /\ UNCHANGED <<spent, dmas, dmaIdx, delayNmi, irqMasked, phase>>
         /\ phase \in CatchUps
<1>1. PICK w \in Nat : lead' = lead + w
  <2>1. CASE StepRenderLine
    BY <2>1, RenderLineStep
  <2>2. CASE StepIdleLine
    BY <2>2, IdleLineStep
  <2>3. CASE StepVblankLine
    BY <2>3, VblankLineStep
  <2>. QED
    BY <2>1, <2>2, <2>3 DEF Step
<1>2. /\ UNCHANGED <<spent, dmas, dmaIdx, delayNmi, irqMasked, phase>>
      /\ lead < 0 /\ phase \in CatchUps
  BY DEF Step, StepRenderLine, StepIdleLine, StepVblankLine, Behind, cpuVars
<1>3. Used \in Nat /\ Used' = Used
  BY <1>2, UsedRange DEF Used
<1>4. \A l \in Int, n, u \in Nat : (l + n) + 3 * u = (l + 3 * u) + n
  OBVIOUS
<1>. QED
  BY <1>1, <1>2, <1>3, <1>4 DEF Progress, TypeOK

LEMMA ProgressNext ==
  ASSUME TypeOK, Bookkeeping, ProgressBound, Next
  PROVE  ProgressBound'
<1>. USE CpuAssumption DEF ProgressBound
<1>1. CASE Cpu \/ Access \/ Dma
  <2>. USE UsedRange
  <2>1. CASE TakeNmi \/ TakeIrq
    <3>1. spent' = 0 /\ phase' = "end" /\ phase = "cpu"
      BY <2>1 DEF TakeNmi, TakeIrq, AtInstrStart
    <3>2. Progress' = Progress - 3 * InterruptCycles
      BY <1>1, <2>1, <3>1, CpuSideProgress DEF NextInstr, Synced
    <3>. QED
      BY <3>1, <3>2
  <2>2. CASE NextInstr
    <3>1. lead >= 0 /\ phase' = "cpu" /\ phase = "end"
      BY <2>2 DEF NextInstr, Synced
    <3>2. Progress' = lead
      BY <1>1, <2>2, <3>1, CpuSideProgress DEF TakeNmi, TakeIrq, AtInstrStart
    <3>. QED
      BY <3>1, <3>2 DEF TypeOK
  <2>3. CASE ~(TakeNmi \/ TakeIrq \/ NextInstr)
    <3>1. Progress' >= Progress
      BY <1>1, <2>3, CpuSideProgress
    <3>2. ~(spent = 0 /\ phase = "end")
      BY <1>1, <2>3 DEF Cpu, RunInstr, Access, ReadStatus, WriteCtrl, WriteMask,
            Dma, StartDma, CopyDmaByte, ResumeDma, EndDma, Synced
    <3>3. Progress' \in Int
      <4>1. TypeOK' /\ Bookkeeping'
        BY TypingNext
      <4>. QED
        BY <4>1, UsedRange DEF TypeOK, Progress, Used
    <3>. QED
      BY <3>1, <3>2, <3>3
  <2>. QED
    BY <2>1, <2>2, <2>3
<1>2. CASE Step
  BY <1>2, StepProgress, UsedRange DEF TypeOK
<1>. QED
  BY <1>1, <1>2 DEF Next

LEMMA LeadNext ==
  ASSUME TypeOK, Bookkeeping, LeadAtFlag, Next
  PROVE  LeadAtFlag'
<1>1. TypeOK' /\ Bookkeeping'
  BY TypingNext
<1>. USE LinesAssumption DEF LeadAtFlag
<1>2. CASE Cpu \/ Access \/ Dma
  BY <1>1, <1>2, CpuSide, CpuSideProgress DEF posVars, TypeOK
<1>3. CASE StepRenderLine
  BY <1>3, RenderLineStep DEF FirstVblank, Idle, PreRender
<1>4. CASE StepIdleLine
  BY <1>4, IdleLineStep DEF FirstVblank, Idle
<1>5. CASE StepVblankLine
  <2>1. lead < 0
    BY <1>5 DEF StepVblankLine, Behind
  <2>. QED
    BY <1>5, <2>1, VblankLineStep DEF FirstVblank, LineEnd, PreRender, TypeOK
<1>. QED
  BY <1>2, <1>3, <1>4, <1>5 DEF Next, Step

(* Outside the vblank lines an NMI can only be raised by a write of        *)
(* ppuctrl on the first two dots of the pre-render line.                   *)
LEMMA RaisedWhere ==
  ASSUME TypeOK, VblankFlag, Cpu \/ Access \/ Dma, nmi', ~nmi
  PROVE  /\ vblank /\ ~nmiEnabled /\ Synced("register") /\ phase' = "cpu"
         /\ spent' = spent /\ delayNmi'
         /\ line \notin VblankLines => line = PreRender /\ dot <= 1
<1>1. PICK b \in BOOLEAN : WriteCtrl(b)
  BY DEF Cpu, TakeNmi, TakeIrq, RunInstr, NextInstr, Access, ReadStatus,
         WriteMask, Dma, StartDma, CopyDmaByte, ResumeDma, EndDma
<1>2. /\ vblank /\ ~nmiEnabled /\ Synced("register") /\ phase' = "cpu"
      /\ spent' = spent /\ delayNmi'
  BY <1>1 DEF WriteCtrl, cpuVars
<1>. QED
  BY <1>2, LinesAssumption DEF VblankFlag, VblankWindow, VblankLines, FirstVblank

(* The uncounted cycles of an interrupt are always allowed for.            *)
BudgetRange == Budget \in Int /\ Budget >= 2

LEMMA BudgetEnough == TypeOK /\ Bookkeeping /\ ProgressBound => BudgetRange
<1>. SUFFICES ASSUME TypeOK, Bookkeeping, ProgressBound PROVE BudgetRange
  OBVIOUS
<1>1. Progress \in Int /\ Slack \in Nat /\ MaxSpent \in Nat
  BY UsedRange
<1>2. Progress + Slack \in Int /\ Progress + Slack >= 0
  <2>1. CASE spent = 0 /\ phase = "end"
    <3>1. Slack = 3 * MaxSpent + 3 * InterruptCycles
      BY <2>1 DEF Slack, Bookkeeping, AtInstrStart
    <3>. QED
      BY <1>1, <3>1, CpuAssumption DEF ProgressBound
  <2>2. CASE ~(spent = 0 /\ phase = "end")
    BY <1>1, <2>2 DEF ProgressBound
  <2>. QED
    BY <2>1, <2>2
<1>3. \A p, s \in Int : p + s >= 0 => 2 + p + s >= 2
  OBVIOUS
<1>. QED
  BY <1>1, <1>2, <1>3 DEF BudgetRange, Budget

LEMMA BudgetEnoughNext == (TypeOK /\ Bookkeeping /\ ProgressBound)' => BudgetRange'
BY BudgetEnough, PTL

(* What the CPU's side does to the budget of an NMI that stays pending.    *)
LEMMA PendingCpuSide ==
  ASSUME TypeOK, Bookkeeping, nmi, nmi', ~vblank, Cpu \/ Access \/ Dma,
         Progress' \in Int
  PROVE  Budget <= Budget'
<1>. USE CpuAssumption, UsedRange
<1>0. \A p, q \in Int, s, r \in Nat : p + s <= q + r => 2 + p + s <= 2 + q + r
  OBVIOUS
<1>. SUFFICES Slack' \in Nat /\ Progress + Slack <= Progress' + Slack'
  BY <1>0 DEF Budget
<1>b. Slack' \in Nat
  BY DEF Slack
<1>1. CASE TakeNmi
  BY <1>1 DEF TakeNmi
<1>2. CASE TakeIrq
  <2>1. /\ spent = 0 /\ spent' = 0 /\ delayNmi /\ delayNmi'
        /\ ~irqMasked /\ irqMasked' /\ phase = "cpu"
    BY <1>2 DEF TakeIrq, NmiTaken, AtInstrStart
  <2>2. Progress' = Progress - 3 * InterruptCycles
    BY <1>2, <2>1, CpuSideProgress DEF NextInstr, Synced
  <2>. QED
    BY <2>1, <2>2 DEF Slack
<1>3. ASSUME NEW n \in 1 .. MaxInstr,
             NEW next \in {"register", "dmaStart", "end"},
             RunInstr(n, next)
      PROVE  Progress + Slack <= Progress' + Slack'
  <2>1. /\ phase = "cpu" /\ (AtInstrStart => delayNmi)
        /\ delayNmi' = (IF AtInstrStart THEN FALSE ELSE delayNmi)
        /\ phase' = next /\ spent' = spent + n
    BY <1>3 DEF RunInstr, NmiTaken
  <2>2. spent' # 0 /\ ~AtInstrStart'
    BY <2>1 DEF TypeOK, AtInstrStart
  <2>3. Progress' = Progress
    <3>1. lead' = lead - 3 * n /\ UNCHANGED <<dmas, dmaIdx>>
      BY <1>3 DEF RunInstr
    <3>2. Used' = Used + n
      <4>1. spent' + dmas * DmaCycles + 2 * dmaIdx = spent + dmas * DmaCycles + 2 * dmaIdx + n
        BY <2>1 DEF TypeOK
      <4>. QED
        BY <3>1, <4>1 DEF Used
    <3>3. \A l \in Int, u \in Nat, m \in Nat : l - 3 * m + 3 * (u + m) = l + 3 * u
      OBVIOUS
    <3>. QED
      BY <3>1, <3>2, <3>3 DEF Progress, TypeOK
  <2>4. Progress' \in Int
    BY <2>3
  <2>5. CASE AtInstrStart
    <3>1. Slack <= 3 * MaxSpent + 3 * InterruptCycles /\ Slack \in Int
      BY <2>1, <2>5 DEF Slack
    <3>2. Slack' = 3 * MaxSpent + 3 * InterruptCycles
      BY <2>1, <2>2, <2>5 DEF Slack
    <3>. QED
      BY <2>3, <2>4, <3>1, <3>2
  <2>6. CASE ~AtInstrStart
    <3>1. spent # 0 /\ delayNmi' = delayNmi
      BY <2>1, <2>6 DEF Bookkeeping, AtInstrStart
    <3>2. Slack' = Slack
      BY <2>1, <2>2, <2>6, <3>1 DEF Slack, TypeOK
    <3>. QED
      BY <2>3, <2>4, <3>2
  <2>. QED
    BY <2>5, <2>6
<1>4. CASE NextInstr
  <2>1. /\ spent' = 0 /\ phase' = "cpu" /\ dmas' = 0 /\ phase = "end"
        /\ lead \in Int
        /\ UNCHANGED <<delayNmi, irqMasked>>
    BY <1>4 DEF NextInstr, Synced, TypeOK
  <2>2. Progress' = lead
    BY <1>4, <2>1, CpuSideProgress DEF TakeNmi, TakeIrq, AtInstrStart
  <2>3. Progress = lead + 3 * Used
    BY DEF Progress
  <2>4. ~AtInstrStart /\ AtInstrStart'
    BY <2>1 DEF AtInstrStart
  <2>5. CASE spent = 0
    BY <2>1, <2>2, <2>3, <2>4, <2>5 DEF Slack
  <2>6. CASE spent # 0
    <3>1. Slack' >= Slack + 3 * MaxSpent /\ Slack' \in Int
      <4>1. CASE delayNmi
        BY <2>1, <2>4, <2>6, <4>1 DEF Slack, TypeOK
      <4>2. CASE ~delayNmi
        BY <2>1, <2>4, <2>6, <4>2 DEF Slack, TypeOK
      <4>. QED
        BY <4>1, <4>2
    <3>2. \A l \in Int, u, m \in Nat : u <= m => l + 3 * u <= l + 3 * m
      OBVIOUS
    <3>3. Progress <= lead + 3 * MaxSpent
      BY <2>1, <2>3, <3>2
    <3>. QED
      BY <2>1, <2>2, <3>1, <3>3
  <2>. QED
    BY <2>5, <2>6
<1>5. CASE Access \/ Dma
  <2>1. phase \in {"register", "dmaStart", "dma", "dmaNext"}
    BY <1>5 DEF Access, ReadStatus, WriteCtrl, WriteMask, Dma, StartDma, CopyDmaByte,
                ResumeDma, EndDma, Synced
  <2>2. Progress' >= Progress
    BY <1>5, <2>1, CpuSideProgress DEF TakeNmi, TakeIrq, NextInstr, AtInstrStart, Synced
  <2>3. delayNmi' <=> delayNmi
    <3>1. ASSUME NEW b \in BOOLEAN, WriteCtrl(b) PROVE delayNmi' <=> delayNmi
      BY <3>1 DEF WriteCtrl
    <3>. QED
      BY <1>5, <3>1 DEF Access, ReadStatus, WriteMask, Dma, StartDma, CopyDmaByte,
                        ResumeDma, EndDma
  <2>4. spent' = spent /\ irqMasked' = irqMasked /\ spent # 0
    BY <1>5, <2>1 DEF Access, ReadStatus, WriteCtrl, WriteMask, Dma, StartDma, CopyDmaByte,
                ResumeDma, EndDma, cpuVars, Bookkeeping
  <2>5. Slack' = Slack
    BY <2>3, <2>4 DEF Slack, AtInstrStart, TypeOK
  <2>. QED
    BY <2>2, <2>5
<1>. QED
  BY <1>b, <1>1, <1>2, <1>3, <1>4, <1>5 DEF Cpu

LEMMA ProgressType == TypeOK /\ Bookkeeping => Progress \in Int
BY UsedRange

LEMMA UsedRangeNext == (TypeOK /\ Bookkeeping)' => (Progress \in Int)'
BY ProgressType, PTL

LEMMA PendingNext ==
  ASSUME TypeOK, Bookkeeping, VblankFlag, Timing, Next
  PROVE  PendingBound'
<1>. USE LinesAssumption
<1>1. TypeOK' /\ Bookkeeping' /\ ProgressBound'
  BY TypingNext, ProgressNext DEF Timing
<1>2. Budget \in Int /\ Budget' \in Int /\ Budget' >= 2
  BY <1>1, BudgetEnough, BudgetEnoughNext DEF BudgetRange, Timing
<1>3. /\ line \in Int /\ dot \in Int /\ SincePreRender(line, dot) \in Int
      /\ SincePreRender(line', dot') \in Int
  BY <1>1, PositionKinds DEF TypeOK, SincePreRender, DotsPerLine
<1>. SUFFICES ASSUME nmi', line' \notin VblankLines
              PROVE  SincePreRender(line', dot') <= Budget'
  BY DEF PendingBound
<1>4. CASE Cpu \/ Access \/ Dma
  <2>1. line' = line /\ dot' = dot
    BY <1>4, CpuSide DEF posVars
  <2>2. SincePreRender(line', dot') = SincePreRender(line, dot)
    BY <2>1
  <2>3. CASE vblank
    <3>1. line = PreRender /\ dot <= 1
      BY <2>1, <2>3 DEF VblankFlag, VblankWindow, VblankLines, FirstVblank
    <3>2. SincePreRender(line, dot) <= 1
      BY <1>3, <3>1 DEF SincePreRender, PreRender, DotsPerLine
    <3>. QED
      BY <1>2, <1>3, <2>2, <3>2
  <2>4. CASE ~vblank
    <3>1. nmi
      BY <1>4, <2>4, RaisedWhere
    <3>2. Budget <= Budget'
      <4>1. Progress' \in Int
        BY <1>1, UsedRangeNext
      <4>. QED
        BY <1>4, <2>4, <3>1, <4>1, PendingCpuSide
    <3>3. SincePreRender(line, dot) <= Budget
      BY <2>1, <3>1 DEF Timing, PendingBound
    <3>. QED
      BY <1>2, <1>3, <2>2, <3>2, <3>3
  <2>. QED
    BY <2>3, <2>4
<1>5. CASE Step
  <2>1. PICK w \in Nat : lead' = lead + w /\ Progress' = Progress + w
    BY <1>5, StepProgress
  <2>2. Slack' = Slack
    BY <1>5, StepProgress DEF Slack, AtInstrStart
  <2>3. Budget' = Budget + w
    <3>1. Progress \in Int /\ Slack \in Nat
      BY UsedRange
    <3>2. \A p \in Int, s, n \in Nat : 2 + (p + n) + s = (2 + p + s) + n
      OBVIOUS
    <3>. QED
      BY <2>1, <2>2, <3>1, <3>2 DEF Budget
  <2>4. ASSUME nmi, line \notin VblankLines,
               SincePreRender(line', dot') <= SincePreRender(line, dot) + w
        PROVE  SincePreRender(line', dot') <= Budget'
    <3>1. SincePreRender(line, dot) <= Budget
      BY <2>4 DEF Timing, PendingBound
    <3>. QED
      BY <1>2, <1>3, <2>3, <2>4, <3>1
  <2>5. CASE StepRenderLine
    <3>1. line \in PreRender .. LastVisible /\ nmi' = nmi
      BY <2>5, RenderLineStep DEF StepRenderLine
    <3>2. line \notin VblankLines
      BY <3>1 DEF VblankLines, FirstVblank, PreRender
    <3>3. SincePreRender(line', dot') <= SincePreRender(line, dot) + w
      <4>1. PICK v \in Nat :
              /\ lead' = lead + v
              /\ SincePreRender(line', dot') <= SincePreRender(line, dot) + v
        BY <2>5, RenderLineStep
      <4>2. v = w
        BY <2>1, <4>1 DEF TypeOK
      <4>. QED
        BY <4>1, <4>2
    <3>. QED
      BY <2>4, <3>1, <3>2, <3>3
  <2>6. CASE StepIdleLine
    <3>1. line = Idle /\ nmi' = nmi
      BY <2>6 DEF StepIdleLine
    <3>2. line \notin VblankLines
      BY <3>1 DEF VblankLines, FirstVblank, Idle
    <3>3. line' = Idle
      <4>1. FirstVblank \in VblankLines
        BY LinesAndDots
      <4>. QED
        BY <2>6, <4>1, IdleLineStep
    <3>4. SincePreRender(line', dot') <= SincePreRender(line, dot) + w
      <4>1. PICK v \in Nat :
              /\ lead' = lead + v
              /\ SincePreRender(line', dot') = SincePreRender(line, dot) + v
        BY <2>6, <3>3, IdleLineStep
      <4>2. v = w
        BY <2>1, <4>1 DEF TypeOK
      <4>. QED
        BY <1>3, <4>1, <4>2
    <3>. QED
      BY <2>4, <3>1, <3>2, <3>4
  <2>7. CASE StepVblankLine
    <3>1. line' = PreRender /\ dot' = 0
      <4>1. /\ line \in VblankLines
            /\ \/ line' = PreRender /\ dot' = 0
               \/ line # LastVblank /\ line' = line + 1
               \/ line' = line
        BY <2>7, VblankLineStep DEF StepVblankLine
      <4>. QED
        BY <4>1, LinesAndDots
    <3>2. SincePreRender(line', dot') = 0
      BY <3>1 DEF SincePreRender, PreRender, DotsPerLine
    <3>. QED
      BY <1>2, <3>2
  <2>. QED
    BY <1>5, <2>5, <2>6, <2>7 DEF Step
<1>. QED
  BY <1>4, <1>5 DEF Next

LEMMA TimingNext ==
  ASSUME TypeOK, Bookkeeping, VblankFlag, Timing, Next
  PROVE  Timing'
BY ProgressNext, PendingNext, LeadNext DEF Timing

-----------------------------------------------------------------------------
(***************************************************************************)
(* The NMI.                                                                *)
(***************************************************************************)
(* When the first vblank line begins no NMI is pending any more: it would  *)
(* have been pending for the whole picture.                                *)
LEMMA NoneLeft ==
  ASSUME TypeOK, Bookkeeping, Timing, StepIdleLine, dot = LineEnd
  PROVE  ~nmi
<1>. USE LinesAssumption, CpuAssumption
<1>. SUFFICES ASSUME nmi PROVE FALSE
  OBVIOUS
<1>1. line = Idle /\ lead < 0 /\ phase \in CatchUps
  BY DEF StepIdleLine, Behind
<1>2. line \notin VblankLines
  BY <1>1 DEF VblankLines, FirstVblank, Idle
<1>3. SincePreRender(line, dot) <= Budget
  BY <1>2 DEF Timing, PendingBound
<1>4. SincePreRender(line, dot) = DotsPerLine * (LastVisible + 3) - 6
  BY <1>1 DEF SincePreRender, Idle, LineEnd, DotsPerLine
<1>5. /\ Used \in Nat /\ MaxSpent \in Nat /\ Used <= MaxSpent
      /\ lead \in Int /\ Slack \in Nat
  BY UsedRange DEF TypeOK
<1>6. Slack <= 3 * MaxSpent + 3 * InterruptCycles
  BY <1>1, <1>5 DEF Slack, AtInstrStart, CatchUps
<1>7. \A l \in Int, u, m, s, i \in Nat :
        l < 0 /\ u <= m /\ s <= 3 * m + 3 * i =>
          2 + (l + 3 * u) + s < 6 * m + 3 * i + 2
  OBVIOUS
<1>8. Budget < 6 * MaxSpent + 3 * InterruptCycles + 2
  BY <1>1, <1>5, <1>6, <1>7 DEF Budget, Progress
<1>9. Budget \in Int
  BY BudgetEnough DEF BudgetRange, Timing
<1>10. \A a, b, c \in Int : ~(a - 6 <= b /\ b < c + 2 /\ c + 8 < a)
  OBVIOUS
<1>. QED
  BY <1>3, <1>4, <1>5, <1>8, <1>9, <1>10, FrameAssumption DEF DotsPerLine

(* Before the step on dot 3, the NMI can only be raised by a write of      *)
(* ppuctrl, and cannot be served.                                          *)
LEMMA RaisedNext ==
  ASSUME TypeOK, Bookkeeping, VblankFlag, Timing, Watched, RaisedEarly, Next
  PROVE  RaisedEarly'
<1>. USE LinesAssumption
<1>0. ~nmi' /\ (armed \/ ~vblank') => armed'
  BY DEF Next, Watch
<1>. SUFFICES ASSUME line' = FirstVblank, dot' <= 3
              PROVE  IF nmi' THEN /\ dot' >= 2
                                  /\ \/ phase' = "cpu" /\ spent' > 0
                                     \/ phase' \in CatchUps /\ lead' <= dot' - 4
                     ELSE armed'
  BY DEF RaisedEarly
<1>1. CASE Cpu \/ Access \/ Dma
  <2>1. line = FirstVblank /\ dot <= 3 /\ dot' = dot /\ dot \in Int
    BY <1>1, CpuSide, PositionKinds DEF posVars, TypeOK
  <2>2. ~nmi => armed
    BY <2>1 DEF RaisedEarly
  <2>3. nmi => /\ dot >= 2
               /\ \/ phase = "cpu" /\ spent > 0
                  \/ phase \in CatchUps /\ lead <= dot - 4
    BY <2>1 DEF RaisedEarly
  <2>4. CASE nmi
    <3>1. lead <= 0 /\ lead \in Int
      BY <2>1, <2>3, <2>4 DEF Timing, LeadAtFlag, TypeOK
    <3>2. phase = "cpu" /\ spent > 0
      <4>1. ASSUME phase \in CatchUps PROVE FALSE
        <5>1. lead < 0
          BY <2>1, <2>3, <2>4, <3>1, <4>1 DEF CatchUps
        <5>2. phase # "cpu" /\ phase # "dma" /\ ~(lead >= 0)
          BY <3>1, <4>1, <5>1 DEF CatchUps
        <5>3. ~Cpu
          BY <5>2 DEF Cpu, TakeNmi, TakeIrq, RunInstr, NextInstr, Synced, AtInstrStart
        <5>4. ~Access /\ ~Dma
          BY <5>2 DEF Access, ReadStatus, WriteCtrl, WriteMask, Dma, StartDma,
                      CopyDmaByte, ResumeDma, EndDma, Synced
        <5>. QED
          BY <1>1, <5>3, <5>4
      <4>. QED
        BY <2>3, <2>4, <4>1
    <3>3. PICK n \in 1 .. MaxInstr, next \in {"register", "dmaStart", "end"} :
            RunInstr(n, next)
      BY <1>1, <3>2 DEF Cpu, TakeNmi, TakeIrq, NextInstr, Access, ReadStatus,
           WriteCtrl, WriteMask, Dma, StartDma, CopyDmaByte, ResumeDma, EndDma,
           Synced, AtInstrStart, TypeOK
    <3>4. lead' = lead - 3 * n /\ nmi' = nmi /\ phase' = next
      BY <3>3 DEF RunInstr
    <3>. QED
      BY <2>1, <2>3, <2>4, <3>1, <3>4, CpuAssumption DEF CatchUps
  <2>5. CASE ~nmi /\ nmi'
    <3>1. vblank /\ phase' = "cpu" /\ spent' = spent /\ phase = "register"
      BY <1>1, <2>5, RaisedWhere DEF Synced
    <3>2. dot >= 2
      BY <2>1, <3>1 DEF VblankFlag, VblankWindow, FirstVblank, PreRender
    <3>. QED
      BY <2>1, <2>5, <3>1, <3>2 DEF Bookkeeping, TypeOK
  <2>6. CASE ~nmi /\ ~nmi'
    BY <1>0, <2>2, <2>6
  <2>. QED
    BY <2>4, <2>5, <2>6
<1>2. CASE StepRenderLine
  BY <1>2, RenderLineStep DEF FirstVblank, Idle, PreRender
<1>3. CASE StepIdleLine
  <2>1. dot = LineEnd /\ line = Idle
    BY <1>3, IdleLineStep DEF FirstVblank, Idle
  <2>2. ~nmi' /\ vblank' = vblank
    BY <1>3, <2>1, NoneLeft DEF StepIdleLine, flagVars
  <2>3. ~vblank
    BY <2>1 DEF VblankFlag, VblankWindow, FirstVblank, Idle, PreRender
  <2>. QED
    BY <1>0, <2>2, <2>3
<1>4. CASE StepVblankLine
  <2>1. /\ line = FirstVblank /\ dot < 3 /\ dot' = dot + 1 /\ lead' = lead + 1
        /\ dot \in Int /\ lead \in Int
    BY <1>4, VblankLineStep DEF FirstVblank, PreRender, LineEnd, TypeOK
  <2>2. nmi' <=> nmi
    <3>1. nmi' <=> nmi \/ (line = FirstVblank /\ dot = 3 /\ nmiEnabled /\ vblank)
      BY <1>4 DEF StepVblankLine
    <3>. QED
      BY <2>1, <3>1
  <2>3. phase' = phase /\ phase \in CatchUps
    BY <1>4 DEF StepVblankLine, Behind
  <2>4. CASE nmi
    BY <2>1, <2>2, <2>3, <2>4 DEF RaisedEarly, CatchUps
  <2>5. CASE ~nmi
    BY <1>0, <2>1, <2>2, <2>5 DEF RaisedEarly
  <2>. QED
    BY <2>4, <2>5
<1>. QED
  BY <1>1, <1>2, <1>3, <1>4 DEF Next, Step

-----------------------------------------------------------------------------
(***************************************************************************)
(* The theorems.                                                           *)
(***************************************************************************)
LEMMA IInvInit == Init => IInv
<1>. SUFFICES ASSUME Init PROVE IInv
  OBVIOUS
<1>. USE LinesAssumption, CpuAssumption
<1>1. TypeOK /\ Bookkeeping
  BY TypingInit
<1>2. VblankFlag /\ Watched /\ ReadLeavesClear /\ NmiEveryEdge
  BY DEF Init, VblankFlag, VblankWindow, SuppressedStaysClear, Watched,
         ReadLeavesClear, NmiEveryEdge
<1>3. Timing
  <2>1. Used = 0
    BY <1>1, UsedRange DEF Init
  <2>. QED
    BY <2>1 DEF Init, Timing, ProgressBound, Progress, PendingBound, LeadAtFlag,
                FirstVblank, Idle
<1>4. RaisedEarly
  BY DEF Init, RaisedEarly
<1>. QED
  BY <1>1, <1>2, <1>3, <1>4 DEF IInv

LEMMA IInvNext == IInv /\ [Next]_vars => IInv'
<1>. SUFFICES ASSUME IInv, [Next]_vars PROVE IInv'
  OBVIOUS
<1>1. CASE Next
  <2>1. TypeOK' /\ Bookkeeping'
    BY <1>1, TypingNext DEF IInv
  <2>2. Watch
    BY <1>1 DEF Next
  <2>. QED
    BY <1>1, <2>1, <2>2, FlagNext, WatchedNext, ReadNext, EdgeNext, TimingNext,
       RaisedNext DEF IInv
<1>2. CASE UNCHANGED vars
  <2>. USE <1>2 DEF vars, posVars, flagVars, cpuVars, IInv
  <2>1. TypeOK' /\ Bookkeeping' /\ VblankFlag' /\ Watched' /\ NmiEveryEdge'
    BY DEF TypeOK, Bookkeeping, VblankFlag, VblankWindow, SuppressedStaysClear,
           Watched, NmiEveryEdge
  <2>2. Timing'
    BY DEF Timing, ProgressBound, PendingBound, LeadAtFlag, Budget, Progress, Used,
           Slack, AtInstrStart
  <2>3. RaisedEarly' /\ ReadLeavesClear'
    BY DEF RaisedEarly, ReadLeavesClear, InVblankWindow
  <2>. QED
    BY <2>1, <2>2, <2>3
<1>. QED
  BY <1>1, <1>2

LEMMA Invariance == Spec => []IInv
BY IInvInit, IInvNext, PTL DEF Spec

(* Every variable keeps its type; the PPU only ever stands on a dot on     *)
(* which its next step is defined.                                         *)
THEOREM TypeCorrect == Spec => []TypeOK
<1>1. IInv => TypeOK
  BY DEF IInv
<1>. QED
  BY <1>1, Invariance, PTL

(* The vblank flag is set only from dot 2 of the first vblank line to dot 1 *)
(* of the pre-render line, and a read of ppustatus one dot before it would *)
(* be set keeps it clear for the whole vblank and for no longer.           *)
THEOREM FlagWhereItBelongs == Spec => []VblankFlag
<1>1. IInv => VblankFlag
  BY DEF IInv
<1>. QED
  BY <1>1, Invariance, PTL

(* No rising edge of "flag set and NMI enabled" goes without its NMI.      *)
THEOREM EveryEdgeRaises == Spec => []NmiEveryEdge
<1>1. IInv => NmiEveryEdge
  BY DEF IInv
<1>. QED
  BY <1>1, Invariance, PTL

(* No NMI without such an edge, none twice for one edge, and none in a     *)
(* vblank in which ppustatus was read before.                              *)
THEOREM OnlyEdgesRaise == Spec => NmiOnlyForEdge
<1>1. IInv /\ [Next]_vars => [~nmi /\ nmi' => armed /\ ~statusRead]_vars
  <2>. SUFFICES ASSUME IInv, Next, ~nmi, nmi' PROVE armed /\ ~statusRead
    OBVIOUS
  <2>1. CASE Cpu \/ Access \/ Dma
    <3>1. vblank /\ ~nmiEnabled
      BY <2>1, RaisedWhere DEF IInv
    <3>. QED
      BY <3>1 DEF IInv, Watched, ReadLeavesClear
  <2>2. CASE Step
    <3>1. line = FirstVblank /\ dot = 3 /\ vblank
      BY <2>2 DEF Step, StepRenderLine, StepIdleLine, StepVblankLine
    <3>. QED
      BY <3>1 DEF IInv, RaisedEarly, ReadLeavesClear
  <2>. QED
    BY <2>1, <2>2 DEF Next
<1>. QED
  BY <1>1, Invariance, PTL DEF Spec, NmiOnlyForEdge

(* A pending NMI is dropped by nothing but the CPU entering the vector and *)
(* the end of an OAM DMA.                                                  *)
THEOREM OnlyTwoDrop == Spec => NmiKeptButForDma
<1>1. [Next]_vars => [nmi /\ ~nmi' => AtInstrStart \/ (phase = "dma" /\ dmaIdx = DmaBytes)]_vars
  BY DEF Next, Cpu, TakeNmi, TakeIrq, RunInstr, NextInstr, Access, ReadStatus, WriteCtrl,
         WriteMask, Dma, StartDma, CopyDmaByte, ResumeDma, EndDma, Step, StepRenderLine,
         StepIdleLine, StepVblankLine
<1>. QED
  BY <1>1, PTL DEF Spec, NmiKeptButForDma

(* An NMI pending outside the vblank lines: the CPU's clock since then.     *)
NmiDue ==
  nmi /\ line \notin VblankLines =>
    SincePreRender(line, dot) - lead <= 6 * MaxSpent + 3 * InterruptCycles + 2

(* NmiServed without the fairness: an NMI that is still pending when the   *)
(* vblank is over is taken within two instructions and an interrupt, on    *)
(* the CPU's clock, however the program has put it off before.             *)
THEOREM ServedAfterVblank == Spec => []NmiDue
<1>1. IInv => NmiDue
  <2>. SUFFICES ASSUME IInv, nmi, line \notin VblankLines
                PROVE  SincePreRender(line, dot) - lead <= 6 * MaxSpent + 3 * InterruptCycles + 2
    BY DEF NmiDue
  <2>1. /\ Used \in Nat /\ MaxSpent \in Nat /\ Used <= MaxSpent
        /\ lead \in Int /\ Slack \in Nat /\ InterruptCycles \in Nat
        /\ spent = 0 => Used = 0
    BY UsedRange, CpuAssumption DEF IInv, TypeOK
  <2>2. 3 * Used + Slack <= 6 * MaxSpent + 3 * InterruptCycles
    <3>1. CASE AtInstrStart
      BY <2>1, <3>1 DEF Slack, AtInstrStart
    <3>2. CASE ~AtInstrStart
      <4>1. Slack <= 3 * MaxSpent + 3 * InterruptCycles
        BY <2>1, <3>2 DEF Slack
      <4>. QED
        BY <2>1, <4>1
    <3>. QED
      BY <3>1, <3>2
  <2>3. SincePreRender(line, dot) <= 2 + (lead + 3 * Used) + Slack
    BY DEF IInv, Timing, PendingBound, Budget, Progress
  <2>4. SincePreRender(line, dot) \in Int
    <3>1. line \in Int /\ dot \in Int
      <4>1. line \in Lines /\ dot \in DotsOf(line)
        BY DEF IInv, TypeOK
      <4>2. line \in Int /\ DotsOf(line) \subseteq 0 .. LineEnd
        BY <4>1, LinesAndDots
      <4>3. 0 .. LineEnd \subseteq Int
        BY DEF LineEnd
      <4>. QED
        BY <4>1, <4>2, <4>3
    <3>. QED
      BY <3>1 DEF SincePreRender, DotsPerLine
  <2>5. \A s, l \in Int, u, k, m \in Nat : s <= 2 + (l + u) + k /\ u + k <= m => s - l <= m + 2
    OBVIOUS
  <2>6. 3 * Used \in Nat /\ 6 * MaxSpent + 3 * InterruptCycles \in Nat
    BY <2>1
  <2>. QED
    BY <2>1, <2>2, <2>3, <2>4, <2>5, <2>6
<1>. QED
  BY <1>1, Invariance, PTL
=============================================================================
