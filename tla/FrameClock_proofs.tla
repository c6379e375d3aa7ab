-------------------------- MODULE FrameClock_proofs --------------------------
(***************************************************************************)
(* Proofs about FrameClock, for any number of scanlines, any instruction   *)
(* length and any DMA length that satisfy the module's assumptions.        *)
(***************************************************************************)
EXTENDS FrameClock, PpuDots_proofs

-----------------------------------------------------------------------------
(***************************************************************************)
(* Type correctness.  What an instruction has done so far has to be known  *)
(* with it: a DMA is only started while one is left.                       *)
(***************************************************************************)
Bookkeeping ==
  /\ spent = 0 => phase = "cpu" /\ dmas = 0
  /\ phase \in {"dmaStart", "dma", "dmaNext"} => dmas < MaxDmas
  /\ phase \notin {"dma", "dmaNext"} => dmaIdx = 0

LEMMA TypingInit == Init => TypeOK /\ Bookkeeping
<1>. SUFFICES ASSUME Init PROVE TypeOK /\ Bookkeeping
  OBVIOUS
<1>1. line \in Lines /\ dot \in DotsOf(line)
  BY LinesAndDots DEF Init
<1>2. 0 \in 0 .. MaxInstr /\ 0 \in 0 .. MaxDmas /\ 0 \in 0 .. DmaBytes
  BY ClockAssumption
<1>3. Bookkeeping
  BY DEF Init, Bookkeeping
<1>4. evenFrame \in BOOLEAN /\ frameDone \in BOOLEAN /\ rendering \in BOOLEAN
      /\ dmaReg \in BOOLEAN
  BY DEF Init
<1>5. phase \in Phases
  BY DEF Init, Phases
<1>. QED
  BY <1>1, <1>2, <1>3, <1>4, <1>5 DEF Init, TypeOK

(* The CPU's actions and the main loop's leave the PPU's position alone.   *)
LEMMA TypingCpu ==
  ASSUME TypeOK, Bookkeeping, Cpu \/ NextInstr \/ EndFrame
  PROVE  TypeOK' /\ Bookkeeping'
<1>. USE ClockAssumption DEF TypeOK, Bookkeeping, Phases, CatchUps, ppuVars, cpuVars
<1>1. ASSUME NEW n \in 1 .. MaxInstr,
             NEW next \in {"register", "dmaStart", "end"},
             RunInstr(n, next)
      PROVE  TypeOK' /\ Bookkeeping'
  BY <1>1 DEF RunInstr
<1>2. CASE AccessRegister
  BY <1>2 DEF AccessRegister
<1>3. CASE StartDma
  BY <1>3 DEF StartDma
<1>4. CASE CopyDmaByte
  BY <1>4 DEF CopyDmaByte
<1>5. CASE ResumeDma
  BY <1>5 DEF ResumeDma
<1>6. CASE EndDma
  <2>1. cpuCycle % 2 \in 0 .. 1
    OBVIOUS
  <2>2. cpuCycle' \in Nat
    BY <1>6, <2>1 DEF EndDma
  <2>. QED
    <3>1. TypeOK'
      <4>1. dmas' \in 0 .. MaxDmas
        BY <1>6, ClockAssumption DEF EndDma
      <4>2. dmaIdx' = 0 /\ phase' = "cpu"
        BY <1>6 DEF EndDma
      <4>3. dmaReg' \in BOOLEAN
        BY <1>6 DEF EndDma
      <4>4. UNCHANGED <<ppuVars, rendering, spent>>
        BY <1>6 DEF EndDma
      <4>. QED
        BY <2>2, <4>1, <4>2, <4>3, <4>4
    <3>2. phase = "dma" /\ spent' = spent /\ phase' = "cpu" /\ dmaIdx' = 0
      BY <1>6 DEF EndDma
    <3>. QED
      BY <3>1, <3>2
<1>7. CASE NextInstr
  BY <1>7 DEF NextInstr
<1>8. CASE EndFrame
  <2>1. ppuCycle' \in Int /\ origin' \in Int
    BY <1>8 DEF EndFrame
  <2>2. frameDone' \in BOOLEAN
    BY <1>8 DEF EndFrame
  <2>. QED
    BY <1>8, <2>1, <2>2 DEF EndFrame
<1>. QED
  BY <1>1, <1>2, <1>3, <1>4, <1>5, <1>6, <1>7, <1>8 DEF Cpu

(* A step of the PPU lands on a dot of the line it reaches.                *)
LEMMA TypingStep ==
  ASSUME TypeOK, Bookkeeping, Step
  PROVE  TypeOK' /\ Bookkeeping'
<1>. USE LinesAssumption, LinesAndDots
<1>1. line' \in Lines /\ dot' \in DotsOf(line') /\ ppuCycle' \in Int
  <2>1. CASE StepRenderLine
    <3>1. /\ line \in RenderLines
          /\ dot \in RenderDots
          /\ line' = IF dot = LineEnd THEN line + 1 ELSE line
          /\ dot' = IF dot = LineEnd THEN 0 ELSE dot + RenderWidth(dot)
          /\ ppuCycle' = ppuCycle + RenderCost
      BY <2>1 DEF StepRenderLine, TypeOK, DotAfter
    <3>2. RenderCost \in Int
      BY <3>1, RenderStep DEF RenderCost
    <3>. QED
      BY <3>1, <3>2, RenderStep DEF TypeOK
  <2>2. CASE StepIdleLine
    <3>1. /\ line = Idle
          /\ dot \in IdleDots
          /\ line' = IF dot = LineEnd THEN FirstVblank ELSE line
          /\ dot' = IF dot = LineEnd THEN 0 ELSE dot + IdleWidth(dot)
          /\ ppuCycle' = ppuCycle + IdleWidth(dot)
      BY <2>2 DEF StepIdleLine, TypeOK, DotAfter
    <3>. QED
      BY <3>1, IdleStep DEF TypeOK
  <2>3. CASE StepVblankLine
    <3>1. /\ line \in VblankLines
          /\ dot \in VblankDots
          /\ line' = IF dot # LineEnd THEN line
                     ELSE IF line = LastVblank THEN PreRender ELSE line + 1
          /\ dot' = IF dot = LineEnd THEN 0 ELSE dot + VblankWidth(dot)
          /\ ppuCycle' = ppuCycle + VblankWidth(dot)
      BY <2>3 DEF StepVblankLine, TypeOK, DotAfter
    <3>. QED
      BY <3>1, VblankStep DEF TypeOK
  <2>. QED
    BY <2>1, <2>2, <2>3 DEF Step
<1>2. /\ evenFrame' \in BOOLEAN /\ frameDone' \in BOOLEAN
      /\ origin' \in Int
      /\ UNCHANGED <<rendering, cpuVars, phase>>
  BY <1>1 DEF Step, StepRenderLine, StepIdleLine, StepVblankLine, TypeOK
<1>. QED
  BY <1>1, <1>2 DEF TypeOK, Bookkeeping, cpuVars

(* The types and the bookkeeping of DMAs are an inductive invariant.       *)
LEMMA Typing == Spec => [](TypeOK /\ Bookkeeping)
<1>1. TypeOK /\ Bookkeeping /\ [Next]_vars => (TypeOK /\ Bookkeeping)'
  <2>1. CASE UNCHANGED vars
    BY <2>1 DEF vars, ppuVars, cpuVars, TypeOK, Bookkeeping
  <2>. QED
    BY <2>1, TypingCpu, TypingStep DEF Next
<1>. QED
  BY <1>1, TypingInit, PTL DEF Spec

(* Every variable keeps its type.  In particular the PPU only ever stands  *)
(* on a dot on which step() is defined, so that catch_up() always gets on. *)
THEOREM TypeCorrect == Spec => []TypeOK
BY Typing, PTL

-----------------------------------------------------------------------------
(***************************************************************************)
(* Time.  Elapsed measures the PPU's position in dots; a step of the PPU   *)
(* adds the same number to it as to the cycle counter, the skipped idle    *)
(* dot and the start of a new frame apart.                                 *)
(***************************************************************************)
LEMMA Position ==
  ASSUME TypeOK
  PROVE  /\ line \in Int /\ line \in PreRender .. LastVblank
         /\ dot \in 0 .. LineEnd
         /\ line \in RenderLines => dot \in RenderDots
         /\ line = Idle => dot \in IdleDots
         /\ line \in VblankLines => dot \in VblankDots
BY PositionKinds DEF TypeOK

LEMMA ElapsedRange ==
  ASSUME TypeOK
  PROVE  /\ FrameDots \in Nat
         /\ Elapsed(line, dot) \in 0 .. FrameDots - 5
         /\ line = Idle => Elapsed(line, dot) = dot
         /\ line # Idle => Elapsed(line, dot) >= DotsPerLine
<1>1. LastVblank \in Nat /\ LastVisible \in Nat /\ LastVblank >= LastVisible + 2
  BY LinesAssumption
<1>2. line \in PreRender .. LastVblank /\ dot \in 0 .. 336
  BY Position DEF LineEnd
<1>3. LineIndex(line) \in 0 .. LastVblank + 1
  BY <1>1, <1>2 DEF LineIndex, Idle, PreRender
<1>4. line = Idle <=> LineIndex(line) = 0
  BY <1>1, <1>2 DEF LineIndex, Idle, PreRender
<1>5. FrameDots \in Nat /\ FrameDots = 341 * (LastVblank + 2)
  BY <1>1 DEF FrameDots, DotsPerLine
<1>6. Elapsed(line, dot) = 341 * LineIndex(line) + dot
  BY DEF Elapsed, DotsPerLine
<1>. QED
  BY <1>1, <1>2, <1>3, <1>4, <1>5, <1>6 DEF DotsPerLine

\* The step that ends the last visible line and with it the frame.
LastStep == line = LastVisible /\ dot = LineEnd

(* What a step does to the position and to the cycle counter.              *)
LEMMA StepMoves ==
  ASSUME TypeOK, Step
  PROVE  \E w \in 1 .. 168 :
           /\ \/ ppuCycle' = ppuCycle + w
              \/ ppuCycle' = ppuCycle /\ w = 1 /\ ~PastIdleDot /\ PastIdleDot'
           /\ line' # Idle => w <= 8
           /\ line' = Idle /\ dot' = 0 => w = 5
           /\ ~LastStep => /\ Elapsed(line', dot') = Elapsed(line, dot) + w
                           /\ frameDone' = frameDone
                           /\ PastIdleDot => PastIdleDot'
           /\ LastStep => /\ w = 5
                          /\ frameDone' = TRUE
                          /\ Elapsed(line, dot) = FrameDots - 5
                          /\ Elapsed(line', dot') = 0
                          /\ ~PastIdleDot'
<1>. USE LinesAssumption
<1>. USE DEF Elapsed, LineIndex, FrameDots, DotsPerLine, Idle, FirstVblank,
         PreRender, LineEnd, LastStep, PastIdleDot
<1>1. CASE StepRenderLine
  <2>1. /\ line \in PreRender .. LastVisible
        /\ dot \in RenderDots /\ dot \in 0 .. LineEnd
        /\ line' = IF dot = LineEnd THEN line + 1 ELSE line
        /\ dot' = IF dot = LineEnd THEN 0 ELSE dot + RenderWidth(dot)
        /\ ppuCycle' = ppuCycle + RenderCost
        /\ ~LastStep => frameDone' = frameDone
        /\ LastStep => frameDone' = TRUE
    <3>1. dot \in RenderDots /\ dot \in 0 .. LineEnd
      BY <1>1, Position DEF StepRenderLine
    <3>2. frameDone \in BOOLEAN
      BY DEF TypeOK
    <3>3. ~LastStep => frameDone' = frameDone
      BY <1>1, <3>2 DEF StepRenderLine
    <3>4. LastStep => frameDone' = TRUE
      BY <1>1, <3>2 DEF StepRenderLine
    <3>. QED
      BY <1>1, <3>1, <3>3, <3>4 DEF StepRenderLine, RenderLines, DotAfter
  <2>2. /\ RenderWidth(dot) \in 1 .. 8
        /\ dot = LineEnd => RenderWidth(dot) = 5
        /\ dot = 0 => RenderWidth(dot) = 1
    BY <2>1, RenderStep
  <2>3. \/ RenderCost = RenderWidth(dot)
        \/ RenderCost = 0 /\ dot = 0 /\ line = 0
    BY <2>2 DEF RenderCost
  <2>4. ppuCycle \in Int
    BY DEF TypeOK
  <2>. QED
    BY <2>1, <2>2, <2>3, <2>4
<1>2. CASE StepIdleLine
  <2>1. /\ line = Idle
        /\ dot \in IdleDots /\ dot \in 0 .. LineEnd
        /\ line' = IF dot = LineEnd THEN FirstVblank ELSE line
        /\ dot' = IF dot = LineEnd THEN 0 ELSE dot + IdleWidth(dot)
        /\ ppuCycle' = ppuCycle + IdleWidth(dot)
        /\ frameDone' = frameDone
    <3>1. dot \in IdleDots /\ dot \in 0 .. LineEnd
      BY <1>2, Position DEF StepIdleLine
    <3>. QED
      BY <1>2, <3>1 DEF StepIdleLine, DotAfter
  <2>2. IdleWidth(dot) = IF dot = LineEnd THEN 5 ELSE 168
    BY <2>1, IdleStep
  <2>. QED
    BY <2>1, <2>2
<1>3. CASE StepVblankLine
  <2>1. /\ line \in FirstVblank .. LastVblank
        /\ dot \in VblankDots /\ dot \in 0 .. LineEnd
        /\ line' = IF dot # LineEnd THEN line
                   ELSE IF line = LastVblank THEN PreRender ELSE line + 1
        /\ dot' = IF dot = LineEnd THEN 0 ELSE dot + VblankWidth(dot)
        /\ ppuCycle' = ppuCycle + VblankWidth(dot)
        /\ frameDone' = frameDone
    <3>1. dot \in VblankDots /\ dot \in 0 .. LineEnd
      BY <1>3, Position DEF StepVblankLine
    <3>. QED
      BY <1>3, <3>1 DEF StepVblankLine, VblankLines, DotAfter
  <2>2. VblankWidth(dot) \in 1 .. 8 /\ (dot = LineEnd => VblankWidth(dot) = 5)
    BY <2>1, VblankStep
  <2>. QED
    BY <2>1, <2>2
<1>. QED
  BY <1>1, <1>2, <1>3 DEF Step

-----------------------------------------------------------------------------
(***************************************************************************)
(* The inductive invariant TimeInv.                                        *)
(***************************************************************************)
(* What an instruction uses is bounded, by what it may use in all.         *)
LEMMA UsedBound ==
  ASSUME TypeOK, Bookkeeping
  PROVE  Used \in Nat /\ MaxSpent \in Nat /\ Used <= MaxSpent
<1>1. /\ MaxInstr \in Nat /\ DmaBytes \in Nat /\ DmaCycles = 2 * DmaBytes + 2
      /\ spent \in 0 .. MaxInstr /\ dmaIdx \in 0 .. DmaBytes
      /\ MaxDmas \in {0, 1, 2} /\ dmas \in 0 .. MaxDmas
  BY ClockAssumption DEF TypeOK, DmaCycles
<1>2. dmas < MaxDmas \/ dmaIdx = 0
  BY DEF Bookkeeping
<1>3. /\ MaxDmas * DmaCycles = IF MaxDmas = 0 THEN 0
                               ELSE IF MaxDmas = 1 THEN DmaCycles
                               ELSE DmaCycles + DmaCycles
      /\ dmas * DmaCycles = IF dmas = 0 THEN 0
                            ELSE IF dmas = 1 THEN DmaCycles
                            ELSE DmaCycles + DmaCycles
  BY <1>1
<1>. QED
  BY <1>1, <1>2, <1>3 DEF Used, MaxSpent

LEMMA TimeInit == Init => TimeInv
<1>. SUFFICES ASSUME Init PROVE TimeInv
  OBVIOUS
<1>1. TypeOK /\ Bookkeeping
  BY TypingInit
<1>2. FrameDots \in Nat /\ FrameDots >= 5 /\ Elapsed(line, dot) = 0
  BY <1>1, ElapsedRange DEF Init
<1>3. Used = 0 /\ EntryCycle = 0
  BY ClockAssumption DEF Init, Used, EntryCycle, DmaCycles
<1>. QED
  BY <1>2, <1>3 DEF Init, TimeInv, LeadBounded, InstrStartsInSync, PaceUpper,
       PaceLower, EntryBounded, FramePos

(* An action of the CPU leaves the PPU alone and charges at least the      *)
(* cycles it takes to the instruction that runs.                           *)
LEMMA TimeCpu ==
  ASSUME TypeOK, Bookkeeping, TimeInv, Cpu
  PROVE  TimeInv'
<1>1. PICK k \in Nat, e \in Nat :
        /\ UNCHANGED ppuVars /\ spent' # 0
        /\ cpuCycle' = cpuCycle + k /\ Used' = Used + (k + e)
  <2>1. /\ spent \in Nat /\ dmaIdx \in Nat /\ DmaCycles \in Nat /\ dmas \in Nat
        /\ spent = 0 => phase = "cpu"
        /\ DmaCycles = 2 * DmaBytes + 2 /\ DmaBytes \in Nat
        /\ dmas * DmaCycles \in Nat
        /\ (dmas + 1) * DmaCycles = dmas * DmaCycles + DmaCycles
        /\ cpuCycle \in Nat
    BY ClockAssumption DEF TypeOK, Bookkeeping, DmaCycles
  <2>2. ASSUME NEW n \in 1 .. MaxInstr,
               NEW next \in {"register", "dmaStart", "end"},
               RunInstr(n, next)
        PROVE  \E k \in Nat, e \in Nat :
                 /\ UNCHANGED ppuVars /\ spent' # 0
                 /\ cpuCycle' = cpuCycle + k /\ Used' = Used + (k + e)
    <3>1. /\ UNCHANGED <<ppuVars, dmas, dmaIdx>>
          /\ cpuCycle' = cpuCycle + n /\ spent' = spent + n /\ n \in Nat /\ n >= 1
      BY <2>2, ClockAssumption DEF RunInstr
    <3>2. Used' = Used + (n + 0)
      BY <2>1, <3>1 DEF Used
    <3>. QED
      BY <2>1, <3>1, <3>2
  <2>3. CASE AccessRegister \/ StartDma \/ ResumeDma
    <3>1. /\ UNCHANGED <<ppuVars, cpuCycle, spent, dmas, dmaIdx>> /\ phase # "cpu"
      BY <2>3 DEF AccessRegister, StartDma, ResumeDma, cpuVars, Bookkeeping
    <3>2. Used' = Used + (0 + 0) /\ cpuCycle' = cpuCycle + 0
      BY <2>1, <3>1 DEF Used
    <3>. QED
      BY <2>1, <3>1, <3>2
  <2>4. CASE CopyDmaByte
    <3>1. /\ UNCHANGED <<ppuVars, spent, dmas>> /\ phase # "cpu"
          /\ cpuCycle' = cpuCycle + 2 /\ dmaIdx' = dmaIdx + 1
      BY <2>4 DEF CopyDmaByte
    <3>2. Used' = Used + (2 + 0)
      BY <2>1, <3>1 DEF Used
    <3>. QED
      BY <2>1, <3>1, <3>2
  <2>5. CASE EndDma
    <3>1. /\ UNCHANGED <<ppuVars, spent>> /\ phase # "cpu"
          /\ cpuCycle' = cpuCycle + 1 + (cpuCycle % 2)
          /\ dmas' = dmas + 1 /\ dmaIdx' = 0 /\ dmaIdx = DmaBytes
      BY <2>5 DEF EndDma
    <3>2. PICK m \in 0 .. 1 : cpuCycle' = cpuCycle + (1 + m)
      <4>1. cpuCycle % 2 \in 0 .. 1
        BY <2>1
      <4>. QED
        BY <2>1, <3>1, <4>1
    <3>3. Used' = Used + ((1 + m) + (1 - m))
      BY <2>1, <3>1 DEF Used
    <3>4. 1 + m \in Nat /\ 1 - m \in Nat
      OBVIOUS
    <3>. QED
      BY <2>1, <3>1, <3>2, <3>3, <3>4
  <2>. QED
    BY <2>2, <2>3, <2>4, <2>5 DEF Cpu
<1>2. /\ cpuCycle \in Nat /\ ppuCycle \in Int /\ EntryCycle \in Int
      /\ FrameDots \in Nat /\ Elapsed(line, dot) \in Nat
      /\ EntryCycle' = EntryCycle - e
  BY <1>1, ElapsedRange, UsedBound DEF TypeOK, EntryCycle
<1>3. UNCHANGED <<line, dot, ppuCycle, frameDone>>
  BY <1>1 DEF ppuVars
<1>4. LeadBounded'
  <2>1. ppuCycle - 3 * cpuCycle <=
          IF line = Idle THEN (IF dot = 0 THEN 4 ELSE 167) ELSE 7
    BY DEF TimeInv, LeadBounded
  <2>. QED
    BY <1>1, <1>2, <1>3, <2>1 DEF LeadBounded
<1>5. InstrStartsInSync'
  BY <1>1 DEF InstrStartsInSync
<1>6. PaceUpper'
  BY <1>3 DEF TimeInv, PaceUpper, FramePos, Elapsed, LineIndex
<1>7. PaceLower'
  <2>. DEFINE ahead == IF frameDone
                       THEN Elapsed(line, dot) - (IF PastIdleDot THEN 1 ELSE 0) ELSE 0
  <2>1. ahead \in Int /\ ppuCycle >= 3 * EntryCycle + ahead
    BY <1>2 DEF TimeInv, PaceLower
  <2>2. ahead' = ahead
    BY <1>3 DEF PastIdleDot, Elapsed, LineIndex
  <2>. HIDE DEF ahead
  <2>3. ppuCycle' >= 3 * EntryCycle' + ahead'
    BY <1>2, <1>3, <2>1, <2>2
  <2>. QED
    BY <2>3 DEF PaceLower, ahead
<1>8. EntryBounded'
  BY <1>2 DEF TimeInv, EntryBounded
<1>. QED
  BY <1>4, <1>5, <1>6, <1>7, <1>8 DEF TimeInv

(* The main loop only goes on with the PPU caught up, so that the cycles   *)
(* of the instruction that ends are no longer owed to anyone.              *)
LEMMA TimeLoop ==
  ASSUME TypeOK, Bookkeeping, TimeInv, NextInstr \/ EndFrame
  PROVE  TimeInv'
<1>1. /\ cpuCycle \in Nat /\ ppuCycle \in Int /\ ppuCycle >= 3 * cpuCycle
      /\ line' = line /\ dot' = dot /\ dmaIdx = 0 /\ DmaCycles \in Nat
      /\ spent' = 0 /\ dmas' = 0 /\ dmaIdx' = 0 /\ frameDone' = FALSE
  <2>1. /\ cpuCycle \in Nat /\ ppuCycle \in Int /\ ppuCycle >= 3 * cpuCycle
        /\ line' = line /\ dot' = dot /\ dmaIdx = 0 /\ DmaCycles \in Nat
        /\ spent' = 0 /\ dmas' = 0 /\ dmaIdx' = 0
    BY ClockAssumption DEF TypeOK, Bookkeeping, NextInstr, EndFrame, ppuVars, DmaCycles
  <2>2. frameDone' = FALSE
    BY DEF TypeOK, NextInstr, EndFrame, ppuVars
  <2>. QED
    BY <2>1, <2>2
<1>2. /\ FrameDots \in Nat /\ Elapsed(line, dot) \in 0 .. FrameDots - 5
      /\ line = Idle => Elapsed(line, dot) = dot
      /\ line # Idle => Elapsed(line, dot) >= 341
      /\ Elapsed(line', dot') = Elapsed(line, dot)
  BY <1>1, ElapsedRange DEF DotsPerLine, Elapsed, LineIndex
<1>3. dot \in Nat /\ (line = Idle /\ dot # 0 => dot >= 168)
  BY Position DEF IdleDots, LineEnd
<1>4. Used' = 0
  BY <1>1 DEF Used
<1>5. ppuCycle - 3 * cpuCycle <=
        IF line = Idle THEN (IF dot = 0 THEN 4 ELSE 167) ELSE 7
  BY DEF TimeInv, LeadBounded
<1>6. CASE NextInstr
  <2>1. ppuCycle' = ppuCycle /\ cpuCycle' = cpuCycle /\ frameDone = FALSE
    BY <1>6 DEF NextInstr, ppuVars, TypeOK
  <2>2. ppuCycle <= Elapsed(line, dot) + 4
    BY <1>2, <2>1 DEF TimeInv, PaceUpper, FramePos
  <2>3. EntryCycle' = cpuCycle
    BY <1>1, <1>4, <2>1 DEF EntryCycle
  <2>4. LeadBounded'
    BY <1>1, <1>5, <2>1 DEF LeadBounded
  <2>5. InstrStartsInSync'
    BY <1>1, <2>1 DEF InstrStartsInSync
  <2>6. PaceUpper'
    BY <1>1, <1>2, <2>1, <2>2 DEF PaceUpper, FramePos
  <2>7. PaceLower' /\ EntryBounded'
    BY <1>1, <1>2, <2>1, <2>2, <2>3 DEF PaceLower, EntryBounded
  <2>. QED
    BY <2>4, <2>5, <2>6, <2>7 DEF TimeInv
<1>7. CASE EndFrame
  <2>1. ppuCycle' = ppuCycle - 3 * cpuCycle /\ cpuCycle' = 0
    BY <1>7 DEF EndFrame
  <2>2. EntryCycle' = 0
    BY <1>4, <2>1 DEF EntryCycle
  <2>3. LeadBounded'
    BY <1>1, <1>5, <2>1 DEF LeadBounded
  <2>4. InstrStartsInSync'
    BY <1>1, <2>1 DEF InstrStartsInSync
  <2>5. PaceUpper'
    BY <1>1, <1>2, <1>3, <1>5, <2>1 DEF PaceUpper, FramePos
  <2>6. PaceLower' /\ EntryBounded'
    BY <1>1, <1>2, <2>1, <2>2 DEF PaceLower, EntryBounded
  <2>. QED
    BY <2>3, <2>4, <2>5, <2>6 DEF TimeInv
<1>. QED
  BY <1>6, <1>7

(* The frame cannot be finished once more while the main loop has not seen *)
(* that it was: the instruction that finished it is shorter than a frame.  *)
LEMMA NoSecondLastStep ==
  ASSUME TypeOK, Bookkeeping, TimeInv, Step, LastStep
  PROVE  frameDone = FALSE
<1>1. /\ ppuCycle \in Int /\ cpuCycle \in Nat /\ EntryCycle \in Int
      /\ Used \in Nat /\ MaxSpent \in Nat /\ Used <= MaxSpent
      /\ cpuCycle = EntryCycle + Used
  BY UsedBound DEF TypeOK, EntryCycle
<1>2. ppuCycle < 3 * cpuCycle
  BY DEF Step, StepRenderLine, StepIdleLine, StepVblankLine, Behind
<1>3. FrameDots \in Nat /\ Elapsed(line, dot) = FrameDots - 5
  BY StepMoves, ElapsedRange
<1>4. 3 * MaxSpent + 10 < FrameDots
  BY ClockAssumption
<1>5. frameDone => ppuCycle >= 3 * EntryCycle + (FrameDots - 6)
  <2>1. frameDone => ppuCycle >=
          3 * EntryCycle + (FrameDots - 5 - (IF PastIdleDot THEN 1 ELSE 0))
    BY <1>3 DEF TimeInv, PaceLower
  <2>. QED
    BY <1>1, <1>3, <2>1
<1>6. ~frameDone
  BY <1>1, <1>2, <1>3, <1>4, <1>5
<1>. QED
  BY <1>6 DEF TypeOK

(* A step of the PPU is only made while it is behind the CPU, and moves    *)
(* the counter and the position by the same amount.                        *)
LEMMA TimeStep ==
  ASSUME TypeOK, Bookkeeping, TimeInv, Step
  PROVE  TimeInv'
<1>1. /\ ppuCycle < 3 * cpuCycle /\ phase \in CatchUps
      /\ UNCHANGED <<cpuCycle, spent, dmas, dmaIdx, phase>>
  BY DEF Step, StepRenderLine, StepIdleLine, StepVblankLine, Behind, cpuVars
<1>2. PICK w \in 1 .. 168 :
           /\ \/ ppuCycle' = ppuCycle + w
              \/ ppuCycle' = ppuCycle /\ w = 1 /\ ~PastIdleDot /\ PastIdleDot'
           /\ line' # Idle => w <= 8
           /\ line' = Idle /\ dot' = 0 => w = 5
           /\ ~LastStep => /\ Elapsed(line', dot') = Elapsed(line, dot) + w
                           /\ frameDone' = frameDone
                           /\ PastIdleDot => PastIdleDot'
           /\ LastStep => /\ w = 5
                          /\ frameDone' = TRUE
                          /\ Elapsed(line, dot) = FrameDots - 5
                          /\ Elapsed(line', dot') = 0
                          /\ ~PastIdleDot'
  BY StepMoves
<1>3. /\ ppuCycle \in Int /\ cpuCycle \in Nat /\ EntryCycle \in Int
      /\ FrameDots \in Nat /\ Elapsed(line, dot) \in Nat
      /\ EntryCycle' = EntryCycle
  BY <1>1, UsedBound, ElapsedRange DEF TypeOK, EntryCycle, Used
<1>4. LeadBounded'
  BY <1>1, <1>2, <1>3 DEF LeadBounded
<1>5. InstrStartsInSync'
  BY <1>1 DEF InstrStartsInSync, CatchUps
<1>6. PaceUpper'
  <2>1. ppuCycle <= Elapsed(line, dot) + (IF frameDone THEN FrameDots ELSE 0) + 4
    BY DEF TimeInv, PaceUpper, FramePos
  <2>2. ppuCycle' <= Elapsed(line', dot') + (IF frameDone' THEN FrameDots ELSE 0) + 4
    <3>1. CASE LastStep
      BY <1>2, <1>3, <2>1, <3>1, NoSecondLastStep
    <3>2. CASE ~LastStep
      BY <1>2, <1>3, <2>1, <3>2
    <3>. QED
      BY <3>1, <3>2
  <2>. QED
    BY <2>2 DEF PaceUpper, FramePos
<1>7. PaceLower'
  <2>1. ppuCycle >= 3 * EntryCycle +
          (IF frameDone THEN Elapsed(line, dot) - (IF PastIdleDot THEN 1 ELSE 0) ELSE 0)
    BY DEF TimeInv, PaceLower
  <2>2. ppuCycle' >= 3 * EntryCycle +
          (IF frameDone' THEN Elapsed(line', dot') - (IF PastIdleDot' THEN 1 ELSE 0) ELSE 0)
    <3>1. CASE LastStep
      BY <1>2, <1>3, <2>1, <3>1, NoSecondLastStep
    <3>2. CASE ~LastStep
      BY <1>2, <1>3, <2>1, <3>2
    <3>. QED
      BY <3>1, <3>2
  <2>. QED
    BY <1>3, <2>2 DEF PaceLower
<1>8. EntryBounded'
  BY <1>3 DEF TimeInv, EntryBounded
<1>. QED
  BY <1>4, <1>5, <1>6, <1>7, <1>8 DEF TimeInv

LEMMA TimeInductive == Spec => [](TypeOK /\ Bookkeeping /\ TimeInv)
<1>1. TypeOK /\ Bookkeeping /\ TimeInv /\ [Next]_vars => TimeInv'
  <2>1. CASE UNCHANGED vars
    BY <2>1 DEF vars, ppuVars, cpuVars, TimeInv, LeadBounded, InstrStartsInSync,
         PaceUpper, PaceLower, EntryBounded, FramePos, EntryCycle, Used, Elapsed,
         LineIndex, PastIdleDot
  <2>. QED
    BY <2>1, TimeCpu, TimeLoop, TimeStep DEF Next
<1>. QED
  BY <1>1, TimeInit, Typing, PTL DEF Spec

(* The inductive invariant of the run, for every value of the constants:   *)
(* the lead of the PPU is bounded, instructions start in step, and the     *)
(* counters keep pace with the position.                                   *)
THEOREM TimeInvariant == Spec => []TimeInv
BY TimeInductive, PTL

(* catch_up() never overshoots its target by more than one step of the     *)
(* PPU.                                                                    *)
THEOREM LeadIsBounded == Spec => []LeadBounded
<1>1. TimeInv => LeadBounded
  BY DEF TimeInv
<1>. QED
  BY <1>1, TimeInvariant, PTL

(* exec_instruction is only entered in step with the PPU and before the    *)
(* frame is done.                                                          *)
THEOREM InstrInSync == Spec => []InstrStartsInSync
<1>1. TimeInv => InstrStartsInSync
  BY DEF TimeInv
<1>. QED
  BY <1>1, TimeInvariant, PTL

(* The cycle counter of the CPU stays below a third of a frame and one     *)
(* instruction.                                                            *)
THEOREM CycleCountIsBounded == Spec => []CycleCountBounded
<1>1. TypeOK /\ Bookkeeping /\ TimeInv => CycleCountBounded
  <2>. SUFFICES ASSUME TypeOK, Bookkeeping, TimeInv PROVE CycleCountBounded
    OBVIOUS
  <2>1. /\ cpuCycle \in Nat /\ EntryCycle \in Int /\ FrameDots \in Nat
        /\ Used \in Nat /\ MaxSpent \in Nat /\ Used <= MaxSpent
        /\ cpuCycle = EntryCycle + Used
    BY UsedBound, ElapsedRange DEF TypeOK, EntryCycle
  <2>. QED
    BY <2>1 DEF TimeInv, EntryBounded, CycleCountBounded
<1>. QED
  BY <1>1, TimeInductive, PTL

(* frame_done is never set while it is still set: no frame is dropped.     *)
THEOREM NoFrameLost == Spec => FrameNotLost
<1>1. TypeOK /\ Bookkeeping /\ TimeInv /\ [Next]_vars
        => [line = LastVisible /\ line' = Idle => ~frameDone]_vars
  <2>. SUFFICES ASSUME TypeOK, Bookkeeping, TimeInv, Next,
                       line = LastVisible, line' = Idle
                PROVE  ~frameDone
    OBVIOUS
  <2>1. line' # line
    BY LinesAssumption DEF Idle
  <2>2. Step
    BY <2>1 DEF Next, Cpu, RunInstr, AccessRegister, StartDma, CopyDmaByte,
         ResumeDma, EndDma, NextInstr, EndFrame, ppuVars
  <2>3. LastStep
    BY <2>1, <2>2, LinesAssumption DEF Step, StepRenderLine, StepIdleLine,
         StepVblankLine, LastStep, Idle, VblankLines, FirstVblank
  <2>. QED
    BY <2>2, <2>3, NoSecondLastStep
<1>. QED
  BY <1>1, TimeInductive, PTL DEF Spec, FrameNotLost

(* With the constants of the source, the CPU's counter, an i16, never      *)
(* overflows: not even an instruction that is entered on the last cycle of *)
(* a frame and runs two DMAs brings it to 32768.                           *)
THEOREM CycleCountFitsInI16 ==
  ASSUME LastVisible = 239, LastVblank = 260,
         MaxInstr = 7, DmaBytes = 256, MaxDmas = 2
  PROVE  Spec => [](cpuCycle <= 30815)
<1>1. FrameDots = 89342 /\ MaxSpent = 1035
  BY DEF FrameDots, DotsPerLine, MaxSpent, DmaCycles
<1>2. TypeOK /\ CycleCountBounded => cpuCycle <= 30815
  BY <1>1 DEF TypeOK, CycleCountBounded
<1>. QED
  BY <1>2, TypeCorrect, CycleCountIsBounded, PTL

-----------------------------------------------------------------------------
(***************************************************************************)
(* The cycle counter never drifts from the position.                       *)
(***************************************************************************)
(* What StepMoves says of a step, with what DriftFree needs besides: the   *)
(* frame's origin, and the parity of the frame where a dot is skipped.     *)
LEMMA StepParity ==
  ASSUME TypeOK, Step
  PROVE  /\ LastStep => origin' = ppuCycle'
         /\ ~LastStep => origin' = origin
         /\ PastIdleDot => evenFrame' = evenFrame
         /\ ppuCycle' = ppuCycle => evenFrame = FALSE /\ evenFrame' = evenFrame
<1>1. evenFrame \in BOOLEAN /\ ppuCycle \in Int
  BY DEF TypeOK
<1>. USE LinesAssumption DEF LastStep, PastIdleDot, Idle, FirstVblank, LineEnd
<1>2. CASE StepRenderLine
  <2>1. evenFrame' = evenFrame /\ ppuCycle' = ppuCycle + RenderCost
        /\ dot \in RenderDots /\ line \in RenderLines
    BY <1>2, Position DEF StepRenderLine
  <2>2. RenderCost = 0 => ~evenFrame
    BY <2>1, RenderStep DEF RenderCost
  <2>3. RenderCost \in Int
    BY <2>1, RenderStep DEF RenderCost
  <2>4. ppuCycle' = ppuCycle => evenFrame = FALSE
    <3>1. ppuCycle' = ppuCycle => RenderCost = 0
      BY <1>1, <2>1, <2>3
    <3>. QED
      BY <1>1, <2>2, <3>1
  <2>5. /\ LastStep => origin' = ppuCycle'
        /\ ~LastStep => origin' = origin
    BY <1>2 DEF StepRenderLine
  <2>. QED
    BY <2>1, <2>4, <2>5
<1>3. CASE StepIdleLine
  <2>1. /\ line = Idle /\ dot \in IdleDots
        /\ evenFrame' = evenFrame /\ origin' = origin
        /\ ppuCycle' = ppuCycle + IdleWidth(dot)
    BY <1>3, Position DEF StepIdleLine
  <2>2. IdleWidth(dot) \in Int /\ IdleWidth(dot) # 0
    BY <2>1, IdleStep
  <2>3. ppuCycle' # ppuCycle
    BY <1>1, <2>1, <2>2
  <2>. QED
    BY <2>1, <2>3
<1>4. CASE StepVblankLine
  <2>1. /\ line \in FirstVblank .. LastVblank /\ dot \in VblankDots
        /\ origin' = origin
        /\ ppuCycle' = ppuCycle + VblankWidth(dot)
    BY <1>4, Position DEF StepVblankLine, VblankLines
  <2>2. VblankWidth(dot) \in Int /\ VblankWidth(dot) # 0
    BY <2>1, VblankStep
  <2>3. ppuCycle' # ppuCycle
    BY <1>1, <2>1, <2>2
  <2>4. ~LastStep /\ ~PastIdleDot
    BY <2>1
  <2>. QED
    BY <2>1, <2>3, <2>4
<1>. QED
  BY <1>2, <1>3, <1>4 DEF Step

LEMMA DriftStep ==
  ASSUME TypeOK, DriftFree, Step
  PROVE  DriftFree'
<1>1. PICK s \in {0, 1} :
        /\ ppuCycle - origin = Elapsed(line, dot) - s
        /\ s = 1 => ~evenFrame /\ PastIdleDot
  BY DEF DriftFree
<1>2. PICK w \in 1 .. 168 :
        /\ \/ ppuCycle' = ppuCycle + w
           \/ ppuCycle' = ppuCycle /\ w = 1 /\ ~PastIdleDot /\ PastIdleDot'
        /\ ~LastStep => /\ Elapsed(line', dot') = Elapsed(line, dot) + w
                        /\ PastIdleDot => PastIdleDot'
        /\ LastStep => Elapsed(line', dot') = 0
  BY StepMoves
<1>3. ppuCycle \in Int /\ origin \in Int /\ Elapsed(line, dot) \in Int
  BY ElapsedRange DEF TypeOK
<1>4. CASE LastStep
  <2>1. /\ origin' = ppuCycle' /\ Elapsed(line', dot') = 0
        /\ \E p \in Int : ppuCycle' = p
    BY <1>2, <1>3, <1>4, StepParity
  <2>2. ppuCycle' - origin' = Elapsed(line', dot') - 0
    BY <2>1
  <2>. QED
    BY <2>2 DEF DriftFree
<1>5. CASE ~LastStep /\ ppuCycle' = ppuCycle + w
  <2>1. origin' = origin /\ Elapsed(line', dot') = Elapsed(line, dot) + w
    BY <1>2, <1>5, StepParity
  <2>2. ppuCycle' - origin' = Elapsed(line', dot') - s
    <3>1. (ppuCycle + w) - origin = (Elapsed(line, dot) + w) - s
      BY <1>1, <1>3
    <3>. QED
      BY <1>5, <2>1, <3>1
  <2>3. s = 1 => ~evenFrame' /\ PastIdleDot'
    BY <1>1, <1>2, <1>5, StepParity
  <2>. QED
    BY <2>2, <2>3 DEF DriftFree
<1>6. CASE ~LastStep /\ ppuCycle' # ppuCycle + w
  <2>1. /\ ppuCycle' = ppuCycle /\ w = 1 /\ ~PastIdleDot /\ PastIdleDot'
        /\ origin' = origin /\ Elapsed(line', dot') = Elapsed(line, dot) + 1
        /\ ~evenFrame'
    <3>1. ppuCycle' = ppuCycle /\ w = 1 /\ ~PastIdleDot /\ PastIdleDot'
      BY <1>2, <1>6
    <3>2. origin' = origin /\ ~evenFrame'
      BY <1>6, <3>1, StepParity
    <3>3. Elapsed(line', dot') = Elapsed(line, dot) + 1
      BY <1>2, <1>6, <3>1
    <3>. QED
      BY <3>1, <3>2, <3>3
  <2>2. s = 0
    BY <1>1, <2>1
  <2>3. ppuCycle' - origin' = Elapsed(line', dot') - 1
    BY <1>1, <1>3, <2>1, <2>2
  <2>. QED
    BY <2>1, <2>3 DEF DriftFree
<1>. QED
  BY <1>4, <1>5, <1>6

(* The cycle counter and the position agree to the dot, over any number of *)
(* frames and of counter resets.                                           *)
THEOREM NoDrift == Spec => []DriftFree
<1>1. Init => DriftFree
  BY LinesAssumption DEF Init, DriftFree, Elapsed, LineIndex, DotsPerLine, Idle
<1>2. TypeOK /\ DriftFree /\ [Next]_vars => DriftFree'
  <2>. SUFFICES ASSUME TypeOK, DriftFree, [Next]_vars PROVE DriftFree'
    OBVIOUS
  <2>1. CASE UNCHANGED ppuVars
    BY <2>1 DEF ppuVars, DriftFree, Elapsed, LineIndex, PastIdleDot
  <2>2. CASE EndFrame
    <3>1. PICK s \in {0, 1} :
            /\ ppuCycle - origin = Elapsed(line, dot) - s
            /\ s = 1 => ~evenFrame /\ PastIdleDot
      BY DEF DriftFree
    <3>2. /\ ppuCycle' = ppuCycle - 3 * cpuCycle
          /\ origin' = origin - 3 * cpuCycle
          /\ UNCHANGED <<line, dot, evenFrame>>
      BY <2>2 DEF EndFrame
    <3>3. ppuCycle' - origin' = ppuCycle - origin
      BY <3>2 DEF TypeOK
    <3>. QED
      BY <3>1, <3>2, <3>3 DEF DriftFree, Elapsed, LineIndex, PastIdleDot
  <2>3. CASE Step
    BY <2>3, DriftStep
  <2>. QED
    BY <2>1, <2>2, <2>3 DEF Next, Cpu, RunInstr, AccessRegister, StartDma,
       CopyDmaByte, ResumeDma, EndDma, NextInstr, vars
<1>. QED
  BY <1>1, <1>2, TypeCorrect, PTL DEF Spec

-----------------------------------------------------------------------------
(***************************************************************************)
(* What FramesGoOn needs besides fairness: every step gets the frame on,   *)
(* by a measure that is bounded, and there always is a step.               *)
(***************************************************************************)
(* Cycles of the CPU, dots of the PPU, and the catch_up()s that are over:  *)
(* an access ends one without a cycle passing, but the CPU began it with a *)
(* cycle that counts twice.                                                *)
Effort == 2 * cpuCycle + FramePos + (IF phase \in CatchUps THEN 0 ELSE 1)

MaxEffort == 3 * FrameDots + 3 * MaxSpent + 1

(* Between two steps of the main loop nothing stands still: each step of   *)
(* the emulator either handles the end of the frame or adds to the effort. *)
LEMMA StepsGetOn ==
  ASSUME TypeOK, Bookkeeping, TimeInv, Next
  PROVE  EndFrame \/ Effort' > Effort
<1>1. /\ cpuCycle \in Nat /\ phase \in Phases /\ frameDone \in BOOLEAN
      /\ FrameDots \in Nat /\ Elapsed(line, dot) \in 0 .. FrameDots - 5
  BY ElapsedRange DEF TypeOK
<1>2. PICK pos \in Nat : pos = FramePos
  BY <1>1 DEF FramePos
<1>3. PICK free \in {0, 1} : free = IF phase \in CatchUps THEN 0 ELSE 1
  OBVIOUS
<1>4. Effort = 2 * cpuCycle + pos + free
  BY <1>2, <1>3 DEF Effort
<1>5. CASE Cpu \/ NextInstr
  <2>1. FramePos' = pos
    <3>1. UNCHANGED <<line, dot, frameDone>>
      BY <1>5 DEF Cpu, RunInstr, AccessRegister, StartDma, CopyDmaByte, ResumeDma,
           EndDma, NextInstr, ppuVars
    <3>. QED
      BY <1>2, <3>1 DEF FramePos, Elapsed, LineIndex
  <2>2. PICK next \in {0, 1} : next = IF phase' \in CatchUps THEN 0 ELSE 1
    OBVIOUS
  <2>3. Effort' = 2 * cpuCycle' + pos + next
    BY <2>1, <2>2 DEF Effort
  <2>4. \/ cpuCycle' \in Nat /\ cpuCycle' >= cpuCycle + 1 /\ free = 1
        \/ cpuCycle' = cpuCycle /\ free = 0 /\ next = 1
    <3>1. ASSUME NEW n \in 1 .. MaxInstr, NEW what \in {"register", "dmaStart", "end"},
                 RunInstr(n, what)
          PROVE  cpuCycle' \in Nat /\ cpuCycle' >= cpuCycle + 1 /\ free = 1
      BY <1>1, <1>3, <3>1, ClockAssumption DEF RunInstr, CatchUps
    <3>2. CASE AccessRegister \/ StartDma \/ ResumeDma \/ NextInstr
      BY <1>3, <2>2, <3>2
         DEF AccessRegister, StartDma, ResumeDma, NextInstr, CatchUps, cpuVars
    <3>3. CASE CopyDmaByte
      BY <1>1, <1>3, <3>3 DEF CopyDmaByte, CatchUps
    <3>4. CASE EndDma
      <4>1. cpuCycle % 2 \in 0 .. 1
        BY <1>1
      <4>. QED
        BY <1>1, <1>3, <3>4, <4>1 DEF EndDma, CatchUps
    <3>. QED
      BY <1>5, <3>1, <3>2, <3>3, <3>4 DEF Cpu
  <2>. QED
    BY <1>1, <1>4, <2>3, <2>4
<1>6. CASE Step
  <2>1. cpuCycle' = cpuCycle /\ phase' = phase
    BY <1>6 DEF Step, StepRenderLine, StepIdleLine, StepVblankLine, cpuVars
  <2>2. PICK w \in 1 .. 168 :
          /\ ~LastStep => /\ Elapsed(line', dot') = Elapsed(line, dot) + w
                          /\ frameDone' = frameDone
          /\ LastStep => /\ frameDone' = TRUE
                         /\ Elapsed(line, dot) = FrameDots - 5
                         /\ Elapsed(line', dot') = 0
    BY <1>6, StepMoves
  <2>3. FramePos' = Elapsed(line', dot') + (IF frameDone' THEN FrameDots ELSE 0)
    BY DEF FramePos
  <2>4. PICK next \in Nat : next = FramePos' /\ next > pos
    <3>1. CASE LastStep
      <4>1. ~frameDone
        BY <1>6, <3>1, NoSecondLastStep
      <4>. QED
        BY <1>1, <1>2, <2>2, <2>3, <3>1, <4>1 DEF FramePos
    <3>2. CASE ~LastStep
      BY <1>1, <1>2, <2>2, <2>3, <3>2 DEF FramePos
    <3>. QED
      BY <3>1, <3>2
  <2>5. Effort' = 2 * cpuCycle + next + free
    BY <1>3, <2>1, <2>4 DEF Effort
  <2>6. PICK base \in Nat : base = 2 * cpuCycle + free
    BY <1>1
  <2>7. Effort = base + pos /\ Effort' = base + next
    BY <1>1, <1>4, <2>5, <2>6
  <2>. QED
    BY <2>4, <2>6, <2>7
<1>. QED
  BY <1>5, <1>6 DEF Next

(* FramesGoOn without the fairness: a frame takes at most MaxEffort steps  *)
(* until the main loop handles its end, whatever the program does.         *)
THEOREM FramesTakeBoundedSteps ==
  Spec => /\ [](Effort \in 0 .. MaxEffort)
          /\ [][EndFrame \/ Effort' > Effort]_vars
<1>1. TypeOK /\ Bookkeeping /\ TimeInv => Effort \in 0 .. MaxEffort
  <2>. SUFFICES ASSUME TypeOK, Bookkeeping, TimeInv PROVE Effort \in 0 .. MaxEffort
    OBVIOUS
  <2>1. /\ cpuCycle \in Nat /\ EntryCycle \in Int /\ FrameDots \in Nat
        /\ Used \in Nat /\ MaxSpent \in Nat /\ Used <= MaxSpent
        /\ cpuCycle = EntryCycle + Used /\ 3 * EntryCycle <= FrameDots - 1
        /\ Elapsed(line, dot) \in 0 .. FrameDots - 5
    BY UsedBound, ElapsedRange DEF TypeOK, EntryCycle, TimeInv, EntryBounded
  <2>2. 3 * cpuCycle <= FrameDots - 1 + 3 * MaxSpent
    BY <2>1
  <2>3. PICK pos \in 0 .. 2 * FrameDots - 5 : pos = FramePos
    BY <2>1 DEF FramePos
  <2>4. PICK free \in {0, 1} : free = IF phase \in CatchUps THEN 0 ELSE 1
    OBVIOUS
  <2>5. Effort = 2 * cpuCycle + pos + free
    BY <2>3, <2>4 DEF Effort
  <2>. QED
    BY <2>1, <2>2, <2>3, <2>4, <2>5 DEF MaxEffort
<1>2. TypeOK /\ Bookkeeping /\ TimeInv /\ [Next]_vars => [EndFrame \/ Effort' > Effort]_vars
  BY StepsGetOn
<1>. QED
  BY <1>1, <1>2, TimeInductive, PTL DEF Spec

(* An instruction that has not ended has a cycle left to end in.           *)
Unfinished == phase # "end" => spent < MaxInstr

(* There always is a step: the guard of one of the actions holds, each     *)
(* named in the order in which they are listed here.                       *)
SomeGuard ==
  \/ \E n \in 1 .. MaxInstr : phase = "cpu" /\ spent + n \in 2 .. MaxInstr
  \/ phase \in CatchUps /\ ppuCycle >= 3 * cpuCycle
  \/ phase = "dma" /\ (dmaIdx < DmaBytes \/ dmaIdx = DmaBytes)
  \/ Behind /\ line \in RenderLines \cup {Idle} \cup VblankLines

(* No catch_up(), no DMA and no instruction gets stuck.                    *)
THEOREM NeverStuck == Spec => []SomeGuard
<1>1. Init => Unfinished
  BY ClockAssumption DEF Init, Unfinished
<1>2. Unfinished /\ [Next]_vars => Unfinished'
  BY ClockAssumption
     DEF Unfinished, Next, Cpu, RunInstr, AccessRegister, StartDma, CopyDmaByte,
         ResumeDma, EndDma, Step, StepRenderLine, StepIdleLine, StepVblankLine,
         NextInstr, EndFrame, vars, cpuVars, Behind, CatchUps
<1>3. TypeOK /\ Unfinished => SomeGuard
  <2>. SUFFICES ASSUME TypeOK, Unfinished PROVE SomeGuard
    OBVIOUS
  <2>1. CASE phase = "cpu"
    <3>1. MaxInstr \in Nat /\ MaxInstr >= 2 /\ spent \in Nat /\ spent < MaxInstr
      BY <2>1, ClockAssumption DEF TypeOK, Unfinished
    <3>2. MaxInstr - spent \in 1 .. MaxInstr /\ spent + (MaxInstr - spent) \in 2 .. MaxInstr
      BY <3>1
    <3>. QED
      BY <2>1, <3>2 DEF SomeGuard
  <2>2. CASE phase = "dma"
    BY <2>2, ClockAssumption DEF TypeOK, SomeGuard
  <2>3. CASE phase \in CatchUps
    BY <2>3, LinesAndDots DEF TypeOK, SomeGuard, Behind
  <2>. QED
    BY <2>1, <2>2, <2>3 DEF TypeOK, Phases
<1>. QED
  BY <1>1, <1>2, <1>3, TypeCorrect, PTL DEF Spec
=============================================================================
