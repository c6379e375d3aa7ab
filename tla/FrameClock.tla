----------------------------- MODULE FrameClock -----------------------------
(***************************************************************************)
(* The time base of the emulator: the CPU runs one instruction at a time   *)
(* and counts cycles; the PPU is brought up to three times that count      *)
(*   - before every access to a PPU register (0x2000-0x3fff),              *)
(*   - before and, on every fourth byte, during an OAM DMA (0x4014),       *)
(*   - after every instruction;                                            *)
(* and when the last visible line has been drawn the main loop subtracts   *)
(* the frame's time from both counters (main.rs, "reset counters").        *)
(* Sources: Ppu::catch_up and Ppu::step of ppu/mod.rs, write_oamdma of     *)
(* address_bus/mod.rs, the frame loop of main.rs.                          *)
(*                                                                         *)
(* What a step draws or fetches, and the vblank flag and NMI, are left out *)
(* here: VblankNmi has the flags, on the same positions.                   *)
(***************************************************************************)
EXTENDS PpuDots

CONSTANTS
  MaxInstr,   \* most cycles an instruction takes, DMA apart: 7 (read_write_abs_indexed)
  DmaBytes,   \* bytes an OAM DMA copies: 256
  MaxDmas     \* most writes to 0x4014 in one instruction: 2 (a read-modify-write)

\* CPU cycles one DMA takes at most: 2 per byte and 1 or 2 at the end.
DmaCycles == 2 * DmaBytes + 2
\* CPU cycles one call of exec_instruction takes at most.
MaxSpent == MaxInstr + MaxDmas * DmaCycles

ASSUME ClockAssumption ==
  /\ MaxInstr \in Nat /\ MaxInstr >= 2
  /\ DmaBytes \in Nat /\ DmaBytes >= 1
  /\ MaxDmas \in {0, 1, 2}
  /\ 3 * MaxSpent + 10 < FrameDots     \* an instruction is shorter than a frame

VARIABLES
  line, dot,     \* Ppu.current_scanline, Ppu.current_scanline_dot
  ppuCycle,      \* Ppu.cycle_count (i32)
  evenFrame,     \* Ppu.bits.even_frame
  frameDone,     \* Ppu.bits.frame_done
  rendering,     \* ppumask enables the background or the sprites
  cpuCycle,      \* Cpu.cycle_count (i16)
  phase,         \* what the CPU is doing, see Phases
  spent,         \* cycles of the current instruction so far, DMA apart
  dmas,          \* DMAs the current instruction has finished
  dmaIdx,        \* bytes the running DMA has copied
  dmaReg,        \* the running DMA reads its bytes from PPU registers
  origin         \* auxiliary: the value of ppuCycle when the PPU last stood at
                 \* the start of the idle line, on the scale of this frame

ppuVars == <<line, dot, ppuCycle, evenFrame, frameDone, origin>>
cpuVars == <<cpuCycle, spent, dmas, dmaIdx, dmaReg>>
vars == <<ppuVars, cpuVars, rendering, phase>>

(***************************************************************************)
(* "cpu": inside exec_instruction or between two of them.  The other       *)
(* phases but "dma" are a call of catch_up(), named for what follows it: a *)
(* register access, the start of a DMA, the next byte of a DMA, the end of *)
(* the instruction.                                                        *)
(***************************************************************************)
CatchUps == {"register", "dmaStart", "dmaNext", "end"}
Phases == {"cpu", "dma"} \cup CatchUps

TypeOK ==
  /\ line \in Lines
  /\ dot \in DotsOf(line)
  /\ ppuCycle \in Int
  /\ evenFrame \in BOOLEAN
  /\ frameDone \in BOOLEAN
  /\ rendering \in BOOLEAN
  /\ cpuCycle \in Nat
  /\ phase \in Phases
  /\ spent \in 0 .. MaxInstr
  /\ dmas \in 0 .. MaxDmas
  /\ dmaIdx \in 0 .. DmaBytes
  /\ dmaReg \in BOOLEAN
  /\ origin \in Int

\* Ppu::new, and a Cpu whose counters are zero.
Init ==
  /\ line = Idle
  /\ dot = 0
  /\ ppuCycle = 0
  /\ evenFrame = TRUE
  /\ frameDone = FALSE
  /\ rendering = FALSE
  /\ cpuCycle = 0
  /\ phase = "cpu"
  /\ spent = 0
  /\ dmas = 0
  /\ dmaIdx = 0
  /\ dmaReg = FALSE
  /\ origin = 0

(***************************************************************************)
(* The CPU.                                                                *)
(***************************************************************************)
(* The instruction runs n more cycles, up to an access that first catches  *)
(* the PPU up, or to its end.  At least one cycle separates two accesses,  *)
(* and the last access from the end.  Opcode fetches, at cycle 0, are      *)
(* taken not to be register accesses.                                      *)
RunInstr(n, next) ==
  /\ phase = "cpu"
  /\ n >= 1
  /\ IF next = "end" THEN spent + n \in 2 .. MaxInstr ELSE spent + n < MaxInstr
  /\ next = "dmaStart" => dmas < MaxDmas
  /\ cpuCycle' = cpuCycle + n
  /\ spent' = spent + n
  /\ phase' = next
  /\ UNCHANGED <<ppuVars, rendering, dmas, dmaIdx, dmaReg>>

\* A register access once the PPU is up to date: ppumask may change.
AccessRegister ==
  /\ phase = "register"
  /\ ppuCycle >= 3 * cpuCycle
  /\ rendering' \in BOOLEAN
  /\ phase' = "cpu"
  /\ UNCHANGED <<ppuVars, cpuVars>>

StartDma ==
  /\ phase = "dmaStart"
  /\ ppuCycle >= 3 * cpuCycle
  /\ phase' = "dma"
  /\ dmaIdx' = 0
  /\ dmaReg' \in BOOLEAN
  /\ UNCHANGED <<ppuVars, rendering, cpuCycle, spent, dmas>>

(* One iteration of write_oamdma's loop: two cycles, and a catch_up() when *)
(* i % 4 == 0 or when the next byte is read from a PPU register.           *)
CopyDmaByte ==
  /\ phase = "dma"
  /\ dmaIdx < DmaBytes
  /\ cpuCycle' = cpuCycle + 2
  /\ dmaIdx' = dmaIdx + 1
  /\ phase' = IF dmaIdx % 4 = 0 \/ (dmaReg /\ dmaIdx + 1 < DmaBytes)
              THEN "dmaNext" ELSE "dma"
  /\ UNCHANGED <<ppuVars, rendering, spent, dmas, dmaReg>>

ResumeDma ==
  /\ phase = "dmaNext"
  /\ ppuCycle >= 3 * cpuCycle
  /\ phase' = "dma"
  /\ UNCHANGED <<ppuVars, cpuVars, rendering>>

EndDma ==
  /\ phase = "dma"
  /\ dmaIdx = DmaBytes
  /\ cpuCycle' = cpuCycle + 1 + (cpuCycle % 2)
  /\ phase' = "cpu"
  /\ dmas' = dmas + 1
  /\ dmaIdx' = 0
  /\ dmaReg' = FALSE
  /\ UNCHANGED <<ppuVars, rendering, spent>>

(***************************************************************************)
(* The PPU: one iteration of the loop in catch_up().                       *)
(***************************************************************************)
Behind == phase \in CatchUps /\ ppuCycle < 3 * cpuCycle

\* The idle cycle of the first visible line is skipped on odd frames.
RenderCost ==
  IF dot = 0 /\ line = 0 /\ rendering THEN (IF evenFrame THEN 1 ELSE 0)
  ELSE RenderWidth(dot)

StepRenderLine ==
  /\ Behind
  /\ line \in RenderLines
  /\ ppuCycle' = ppuCycle + RenderCost
  /\ dot' = DotAfter(dot, RenderWidth(dot))
  /\ line' = IF dot = LineEnd THEN line + 1 ELSE line
  /\ frameDone' = (frameDone \/ (dot = LineEnd /\ line = LastVisible))
  /\ origin' = IF dot = LineEnd /\ line = LastVisible THEN ppuCycle' ELSE origin
  /\ UNCHANGED <<evenFrame, rendering, cpuVars, phase>>

StepIdleLine ==
  /\ Behind
  /\ line = Idle
  /\ ppuCycle' = ppuCycle + IdleWidth(dot)
  /\ dot' = DotAfter(dot, IdleWidth(dot))
  /\ line' = IF dot = LineEnd THEN FirstVblank ELSE line
  /\ UNCHANGED <<evenFrame, frameDone, rendering, cpuVars, phase, origin>>

StepVblankLine ==
  /\ Behind
  /\ line \in VblankLines
  /\ ppuCycle' = ppuCycle + VblankWidth(dot)
  /\ dot' = DotAfter(dot, VblankWidth(dot))
  /\ line' = IF dot # LineEnd THEN line
             ELSE IF line = LastVblank THEN PreRender ELSE line + 1
  /\ evenFrame' = IF dot = LineEnd /\ line = LastVblank THEN ~evenFrame ELSE evenFrame
  /\ UNCHANGED <<frameDone, rendering, cpuVars, phase, origin>>

Step == StepRenderLine \/ StepIdleLine \/ StepVblankLine

(***************************************************************************)
(* The main loop.                                                          *)
(***************************************************************************)
\* exec_instruction and its catch_up() are over, the frame goes on.
NextInstr ==
  /\ phase = "end"
  /\ ppuCycle >= 3 * cpuCycle
  /\ ~frameDone
  /\ phase' = "cpu"
  /\ spent' = 0
  /\ dmas' = 0
  /\ UNCHANGED <<ppuVars, rendering, cpuCycle, dmaIdx, dmaReg>>

\* Mutant: the PPU restarts from zero as the CPU does, and forgets its lead.
EndFrameDropLead ==
  /\ phase = "end"
  /\ ppuCycle >= 3 * cpuCycle
  /\ frameDone
  /\ ppuCycle' = 0
  /\ frameDone' = FALSE
  /\ origin' = origin - 3 * cpuCycle
  /\ cpuCycle' = 0
  /\ phase' = "cpu"
  /\ spent' = 0
  /\ dmas' = 0
  /\ UNCHANGED <<line, dot, evenFrame, rendering, dmaIdx, dmaReg>>

\* Mutant: only the CPU's counter is reset.
EndFrameKeepPpu ==
  /\ phase = "end"
  /\ ppuCycle >= 3 * cpuCycle
  /\ frameDone
  /\ ppuCycle' = ppuCycle
  /\ frameDone' = FALSE
  /\ origin' = origin - 3 * cpuCycle
  /\ cpuCycle' = 0
  /\ phase' = "cpu"
  /\ spent' = 0
  /\ dmas' = 0
  /\ UNCHANGED <<line, dot, evenFrame, rendering, dmaIdx, dmaReg>>

\* Mutant: the CPU's counter is not reset.
EndFrameKeepCpu ==
  /\ phase = "end"
  /\ ppuCycle >= 3 * cpuCycle
  /\ frameDone
  /\ frameDone' = FALSE
  /\ phase' = "cpu"
  /\ spent' = 0
  /\ dmas' = 0
  /\ UNCHANGED <<line, dot, ppuCycle, origin, cpuCycle, evenFrame, rendering,
                 dmaIdx, dmaReg>>

\* Mutant: set_frame_done(false) is forgotten.
EndFrameKeepDone ==
  /\ phase = "end"
  /\ ppuCycle >= 3 * cpuCycle
  /\ frameDone
  /\ ppuCycle' = ppuCycle - 3 * cpuCycle
  /\ origin' = origin - 3 * cpuCycle
  /\ cpuCycle' = 0
  /\ phase' = "cpu"
  /\ spent' = 0
  /\ dmas' = 0
  /\ UNCHANGED <<line, dot, frameDone, evenFrame, rendering, dmaIdx, dmaReg>>

\* The frame is over: sub_cycle_count(), and the CPU's counter restarts.
EndFrame ==
  /\ phase = "end"
  /\ ppuCycle >= 3 * cpuCycle
  /\ frameDone
  /\ ppuCycle' = ppuCycle - 3 * cpuCycle
  /\ frameDone' = FALSE
  /\ origin' = origin - 3 * cpuCycle
  /\ cpuCycle' = 0
  /\ phase' = "cpu"
  /\ spent' = 0
  /\ dmas' = 0
  /\ UNCHANGED <<line, dot, evenFrame, rendering, dmaIdx, dmaReg>>

Cpu ==
  \/ \E n \in 1 .. MaxInstr, next \in {"register", "dmaStart", "end"} :
       RunInstr(n, next)
  \/ AccessRegister
  \/ StartDma
  \/ CopyDmaByte
  \/ ResumeDma
  \/ EndDma

Next == Cpu \/ Step \/ NextInstr \/ EndFrame

Spec == Init /\ [][Next]_vars

\* The emulator is one thread that never waits between two of these steps.
FairSpec == Spec /\ WF_vars(Next)

-----------------------------------------------------------------------------
(***************************************************************************)
(* Properties.                                                             *)
(***************************************************************************)
\* The PPU is past the dot that an odd frame skips.
PastIdleDot == line \in 0 .. LastVisible /\ (line = 0 => dot # 0)

\* The dots the PPU has moved since the start of the frame the main loop is in.
FramePos == Elapsed(line, dot) + (IF frameDone THEN FrameDots ELSE 0)

(* catch_up() overshoots its target by less than one step: at most 7       *)
(* cycles, except on the idle line, which is crossed in steps of 168.      *)
LeadBounded ==
  ppuCycle - 3 * cpuCycle <=
    IF line = Idle THEN (IF dot = 0 THEN 4 ELSE 167) ELSE 7

(* exec_instruction is only entered with the frame unfinished and the PPU  *)
(* not behind the CPU, whatever the last instruction did and also right    *)
(* after the counters were reset.                                          *)
InstrStartsInSync ==
  phase = "cpu" /\ spent = 0 => ~frameDone /\ ppuCycle >= 3 * cpuCycle

(* The PPU's cycle counter and its position never drift apart, over any    *)
(* number of frames and counter resets: since the last idle line it has    *)
(* counted exactly one cycle per dot, but for the one idle cycle that an   *)
(* odd frame may skip on its first visible line.                           *)
DriftFree ==
  \E s \in {0, 1} :
    /\ ppuCycle - origin = Elapsed(line, dot) - s
    /\ s = 1 => ~evenFrame /\ PastIdleDot

(* Cpu.cycle_count, an i16 that is only reset between frames, stays below  *)
(* a third of a frame plus the longest instruction (two DMAs included).    *)
CycleCountBounded == 3 * cpuCycle <= FrameDots - 1 + 3 * MaxSpent

(* frame_done is never set twice before the main loop has seen it: no      *)
(* frame is dropped, even by an instruction that runs two DMAs.            *)
FrameNotLost ==
  [][line = LastVisible /\ line' = Idle => ~frameDone]_vars

(* Frames keep being finished, and the main loop keeps going back for the  *)
(* next: no step of the PPU and no catch_up() gets stuck.                  *)
FramesGoOn == []<>frameDone /\ []<>~frameDone

-----------------------------------------------------------------------------
(***************************************************************************)
(* The inductive strengthening of the properties above.                    *)
(***************************************************************************)
\* At least the CPU cycles spent in the current instruction, DMA included.
Used == spent + dmas * DmaCycles + 2 * dmaIdx

\* At most the value of cpuCycle when the current instruction was entered.
EntryCycle == cpuCycle - Used

(* The PPU is ahead of its position by at most the 4 cycles that the last  *)
(* step of a frame overshoots.                                             *)
PaceUpper == ppuCycle <= FramePos + 4

(* The PPU never falls behind where it was when the current instruction    *)
(* was entered; once the frame is done, the dots moved into the next one   *)
(* were moved within the instruction that finished it.                     *)
PaceLower ==
  ppuCycle >= 3 * EntryCycle +
    (IF frameDone THEN Elapsed(line, dot) - (IF PastIdleDot THEN 1 ELSE 0) ELSE 0)

EntryBounded == 3 * EntryCycle <= FrameDots - 1

(* Every instruction starts within the frame and in step with the PPU, so  *)
(* the counters can only leave the frame by what one instruction adds.     *)
TimeInv ==
  /\ LeadBounded
  /\ InstrStartsInSync
  /\ PaceUpper
  /\ PaceLower
  /\ EntryBounded
=============================================================================
