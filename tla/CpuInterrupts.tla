--------------------------- MODULE CpuInterrupts ---------------------------
(***************************************************************************)
(* The interrupts of the CPU (cpu/mod.rs): NMI, IRQ and BRK, the stack     *)
(* they share with subroutines, the I flag, and the two flags by which     *)
(* exec_instruction delays an interrupt that was asserted too late in an   *)
(* instruction.  Each call of exec_instruction is one action; between two  *)
(* of them the PPU and the mapper may raise or withdraw an interrupt.      *)
(*                                                                         *)
(* The program is arbitrary but balanced: RTI, RTS and PLP only undo the   *)
(* last BRK or interrupt, JSR and PHP that is still open.  Of the status   *)
(* register only the I flag is kept, and the B flag in the byte pushed.    *)
(***************************************************************************)
EXTENDS Integers, Sequences

CONSTANTS
  PageSize,     \* addresses that share the high byte: 256
  Pages,        \* values of the high byte: 256
  StackSize,    \* bytes of the stack, on which sp wraps: 256
  NmiVector,    \* the address in 0xfffa
  IrqVector,    \* the address in 0xfffe
  MaxOpen       \* bound: interrupts, calls and pushes that are open at once

Pcs == 0 .. PageSize * Pages - 1
Sps == 0 .. StackSize - 1

ASSUME InterruptsAssumption ==
  /\ PageSize \in Nat \ {0}
  /\ Pages \in Nat \ {0}
  /\ StackSize \in Nat \ {0}
  /\ NmiVector \in Pcs
  /\ IrqVector \in Pcs
  /\ MaxOpen \in Nat
  /\ 3 * MaxOpen <= StackSize

VARIABLES
  pc, sp, irq,          \* fields of Cpu; irq counts the sources that assert IRQ
  iFlag,                \* bit 2 of Cpu.p
  nmi, delayNmi, delayIrq,
  stack,                \* the bytes at 0x100-0x1ff
  frames,               \* auxiliary: what is open, the latest last, see Frames
  last,                 \* auxiliary: the last instruction executed
  late                  \* auxiliary: instructions executed in a row while an
                        \* IRQ was pending, up to 2

lines == <<irq, nmi>>
vars == <<pc, sp, lines, iFlag, delayNmi, delayIrq, stack, frames, last, late>>

Kinds == {"nmi", "irq", "brk", "call", "php"}
Handlers == {"nmi", "irq", "brk"}

(***************************************************************************)
(* ret: where execution has to go on when the frame is closed; sp and i:   *)
(* the stack pointer and the I flag to be restored then; cleared: CLI was  *)
(* executed in this handler itself.                                        *)
(***************************************************************************)
Frames == [kind : Kinds, ret : Pcs, sp : Sps, i : BOOLEAN, cleared : BOOLEAN]

\* CLI and PLP; one that enables the NMI in ppuctrl during vblank; the others
Instructions == {"unmask", "ctrl", "other"}

TypeOK ==
  /\ pc \in Pcs
  /\ sp \in Sps
  /\ irq \in 0 .. 1
  /\ iFlag \in BOOLEAN
  /\ nmi \in BOOLEAN /\ delayNmi \in BOOLEAN /\ delayIrq \in BOOLEAN
  /\ stack \in [Sps -> Nat]
  /\ frames \in Seq(Frames) /\ Len(frames) <= MaxOpen
  /\ last \in Instructions
  /\ late \in 0 .. 2

\* sp starts at 0xfd, p at 4; the reset vector leads to the program.
InitialSp == (StackSize - 3) % StackSize

Init ==
  /\ pc \in Pcs
  /\ sp = InitialSp
  /\ irq = 0
  /\ iFlag = TRUE
  /\ nmi = FALSE
  /\ delayNmi = FALSE
  /\ delayIrq = FALSE
  /\ stack = [a \in Sps |-> 0]
  /\ frames = <<>>
  /\ last = "other"
  /\ late = 0

(***************************************************************************)
(* Bytes, and the stack.  sp is a u8 and wraps.                            *)
(***************************************************************************)
After(a, n) == (a + n) % (PageSize * Pages)
Hi(a) == a \div PageSize
Lo(a) == a % PageSize
Address(lo, hi) == PageSize * hi + lo

\* Mutant: sp does not wrap.
BelowNoWrap(s, n) == s - n

Below(s, n) == (s - n) % StackSize
Above(s, n) == (s + n) % StackSize

StatusByte(i, b) == (IF i THEN 4 ELSE 0) + (IF b THEN 16 ELSE 0)
IOf(byte) == (byte \div 4) % 2 = 1

Open(kind, ret) ==
  /\ Len(frames) < MaxOpen
  /\ frames' = Append(frames, [kind |-> kind, ret |-> ret, sp |-> sp,
                              i |-> iFlag, cleared |-> FALSE])

Innermost == frames[Len(frames)]

Close(kinds) ==
  /\ frames # <<>>
  /\ Innermost.kind \in kinds
  /\ frames' = SubSeq(frames, 1, Len(frames) - 1)

(***************************************************************************)
(* Interrupts.                                                             *)
(***************************************************************************)
IrqPending(i) == irq > 0 /\ ~i

NmiTaken == nmi /\ ~delayNmi
IrqTaken == ~NmiTaken /\ IrqPending(iFlag) /\ ~delayIrq

\* Mutant: the I flag is set before the status is pushed.
InterruptMaskFirst(vector, at, b) ==
  /\ stack' = [stack EXCEPT ![sp] = Hi(at), ![Below(sp, 1)] = Lo(at),
                            ![Below(sp, 2)] = StatusByte(TRUE, b)]
  /\ sp' = Below(sp, 3)
  /\ iFlag' = TRUE
  /\ pc' = vector

\* Mutant: the I flag is left as it is.
InterruptUnmasked(vector, at, b) ==
  /\ stack' = [stack EXCEPT ![sp] = Hi(at), ![Below(sp, 1)] = Lo(at),
                            ![Below(sp, 2)] = StatusByte(iFlag, b)]
  /\ sp' = Below(sp, 3)
  /\ pc' = vector
  /\ UNCHANGED iFlag

\* interrupt: at is the address pushed, b whether bit 4 of the status is set
Interrupt(vector, at, b) ==
  /\ stack' = [stack EXCEPT ![sp] = Hi(at), ![Below(sp, 1)] = Lo(at),
                            ![Below(sp, 2)] = StatusByte(iFlag, b)]
  /\ sp' = Below(sp, 3)
  /\ iFlag' = TRUE
  /\ pc' = vector

\* exec_instruction with an NMI to take; the delay flags stay as they are.
TakeNmi ==
  /\ NmiTaken
  /\ Open("nmi", pc)
  /\ Interrupt(NmiVector, pc, FALSE)
  /\ nmi' = FALSE
  /\ late' = 0
  /\ UNCHANGED <<irq, delayNmi, delayIrq, last>>

TakeIrq ==
  /\ IrqTaken
  /\ Open("irq", pc)
  /\ Interrupt(IrqVector, pc, TRUE)
  /\ late' = 0
  /\ UNCHANGED <<lines, delayNmi, delayIrq, last>>

(***************************************************************************)
(* Instructions.                                                           *)
(***************************************************************************)
(* exec_instruction executes: no interrupt is taken and delay_nmi is       *)
(* cleared, as is delay_irq unless the instruction delays IRQs itself.     *)
Execute(name) ==
  /\ ~NmiTaken /\ ~IrqTaken
  /\ last' = name
  /\ late' = IF ~IrqPending(iFlag) THEN 0 ELSE IF late < 2 THEN late + 1 ELSE 2
  /\ delayNmi' = (name = "ctrl")
  /\ UNCHANGED irq

\* Mutant: delay_irq is not cleared.
PlainKeepDelay ==
  /\ Execute("other")
  /\ pc' \in Pcs
  /\ UNCHANGED <<delayIrq, sp, iFlag, nmi, stack, frames>>

\* An instruction that affects neither the stack nor the I flag.
Plain ==
  /\ Execute("other")
  /\ pc' \in Pcs
  /\ delayIrq' = FALSE
  /\ UNCHANGED <<sp, iFlag, nmi, stack, frames>>

\* An instruction that ends by enabling the NMI in ppuctrl during vblank.
WriteCtrl ==
  /\ Execute("ctrl")
  /\ pc' \in Pcs
  /\ nmi' = TRUE
  /\ delayIrq' = FALSE
  /\ UNCHANGED <<sp, iFlag, stack, frames>>

InHandlers == {k \in 1 .. Len(frames) : frames[k].kind \in Handlers}
CurrentHandler == CHOOSE k \in InHandlers : \A j \in InHandlers : j <= k

Cli ==
  /\ Execute("unmask")
  /\ pc' = After(pc, 1)
  /\ iFlag' = FALSE
  /\ frames' = IF InHandlers = {} THEN frames
                ELSE [frames EXCEPT ![CurrentHandler].cleared = TRUE]
  /\ delayIrq' = IrqPending(FALSE)
  /\ UNCHANGED <<sp, nmi, stack>>

\* The test comes after the flag is set, and never succeeds.
Sei ==
  /\ Execute("other")
  /\ pc' = After(pc, 1)
  /\ iFlag' = TRUE
  /\ delayIrq' = IrqPending(TRUE)
  /\ UNCHANGED <<sp, nmi, stack, frames>>

Php ==
  /\ Execute("other")
  /\ Open("php", pc)
  /\ stack' = [stack EXCEPT ![sp] = StatusByte(iFlag, TRUE)]
  /\ sp' = Below(sp, 1)
  /\ pc' = After(pc, 1)
  /\ delayIrq' = FALSE
  /\ UNCHANGED <<iFlag, nmi>>

Plp ==
  /\ Execute("unmask")
  /\ Close({"php"})
  /\ sp' = Above(sp, 1)
  /\ iFlag' = IOf(stack[Above(sp, 1)])
  /\ pc' = After(pc, 1)
  /\ delayIrq' = IrqPending(iFlag')
  /\ UNCHANGED <<nmi, stack>>

\* The address of the last byte of the JSR is pushed, and RTS adds one.
Jsr ==
  LET at == After(pc, 2) IN
  /\ Execute("other")
  /\ Open("call", After(pc, 3))
  /\ stack' = [stack EXCEPT ![sp] = Hi(at), ![Below(sp, 1)] = Lo(at)]
  /\ sp' = Below(sp, 2)
  /\ pc' \in Pcs
  /\ delayIrq' = FALSE
  /\ UNCHANGED <<iFlag, nmi>>

Rts ==
  /\ Execute("other")
  /\ Close({"call"})
  /\ sp' = Above(sp, 2)
  /\ pc' = After(Address(stack[Above(sp, 1)], stack[Above(sp, 2)]), 1)
  /\ delayIrq' = FALSE
  /\ UNCHANGED <<iFlag, nmi, stack>>

Brk ==
  /\ Execute("other")
  /\ Open("brk", After(pc, 2))
  /\ Interrupt(IrqVector, After(pc, 2), TRUE)
  /\ delayIrq' = FALSE
  /\ UNCHANGED nmi

Rti ==
  /\ Execute("other")
  /\ Close(Handlers)
  /\ sp' = Above(sp, 3)
  /\ iFlag' = IOf(stack[Above(sp, 1)])
  /\ pc' = Address(stack[Above(sp, 2)], stack[Above(sp, 3)])
  /\ delayIrq' = FALSE
  /\ UNCHANGED <<nmi, stack>>

(***************************************************************************)
(* The PPU and the mapper, while they catch up, and OAM DMA, which drops a *)
(* pending NMI.                                                            *)
(***************************************************************************)
ChangeLines ==
  /\ \/ irq' \in 0 .. 1 /\ UNCHANGED nmi
     \/ nmi' \in BOOLEAN /\ UNCHANGED irq
  /\ UNCHANGED <<pc, sp, iFlag, delayNmi, delayIrq, stack, frames, last, late>>

Instruction ==
  Plain \/ WriteCtrl \/ Cli \/ Sei \/ Php \/ Plp \/ Jsr \/ Rts \/ Brk \/ Rti

Next == TakeNmi \/ TakeIrq \/ Instruction \/ ChangeLines

Spec == Init /\ [][Next]_vars

-----------------------------------------------------------------------------
(***************************************************************************)
(* Properties.                                                             *)
(***************************************************************************)
(* Whatever interrupts whatever: RTI, RTS and PLP restore the stack        *)
(* pointer, RTI and RTS go on where the program was left (BRK + 2, JSR +   *)
(* 3), RTI and PLP restore the I flag.                                     *)
FramesRestored ==
  [][Len(frames') < Len(frames) =>
       /\ sp' = Innermost.sp
       /\ Innermost.kind # "php" => pc' = Innermost.ret
       /\ Innermost.kind # "call" => iFlag' = Innermost.i]_vars

(* A handler runs with IRQs masked until it executes CLI itself: neither   *)
(* the return from a nested NMI or BRK nor PLP nor RTS unmasks them, so    *)
(* that an IRQ handler is not entered again.                               *)
MaskedInHandler ==
  InHandlers # {} /\ ~frames[CurrentHandler].cleared => iFlag

(* An IRQ that is pending and unmasked when an instruction starts is only  *)
(* passed over if the instruction before was CLI or PLP; and nothing, not  *)
(* even an IRQ, is put before a pending NMI, unless the last instruction   *)
(* executed raised it in ppuctrl.                                          *)
NotPassedOver ==
  [][/\ late' > late => last = "unmask"
     /\ nmi /\ (Instruction \/ TakeIrq) => last = "ctrl"]_vars
=============================================================================
