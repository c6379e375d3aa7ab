------------------------------- MODULE CpuBus -------------------------------
(***************************************************************************)
(* What an instruction does on the bus, cycle by cycle (cpu/addressing.rs  *)
(* and the instructions of cpu/mod.rs that access memory themselves).  An  *)
(* instruction is the sequence of its cycles: every access is followed by  *)
(* one cycle_count += 1, and what the code counts without an access is     *)
(* NoAccess.  The accesses matter for more than their values: each of them *)
(* may catch the PPU up, and a register answers to a dummy access as to    *)
(* any other.  The bytes that come from the bus are parameters.            *)
(***************************************************************************)
EXTENDS AddressMaps, Sequences

Word(lo, hi) == 256 * hi + lo
Low(n) == n % 256           \* as u8, wrapping_add, wrapping_sub
Wide(n) == n % (64 * KB)    \* pc += 1

Read(a) == [op |-> "read", at |-> a]
Write(a) == [op |-> "write", at |-> a]
NoAccess == [op |-> "idle", at |-> 0]

\* The opcode, and by fetch_operand_byte one or two bytes after it.
Fetch(pc, n) ==
  IF n = 2 THEN <<Read(pc), Read(Wide(pc + 1))>>
  ELSE <<Read(pc), Read(Wide(pc + 1)), Read(Wide(pc + 2))>>

\* What the instruction does at its address; one that modifies a byte writes
\* the old value first.
Uses == {"read", "write", "modify"}
Use(use, a) ==
  CASE use = "read"   -> <<Read(a)>>
    [] use = "write"  -> <<Write(a)>>
    [] use = "modify" -> <<Read(a), Write(a), Write(a)>>

-----------------------------------------------------------------------------
(***************************************************************************)
(* The addressing modes.                                                   *)
(***************************************************************************)
Immediate(pc) == Fetch(pc, 2)

Absolute(pc, lo, hi, use) == Fetch(pc, 3) \o Use(use, Word(lo, hi))

ZeroPage(pc, lo, use) == Fetch(pc, 2) \o Use(use, lo)

\* The index is added, within the page, after a read without it.
ZeroPageIndexed(pc, lo, index, use) ==
  Fetch(pc, 2) \o <<Read(lo)>> \o Use(use, Low(lo + index))

Crosses(lo, index) == lo + index >= 256
Carry(lo, index) == IF Crosses(lo, index) THEN 1 ELSE 0

\* The address before and after the carry reaches its high byte.
WithoutCarry(lo, hi, index) == Word(Low(lo + index), hi)
WithCarry(lo, hi, index) == Word(Low(lo + index), Low(hi + Carry(lo, index)))

\* A read that crosses no page is right at once; all else first reads
\* without the carry.
Indexed(lo, hi, index, use) ==
  (IF use = "read" /\ ~Crosses(lo, index)
   THEN <<>> ELSE <<Read(WithoutCarry(lo, hi, index))>>)
  \o Use(use, WithCarry(lo, hi, index))

AbsoluteIndexed(pc, lo, hi, index, use) ==
  Fetch(pc, 3) \o Indexed(lo, hi, index, use)

\* (p,X): the pointer is in the zero page, at p + x; lo and hi are its bytes.
IndexedIndirect(pc, p, x, lo, hi, use) ==
  Fetch(pc, 2) \o <<Read(p), Read(Low(p + x)), Read(Low(p + x + 1))>>
  \o Use(use, Word(lo, hi))

\* (p),Y: the pointer is at p, and y is added to what it points to.
IndirectIndexed(pc, p, y, lo, hi, use) ==
  Fetch(pc, 2) \o <<Read(p), Read(Low(p + 1))>> \o Indexed(lo, hi, y, use)

-----------------------------------------------------------------------------
(***************************************************************************)
(* Instructions with accesses of their own, and interrupts.                *)
(***************************************************************************)
Stack(sp) == 256 + Low(sp)

\* clc, tax, asl_a, nop, ...
Implied(pc) == <<Read(pc), NoAccess>>

\* push_val: PHA, PHP; pull_val: PLA, PLP
Push(pc, sp) == <<Read(pc), NoAccess, Write(Stack(sp))>>
Pull(pc, sp) == <<Read(pc), NoAccess, NoAccess, Read(Stack(sp + 1))>>

Jump(pc) == Fetch(pc, 3)

\* The high byte is read from the same page as the low one.
JumpIndirect(pc, lo, hi) ==
  Fetch(pc, 3) \o <<Read(Word(lo, hi)), Read(Word(Low(lo + 1), hi))>>

Jsr(pc, sp) == Fetch(pc, 3) \o <<NoAccess, Write(Stack(sp - 1)), Write(Stack(sp))>>

Rts(pc, sp) ==
  Fetch(pc, 2) \o <<NoAccess, Read(Stack(sp + 1)), Read(Stack(sp + 2)), NoAccess>>

Rti(pc, sp) ==
  Fetch(pc, 2)
  \o <<NoAccess, Read(Stack(sp + 1)), Read(Stack(sp + 2)), Read(Stack(sp + 3))>>

\* branch_if: the offset is a signed byte, and the high byte of the target is
\* corrected by the carry of the low byte and by the sign.
Negative(offset) == offset >= 128
BranchCarry(next, offset) == (next % 256) + offset >= 256
BranchTurnsPage(next, offset) == Negative(offset) # BranchCarry(next, offset)
BranchWithoutPage(next, offset) == Word(Low(next + offset), next \div 256)
BranchTarget(next, offset) ==
  Word(Low(next + offset),
       Low((next \div 256) + (IF BranchCarry(next, offset) THEN 1 ELSE 0)
           + (IF Negative(offset) THEN 255 ELSE 0)))

\* A taken branch reads the next opcode, and again at the new low byte if the
\* page changes.
Branch(pc, offset, taken) ==
  LET next == Wide(pc + 2)
  IN Fetch(pc, 2)
     \o (IF taken THEN <<Read(next)>> ELSE <<>>)
     \o (IF taken /\ BranchTurnsPage(next, offset)
         THEN <<Read(BranchWithoutPage(next, offset))>> ELSE <<>>)

\* interrupt, for an NMI or an IRQ (no opcode is read) and for BRK.
Interrupt(first, sp, vector) ==
  <<first, NoAccess, Write(Stack(sp)), Write(Stack(sp - 1)), Write(Stack(sp - 2)),
    Read(vector), Read(vector + 1)>>
Vectors == {65530, 65534}       \* 0xfffa, 0xfffe

-----------------------------------------------------------------------------
OamDma == 16404                 \* 0x4014

\* All that exec_instruction() can do on the bus; (p,X) and (p),Y modify nothing.
Instructions ==
  UNION {
    {Immediate(pc) : pc \in CpuAddrs},
    {Absolute(pc, lo, hi, use) : pc \in CpuAddrs, lo \in Bytes, hi \in Bytes, use \in Uses},
    {ZeroPage(pc, lo, use) : pc \in CpuAddrs, lo \in Bytes, use \in Uses},
    {ZeroPageIndexed(pc, lo, index, use) :
       pc \in CpuAddrs, lo \in Bytes, index \in Bytes, use \in Uses},
    {AbsoluteIndexed(pc, lo, hi, index, use) :
       pc \in CpuAddrs, lo \in Bytes, hi \in Bytes, index \in Bytes, use \in Uses},
    {IndexedIndirect(pc, p, x, lo, hi, use) :
       pc \in CpuAddrs, p \in Bytes, x \in Bytes, lo \in Bytes, hi \in Bytes,
       use \in {"read", "write"}},
    {IndirectIndexed(pc, p, y, lo, hi, use) :
       pc \in CpuAddrs, p \in Bytes, y \in Bytes, lo \in Bytes, hi \in Bytes,
       use \in {"read", "write"}},
    {Implied(pc) : pc \in CpuAddrs},
    {Push(pc, sp) : pc \in CpuAddrs, sp \in Bytes},
    {Pull(pc, sp) : pc \in CpuAddrs, sp \in Bytes},
    {Jump(pc) : pc \in CpuAddrs},
    {JumpIndirect(pc, lo, hi) : pc \in CpuAddrs, lo \in Bytes, hi \in Bytes},
    {Jsr(pc, sp) : pc \in CpuAddrs, sp \in Bytes},
    {Rts(pc, sp) : pc \in CpuAddrs, sp \in Bytes},
    {Rti(pc, sp) : pc \in CpuAddrs, sp \in Bytes},
    {Branch(pc, offset, taken) : pc \in CpuAddrs, offset \in Bytes, taken \in BOOLEAN},
    {Interrupt(first, sp, vector) :
       first \in {NoAccess} \cup {Read(pc) : pc \in CpuAddrs}, sp \in Bytes, vector \in Vectors}}
=============================================================================
