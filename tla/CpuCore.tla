------------------------------ MODULE CpuCore ------------------------------
(***************************************************************************)
(* The registers and the flags of the CPU (cpu/mod.rs): what each          *)
(* instruction computes, whatever its addressing mode.  A byte that comes  *)
(* from memory is any byte.  Programs work on numbers of several bytes     *)
(* with instructions that hand each other the carry flag, and decide by    *)
(* branches that test what an earlier instruction left in the flags;       *)
(* instructions in between must leave alone what they do not define.       *)
(*                                                                         *)
(* Instructions that change none of this (stores, jumps, PHA, PHP, TXS,    *)
(* NOP) are no actions here.  CpuInterrupts has the stack and the I flag's *)
(* effect, FrameClock the cycles.                                          *)
(***************************************************************************)
EXTENDS Integers

CONSTANTS
  Half,        \* the value of the top bit of a byte: 128
  IndexRegs,   \* the index registers: {"x", "y"}
  MaxBytes     \* bound: the bytes of a number that a program works on

Byte == 2 * Half
Bytes == 0 .. Byte - 1

ASSUME CoreAssumption ==
  /\ Half \in Nat /\ Half >= 2
  /\ IndexRegs \subseteq {"x", "y"}
  /\ MaxBytes \in Nat \ {0}

VARIABLES
  a, index,    \* the accumulator; the index registers
  n, v, z,     \* bits 7, 6 and 1 of Cpu.p
  c,           \* bit 0 of Cpu.p, as a number
  others,      \* which of the bits 5, 3 (D) and 2 (I) of Cpu.p are set
  returned,    \* auxiliary: a PLP or RTI has been executed
  wide         \* auxiliary: the number being worked on, see WideTypes

flags == <<n, v, z, c, others, returned>>
coreVars == <<a, index, flags, wide>>

Others == {"five", "d", "i"}

(***************************************************************************)
(* A number is worked on from its low byte on by ADC ("add") or ROL        *)
(* ("left"), by SBC ("sub"), which a comparison ("cmp") may precede, or    *)
(* from its high byte on by ROR ("right").  unit: Byte to the power of the *)
(* bytes done; exact: the true result so far, from the operands alone;     *)
(* done: the bytes produced so far, put together; signed: as exact, with   *)
(* the operands' last bytes taken as signed.                               *)
(***************************************************************************)
WideTypes ==
  [kind : {"none", "add", "left", "sub", "cmp", "right"},
   unit : Nat, exact : Int, done : Int, signed : Int]

CoreTypeOK ==
  /\ a \in Bytes
  /\ index \in [IndexRegs -> Bytes]
  /\ n \in BOOLEAN /\ v \in BOOLEAN /\ z \in BOOLEAN
  /\ c \in 0 .. 1
  /\ others \subseteq Others
  /\ returned \in BOOLEAN
  /\ wide \in WideTypes

NoWide == [kind |-> "none", unit |-> 1, exact |-> 0, done |-> 0, signed |-> 0]

\* Cpu::default; main sets p to 4.
CoreInit ==
  /\ a = 0
  /\ index = [r \in IndexRegs |-> 0]
  /\ n = FALSE /\ v = FALSE /\ z = FALSE
  /\ c = 0
  /\ others = {"i"}
  /\ returned = FALSE
  /\ wide = NoWide

(***************************************************************************)
(* Bytes and flags.                                                        *)
(***************************************************************************)
\* A byte as an i8, and whether a sum or difference of i8s leaves their range.
Signed(b) == IF b < Half THEN b ELSE b - Byte
OverflowsSigned(i) == i < -Half \/ i >= Half

AsBit(b) == IF b THEN 1 ELSE 0
TopBit(b) == AsBit(b >= Half)
LowBit(b) == b % 2
Wrapped(i) == i % Byte

SetNZ(val) == n' = (val >= Half) /\ z' = (val = 0)

\* What an instruction leaves alone that defines N and Z only.
OnlyNZ == UNCHANGED <<v, c, others, returned, wide>>
OnlyA == UNCHANGED index

\* The number that an operation goes on with, or a new one to which it
\* carries in.
Continued(kinds, carryIn) ==
  IF wide.kind \in kinds /\ wide.unit < Byte ^ MaxBytes
  THEN wide
  ELSE [NoWide EXCEPT !.exact = carryIn]

\* The number w with one more byte res of the value exact.
Higher(kind, w, exact, signed, res) ==
  [kind |-> kind, unit |-> w.unit * Byte,
   exact |-> w.exact + w.unit * exact,
   done |-> w.done + w.unit * res,
   signed |-> w.exact + w.unit * signed]

(***************************************************************************)
(* Addition, subtraction, comparison: the carry is added in a second step  *)
(* with a carry and an overflow of its own.                                *)
(***************************************************************************)
Sum1(val) == Wrapped(val + a)
Sum2(val) == Wrapped(Sum1(val) + c)
CarryOut(val) == val + a >= Byte \/ Sum1(val) + c >= Byte

\* Mutant: either overflow counts.
AddOverflowsOr(val) ==
  OverflowsSigned(Signed(val) + Signed(a)) \/ OverflowsSigned(Signed(Sum1(val)) + c)

AddOverflows(val) ==
  OverflowsSigned(Signed(val) + Signed(a)) # OverflowsSigned(Signed(Sum1(val)) + c)

\* Mutant: only the first addition carries.
AdcFirstCarry ==
  \E val \in Bytes :
    /\ a' = Sum2(val)
    /\ c' = AsBit(val + a >= Byte)
    /\ v' = AddOverflows(val)
    /\ SetNZ(Sum2(val))
    /\ OnlyA
    /\ wide' = Higher("add", Continued({"add"}, c), a + val,
                      Signed(a) + Signed(val), Sum2(val))
    /\ UNCHANGED <<others, returned>>

Adc ==
  \E val \in Bytes :
    /\ a' = Sum2(val)
    /\ c' = AsBit(CarryOut(val))
    /\ v' = AddOverflows(val)
    /\ SetNZ(Sum2(val))
    /\ OnlyA
    /\ wide' = Higher("add", Continued({"add"}, c), a + val,
                      Signed(a) + Signed(val), Sum2(val))
    /\ UNCHANGED <<others, returned>>

Difference1(val) == Wrapped(a - val)
Difference2(val) == Wrapped(Difference1(val) - (1 - c))
Borrow(val) == a < val \/ Difference1(val) < 1 - c

SubOverflows(val) ==
  OverflowsSigned(Signed(a) - Signed(val))
    # OverflowsSigned(Signed(Difference1(val)) - (1 - c))

Sbc ==
  \E val \in Bytes :
    /\ a' = Difference2(val)
    /\ c' = AsBit(~Borrow(val))
    /\ v' = SubOverflows(val)
    /\ SetNZ(Difference2(val))
    /\ OnlyA
    /\ wide' = Higher("sub", Continued({"sub", "cmp"}, c - 1), a - val,
                      Signed(a) - Signed(val), Difference2(val))
    /\ UNCHANGED <<others, returned>>

\* compare_register_val
CompareRegister(register) ==
  \E val \in Bytes :
    /\ c' = AsBit(Wrapped(register - val) = 0 \/ register >= val)
    /\ SetNZ(Wrapped(register - val))
    /\ wide' = Higher("cmp", NoWide, register - val,
                      Signed(register) - Signed(val), Wrapped(register - val))
    /\ UNCHANGED <<a, index, v, others, returned>>

\* CMP, CPX, CPY
Compare ==
  \/ CompareRegister(a)
  \/ \E r \in IndexRegs : CompareRegister(index[r])

(***************************************************************************)
(* Shifts, of the accumulator or of a byte in memory.                      *)
(***************************************************************************)
ShiftedBack(val, res) ==
  /\ \/ UNCHANGED a
     \/ val = a /\ a' = res
  /\ SetNZ(res)
  /\ UNCHANGED <<index, v, others, returned>>

Asl ==
  \E val \in Bytes :
    /\ c' = TopBit(val)
    /\ ShiftedBack(val, Wrapped(2 * val))
    /\ wide' = Higher("left", NoWide, 2 * val, 0, Wrapped(2 * val))

Rol ==
  \E val \in Bytes :
    /\ c' = TopBit(val)
    /\ ShiftedBack(val, Wrapped(2 * val) + c)
    /\ wide' = Higher("left", Continued({"left"}, c), 2 * val, 0,
                      Wrapped(2 * val) + c)

\* The number w with one more byte val below it, shifted right into res.
Lower(w, val, res) ==
  [kind |-> "right", unit |-> w.unit * Byte,
   exact |-> w.exact * Byte + val, done |-> w.done * Byte + res, signed |-> 0]

Lsr ==
  \E val \in Bytes :
    /\ c' = LowBit(val)
    /\ ShiftedBack(val, val \div 2)
    /\ wide' = Lower(NoWide, val, val \div 2)

Ror ==
  \E val \in Bytes :
    /\ c' = LowBit(val)
    /\ ShiftedBack(val, val \div 2 + Half * c)
    /\ wide' = Lower(Continued({"right"}, c), val, val \div 2 + Half * c)

(***************************************************************************)
(* Logic: of the result only what the operands bound is kept.              *)
(***************************************************************************)
AccumulatorGets(res) == a' = res /\ SetNZ(res) /\ OnlyA /\ OnlyNZ

And == \E res \in 0 .. a : AccumulatorGets(res)
Ora == \E res \in a .. Byte - 1 : AccumulatorGets(res)
Eor == \E res \in Bytes : AccumulatorGets(res)

\* V and N are bits of the operand; Z says whether it has a bit in common
\* with the accumulator.
Bit ==
  \E val \in Bytes, common \in BOOLEAN :
    /\ common => val > 0 /\ a > 0
    /\ v' = (2 * (val % Half) >= Half)
    /\ n' = (val >= Half)
    /\ z' = ~common
    /\ UNCHANGED <<a, index, c, others, returned, wide>>

(***************************************************************************)
(* Counting, in memory or in an index register.                            *)
(***************************************************************************)
\* Mutant: DEC does not wrap.
Previous1NoWrap(val) == val - 1

\* increment_val, decrement_val
Next1(val) == Wrapped(val + 1)
Previous1(val) == Wrapped(val - 1)

IndexBecomes(r, res) ==
  /\ index' = [index EXCEPT ![r] = res]
  /\ SetNZ(res)
  /\ OnlyNZ
  /\ UNCHANGED a

Inc == \E val \in Bytes : SetNZ(Next1(val)) /\ OnlyNZ /\ UNCHANGED <<a, index>>
Dec == \E val \in Bytes : SetNZ(Previous1(val)) /\ OnlyNZ /\ UNCHANGED <<a, index>>

\* INX, INY; DEX, DEY
IncIndex == \E r \in IndexRegs : IndexBecomes(r, Next1(index[r]))
DecIndex == \E r \in IndexRegs : IndexBecomes(r, Previous1(index[r]))

(***************************************************************************)
(* Loads and transfers.                                                    *)
(***************************************************************************)
\* LDA, PLA; LDX, LDY, and TSX, which may find any byte in sp
Lda == \E val \in Bytes : AccumulatorGets(val)
Pla == \E val \in Bytes : AccumulatorGets(val)
LoadIndex == \E r \in IndexRegs, val \in Bytes : IndexBecomes(r, val)

\* TAX, TAY; TXA, TYA
TransferA == \E r \in IndexRegs : IndexBecomes(r, a)
TransferIndex == \E r \in IndexRegs : AccumulatorGets(index[r])

(***************************************************************************)
(* The flags themselves.                                                   *)
(***************************************************************************)
SetCarry(bit) ==
  /\ c' = bit
  /\ wide' = NoWide
  /\ UNCHANGED <<a, index, n, v, z, others, returned>>

Clc == SetCarry(0)
Sec == SetCarry(1)

Clv == v' = FALSE /\ UNCHANGED <<a, index, n, z, c, others, returned, wide>>

SetOthers(set) ==
  /\ others' = set
  /\ UNCHANGED <<a, index, n, v, z, c, returned, wide>>

Cld == SetOthers(others \ {"d"})
Sed == SetOthers(others \cup {"d"})
ClearMask == SetOthers(others \ {"i"})
SetMask == SetOthers(others \cup {"i"})

\* Mutant: bit 5 is what was pulled.
PullStatusAsIs ==
  /\ n' \in BOOLEAN /\ v' \in BOOLEAN /\ z' \in BOOLEAN
  /\ c' \in 0 .. 1
  /\ others' \in SUBSET Others
  /\ returned' = TRUE
  /\ wide' = NoWide
  /\ UNCHANGED <<a, index>>

\* PLP, RTI: any byte, with bit 5 set
PullStatus ==
  /\ n' \in BOOLEAN /\ v' \in BOOLEAN /\ z' \in BOOLEAN
  /\ c' \in 0 .. 1
  /\ \E set \in SUBSET Others : others' = set \cup {"five"}
  /\ returned' = TRUE
  /\ wide' = NoWide
  /\ UNCHANGED <<a, index>>

Arithmetic == Adc \/ Sbc \/ Compare \/ Asl \/ Rol \/ Lsr \/ Ror
Logical == And \/ Ora \/ Eor \/ Bit
Counting == Inc \/ Dec \/ IncIndex \/ DecIndex
Moving == Lda \/ Pla \/ LoadIndex \/ TransferA \/ TransferIndex
Flagging == Clc \/ Sec \/ Clv \/ Cld \/ Sed \/ ClearMask \/ SetMask \/ PullStatus

CoreNext == Arithmetic \/ Logical \/ Counting \/ Moving \/ Flagging

CoreSpec == CoreInit /\ [][CoreNext]_coreVars

(***************************************************************************)
(* Branches.                                                               *)
(***************************************************************************)
\* Cpu.p is zero (bit 4 is never set in it).
NoFlags == ~n /\ ~v /\ ~z /\ c = 0 /\ others = {}

\* Whether a branch is taken.  BPL tests Cpu.p > 0, read as an i8.
Taken(branch) ==
  CASE branch = "bcc" -> c = 0
    [] branch = "bcs" -> c = 1
    [] branch = "beq" -> z
    [] branch = "bne" -> ~z
    [] branch = "bmi" -> n
    [] branch = "bpl" -> ~n /\ ~NoFlags
    [] branch = "bvs" -> v
    [] branch = "bvc" -> ~v

\* branch_if: the low byte of the target, and whether it carries; the second
\* read, from an address with the old high byte; the high byte
BranchLow(lo, offset) == Wrapped(lo + offset)
BranchCarry(lo, offset) == AsBit(lo + offset >= Byte)
PageCrossed(lo, offset) == (offset >= Half) # (BranchCarry(lo, offset) = 1)
BranchHigh(lo, hi, offset) ==
  Wrapped(Wrapped(hi + BranchCarry(lo, offset)) + TopBit(offset) * (Byte - 1))

Opposites == {<<"bcc", "bcs">>, <<"bne", "beq">>, <<"bpl", "bmi">>, <<"bvc", "bvs">>}

-----------------------------------------------------------------------------
(***************************************************************************)
(* Properties.                                                             *)
(***************************************************************************)
\* The bytes done and a carry make up the exact result.
Agrees(w, carry) ==
  /\ w.done \in 0 .. w.unit - 1
  /\ w.kind \in {"add", "left"} => w.done + w.unit * carry = w.exact
  /\ w.kind \in {"sub", "cmp"} => w.done - w.unit * (1 - carry) = w.exact
  /\ w.kind = "right" => 2 * w.done + carry = w.exact

(* Numbers of several bytes: the bytes produced and the carry together are *)
(* the exact sum, difference or shifted number, whatever instructions that *)
(* leave the carry alone came in between.                                  *)
WideArithmetic == Agrees(wide, c)

(* After an addition or a subtraction of signed numbers, of one byte or    *)
(* more, N and V together (BMI, BVS) give the sign of the exact result,    *)
(* which may be out of the range of these bytes.                           *)
SignedOrder ==
  [][wide' # wide /\ wide'.kind \in {"add", "sub"} =>
       ((Taken("bmi")' # Taken("bvs")') <=> wide'.signed < 0)]_coreVars

(* After a comparison or a subtraction, of one byte or more, BCC is taken  *)
(* just when the first number is the smaller one, and after a comparison   *)
(* BEQ just when they are equal.                                           *)
UnsignedOrder ==
  [][wide' # wide /\ wide'.kind \in {"sub", "cmp"} =>
       /\ Taken("bcc")' <=> wide'.exact < 0
       /\ wide'.kind = "cmp" => (Taken("beq")' <=> wide'.exact = 0)]_coreVars

\* The branches tell the order of numbers of any length, signed or not.
OrderExact == SignedOrder /\ UnsignedOrder

(* Once a PLP or an RTI has set bit 5 of the flags, which no instruction   *)
(* clears, exactly one of two opposite branches is taken.  (Before, with   *)
(* no flag set, neither BPL nor BMI is.)                                   *)
OppositeBranches ==
  returned => \A pair \in Opposites : Taken(pair[1]) # Taken(pair[2])
=============================================================================
