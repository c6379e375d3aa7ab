----------------------------- MODULE Cpu_proofs -----------------------------
(***************************************************************************)
(* Proofs about the CPU.  CpuCore: types, numbers of several bytes, the    *)
(* order that the flags give after a subtraction or a comparison, and the  *)
(* target of a branch, for every width of a byte and every length of a     *)
(* number.  CpuInterrupts: the stack, the I flag and its delay, for        *)
(* addresses and a stack of any size and any nesting that the stack has    *)
(* room for.                                                               *)
(***************************************************************************)
EXTENDS CpuCore, CpuInterrupts, TLAPS

-----------------------------------------------------------------------------
(***************************************************************************)
(* One byte.                                                               *)
(***************************************************************************)
(* A byte that leaves its range by less than its size wraps once.          *)
LEMMA ByteWraps ==
  ASSUME NEW i \in Int, -Byte <= i, i < 2 * Byte
  PROVE  /\ Wrapped(i) \in Bytes
         /\ i < 0 => Wrapped(i) = i + Byte
         /\ i >= 0 /\ i < Byte => Wrapped(i) = i
         /\ i >= Byte => Wrapped(i) = i - Byte
  BY CoreAssumption DEF Byte, Bytes, Wrapped

(* Byte is an even number, at least four.                                  *)
LEMMA ByteType == Byte \in Nat /\ Byte >= 4 /\ Byte = Half + Half /\ Half \in Nat
  BY CoreAssumption DEF Byte

(* adc: the byte and the carry are the exact sum.                          *)
LEMMA AdcExact ==
  ASSUME a \in Bytes, c \in 0 .. 1, NEW val \in Bytes
  PROVE  /\ Sum2(val) \in Bytes
         /\ CarryOut(val) => Sum2(val) + Byte = val + a + c
         /\ ~CarryOut(val) => Sum2(val) = val + a + c
  <1>1. /\ val + a \in Int /\ -Byte <= val + a /\ val + a < 2 * Byte
        /\ a \in Int /\ val \in Int /\ c \in Int
    BY ByteType DEF Bytes
  <1>2. /\ Sum1(val) \in Bytes
        /\ val + a < Byte => Sum1(val) = val + a
        /\ val + a >= Byte => Sum1(val) = val + a - Byte
    BY <1>1, ByteWraps, ByteType DEF Sum1, Bytes
  <1>3. /\ Sum1(val) + c \in Int /\ -Byte <= Sum1(val) + c /\ Sum1(val) + c < 2 * Byte
    BY <1>1, <1>2, ByteType DEF Bytes
  <1>4. /\ Sum2(val) \in Bytes
        /\ Sum1(val) + c < Byte => Sum2(val) = Sum1(val) + c
        /\ Sum1(val) + c >= Byte => Sum2(val) = Sum1(val) + c - Byte
    BY <1>1, <1>2, <1>3, ByteWraps, ByteType DEF Sum2, Bytes
  <1>. QED
    BY <1>1, <1>2, <1>4, ByteType DEF CarryOut, Bytes

(* sbc: the byte and the borrow are the exact difference.                  *)
LEMMA SbcExact ==
  ASSUME a \in Bytes, c \in 0 .. 1, NEW val \in Bytes
  PROVE  /\ Difference2(val) \in Bytes
         /\ Borrow(val) => Difference2(val) - Byte = a - val - (1 - c)
         /\ ~Borrow(val) => Difference2(val) = a - val - (1 - c)
  <1>1. /\ a - val \in Int /\ -Byte <= a - val /\ a - val < 2 * Byte
        /\ a \in Int /\ val \in Int /\ c \in Int
    BY ByteType DEF Bytes
  <1>2. /\ Difference1(val) \in Bytes
        /\ a >= val => Difference1(val) = a - val
        /\ a < val => Difference1(val) = a - val + Byte
    BY <1>1, ByteWraps, ByteType DEF Difference1, Bytes
  <1>3. /\ Difference1(val) - (1 - c) \in Int
        /\ -Byte <= Difference1(val) - (1 - c)
        /\ Difference1(val) - (1 - c) < 2 * Byte
    BY <1>1, <1>2, ByteType DEF Bytes
  <1>4. /\ Difference2(val) \in Bytes
        /\ Difference1(val) >= 1 - c => Difference2(val) = Difference1(val) - (1 - c)
        /\ Difference1(val) < 1 - c => Difference2(val) = Difference1(val) - (1 - c) + Byte
    BY <1>1, <1>2, <1>3, ByteWraps, ByteType DEF Difference2, Bytes
  <1>. QED
    BY <1>1, <1>2, <1>4, ByteType DEF Borrow, Bytes

(* adc: N and V together give the sign of the sum of signed bytes.         *)
LEMMA AdcSigned ==
  ASSUME a \in Bytes, c \in 0 .. 1, NEW val \in Bytes
  PROVE  ((Sum2(val) >= Half) # AddOverflows(val))
           <=> Signed(a) + Signed(val) + c < 0
  BY AdcExact, ByteWraps, ByteType
     DEF AddOverflows, Sum2, Sum1, Signed, OverflowsSigned, Bytes, CarryOut

(* sbc: the same of the difference.                                        *)
LEMMA SbcSigned ==
  ASSUME a \in Bytes, c \in 0 .. 1, NEW val \in Bytes
  PROVE  ((Difference2(val) >= Half) # SubOverflows(val))
           <=> Signed(a) - Signed(val) - (1 - c) < 0
  BY SbcExact, ByteWraps, ByteType
     DEF SubOverflows, Difference2, Difference1, Signed, OverflowsSigned, Bytes, Borrow

(* branch_if, with the bytes of the source: fixing the high byte after the *)
(* low one gives the address of the next instruction plus the offset as an *)
(* i8, modulo 2^16, and the second read is made just when the high byte    *)
(* changes.                                                                *)
THEOREM BranchTarget ==
  ASSUME Half = 128,
         NEW lo \in Bytes, NEW hi \in Bytes, NEW offset \in Bytes
  PROVE  /\ BranchLow(lo, offset) + Byte * BranchHigh(lo, hi, offset)
              = (lo + Byte * hi + Signed(offset)) % (Byte * Byte)
         /\ PageCrossed(lo, offset) <=> BranchHigh(lo, hi, offset) # hi
  BY DEF BranchLow, BranchHigh, BranchCarry, PageCrossed, Signed, Bytes, Byte,
         Wrapped, TopBit, AsBit

-----------------------------------------------------------------------------
(***************************************************************************)
(* Types.                                                                  *)
(***************************************************************************)
(* A number with one more byte is a number.                                *)
LEMMA HigherType ==
  ASSUME NEW kind \in {"add", "left", "sub", "cmp"}, NEW w \in WideTypes,
         NEW exact \in Int, NEW signed \in Int, NEW res \in Int
  PROVE  Higher(kind, w, exact, signed, res) \in WideTypes
  <1>1. w.unit * Byte \in Nat /\ w.unit * exact \in Int
        /\ w.unit * res \in Int /\ w.unit * signed \in Int
    BY ByteType DEF WideTypes
  <1>. QED
    BY <1>1 DEF Higher, WideTypes

(* The same of a number shifted right.                                     *)
LEMMA LowerType ==
  ASSUME NEW w \in WideTypes, NEW val \in Int, NEW res \in Int
  PROVE  Lower(w, val, res) \in WideTypes
  <1>1. w.unit * Byte \in Nat /\ w.exact * Byte \in Int /\ w.done * Byte \in Int
    BY ByteType DEF WideTypes
  <1>. QED
    BY <1>1 DEF Lower, WideTypes

(* What an operation goes on with is a number.                             *)
LEMMA ContinuedType ==
  ASSUME CoreTypeOK, NEW kinds, NEW carryIn \in Int
  PROVE  Continued(kinds, carryIn) \in WideTypes /\ NoWide \in WideTypes
  BY DEF CoreTypeOK, Continued, NoWide, WideTypes

(* Bytes are integers, with a sign or without.                             *)
LEMMA ByteIsInt ==
  ASSUME NEW b \in Bytes
  PROVE  b \in Int /\ 0 <= b /\ b < Byte /\ Signed(b) \in Int
  BY ByteType DEF Bytes, Signed

(* The bits of a byte are 0 or 1.                                          *)
LEMMA BitType ==
  ASSUME NEW b \in Bytes
  PROVE  TopBit(b) \in 0 .. 1 /\ LowBit(b) \in 0 .. 1
  BY ByteType DEF AsBit, TopBit, LowBit, Bytes

(* N and Z become truth values.                                            *)
LEMMA NZType ==
  ASSUME NEW val, SetNZ(val)
  PROVE  n' \in BOOLEAN /\ z' \in BOOLEAN
  BY DEF SetNZ

(* The shifts give bytes.                                                  *)
LEMMA ShiftType ==
  ASSUME c \in 0 .. 1, NEW val \in Bytes
  PROVE  /\ Wrapped(2 * val) \in Bytes /\ Wrapped(2 * val) + c \in Bytes
         /\ val \div 2 \in Bytes /\ val \div 2 + Half * c \in Bytes
  <1>1. /\ 2 * val >= Byte => Wrapped(2 * val) = 2 * val - Byte
        /\ 2 * val < Byte => Wrapped(2 * val) = 2 * val
    BY ByteType, ByteWraps DEF Bytes
  <1>2. 2 * val \in Int /\ (2 * val >= Byte <=> val >= Half)
    BY ByteType DEF Bytes
  <1>3. Half * c = IF c = 1 THEN Half ELSE 0
    BY ByteType
  <1>. QED
    BY <1>1, <1>2, <1>3, ByteType DEF Bytes

(* The arithmetic instructions keep the types.                             *)
LEMMA ArithmeticType ==
  ASSUME CoreTypeOK, Arithmetic
  PROVE  CoreTypeOK'
  <1>0. a \in Bytes /\ c \in 0 .. 1 /\ c \in Int /\ c - 1 \in Int
    BY DEF CoreTypeOK
  <1>1. CASE Adc
    <2>1. PICK val \in Bytes :
            /\ a' = Sum2(val) /\ c' = AsBit(CarryOut(val)) /\ v' = AddOverflows(val)
            /\ SetNZ(Sum2(val)) /\ OnlyA /\ UNCHANGED <<others, returned>>
            /\ wide' = Higher("add", Continued({"add"}, c), a + val,
                              Signed(a) + Signed(val), Sum2(val))
      BY <1>1 DEF Adc
    <2>2. Sum2(val) \in Bytes /\ AddOverflows(val) \in BOOLEAN
      BY <1>0, AdcExact DEF AddOverflows
    <2>3. wide' \in WideTypes
      BY <1>0, <2>1, <2>2, ByteIsInt, HigherType, ContinuedType
    <2>4. c' \in 0 .. 1
      BY <2>1 DEF AsBit
    <2>. QED
      BY <2>1, <2>2, <2>3, <2>4, NZType DEF CoreTypeOK, OnlyA
  <1>2. CASE Sbc
    <2>1. PICK val \in Bytes :
            /\ a' = Difference2(val) /\ c' = AsBit(~Borrow(val)) /\ v' = SubOverflows(val)
            /\ SetNZ(Difference2(val)) /\ OnlyA /\ UNCHANGED <<others, returned>>
            /\ wide' = Higher("sub", Continued({"sub", "cmp"}, c - 1), a - val,
                              Signed(a) - Signed(val), Difference2(val))
      BY <1>2 DEF Sbc
    <2>2. Difference2(val) \in Bytes /\ SubOverflows(val) \in BOOLEAN
      BY <1>0, SbcExact DEF SubOverflows
    <2>3. wide' \in WideTypes
      BY <1>0, <2>1, <2>2, ByteIsInt, HigherType, ContinuedType
    <2>4. c' \in 0 .. 1
      BY <2>1 DEF AsBit
    <2>. QED
      BY <2>1, <2>2, <2>3, <2>4, NZType DEF CoreTypeOK, OnlyA
  <1>3. ASSUME NEW register \in Bytes, CompareRegister(register) PROVE CoreTypeOK'
    <2>1. PICK val \in Bytes :
            /\ c' = AsBit(Wrapped(register - val) = 0 \/ register >= val)
            /\ SetNZ(Wrapped(register - val))
            /\ UNCHANGED <<a, index, v, others, returned>>
            /\ wide' = Higher("cmp", NoWide, register - val,
                              Signed(register) - Signed(val), Wrapped(register - val))
      BY <1>3 DEF CompareRegister
    <2>2. Wrapped(register - val) \in Bytes
      BY ByteIsInt, ByteType, ByteWraps
    <2>3. wide' \in WideTypes
      BY <1>0, <2>1, <2>2, ByteIsInt, HigherType, ContinuedType
    <2>4. c' \in 0 .. 1
      BY <2>1 DEF AsBit
    <2>. QED
      BY <2>1, <2>2, <2>3, <2>4, NZType DEF CoreTypeOK
  <1>4. CASE Compare
    BY <1>3, <1>4 DEF Compare, CoreTypeOK
  <1>5. CASE Asl \/ Rol
    <2>1. PICK val \in Bytes, res \in Bytes, w \in WideTypes :
            /\ c' = TopBit(val) /\ ShiftedBack(val, res)
            /\ wide' = Higher("left", w, 2 * val, 0, res)
      BY <1>0, <1>5, ShiftType, ContinuedType DEF Asl, Rol
    <2>2. wide' \in WideTypes
      BY <2>1, ByteIsInt, HigherType
    <2>. QED
      BY <2>1, <2>2, BitType, NZType DEF CoreTypeOK, ShiftedBack
  <1>6. CASE Lsr \/ Ror
    <2>1. PICK val \in Bytes, res \in Bytes, w \in WideTypes :
            /\ c' = LowBit(val) /\ ShiftedBack(val, res)
            /\ wide' = Lower(w, val, res)
      BY <1>0, <1>6, ShiftType, ContinuedType DEF Lsr, Ror
    <2>2. wide' \in WideTypes
      BY <2>1, ByteIsInt, LowerType
    <2>. QED
      BY <2>1, <2>2, BitType, NZType DEF CoreTypeOK, ShiftedBack
  <1>. QED
    BY <1>1, <1>2, <1>4, <1>5, <1>6 DEF Arithmetic

(* So do the others.                                                       *)
LEMMA OtherType ==
  ASSUME CoreTypeOK, Logical \/ Counting \/ Moving \/ Flagging
  PROVE  CoreTypeOK'
  <1>1. ASSUME NEW res \in Bytes, AccumulatorGets(res) PROVE CoreTypeOK'
    BY <1>1, NZType DEF CoreTypeOK, AccumulatorGets, OnlyA, OnlyNZ
  <1>2. ASSUME NEW r \in IndexRegs, NEW res \in Bytes, IndexBecomes(r, res)
        PROVE  CoreTypeOK'
    BY <1>2, NZType DEF CoreTypeOK, IndexBecomes, OnlyNZ
  <1>3. CASE Logical
    <2>1. 0 .. a \subseteq Bytes /\ a .. Byte - 1 \subseteq Bytes
      BY ByteType DEF CoreTypeOK, Bytes
    <2>2. CASE Bit
      BY <2>2 DEF Bit, CoreTypeOK
    <2>. QED
      BY <1>1, <1>3, <2>1, <2>2 DEF Logical, And, Ora, Eor
  <1>4. CASE Counting
    <2>1. \A b \in Bytes : Next1(b) \in Bytes /\ Previous1(b) \in Bytes
      BY ByteIsInt, ByteType, ByteWraps DEF Next1, Previous1
    <2>2. CASE Inc \/ Dec
      BY <2>2, NZType DEF Inc, Dec, CoreTypeOK, OnlyNZ
    <2>3. CASE IncIndex \/ DecIndex
      <3>1. \A r \in IndexRegs : index[r] \in Bytes
        BY DEF CoreTypeOK
      <3>. QED
        BY <1>2, <2>1, <2>3, <3>1 DEF IncIndex, DecIndex
    <2>. QED
      BY <1>4, <2>2, <2>3 DEF Counting
  <1>5. CASE Moving
    <2>1. a \in Bytes /\ \A r \in IndexRegs : index[r] \in Bytes
      BY DEF CoreTypeOK
    <2>. QED
      BY <1>1, <1>2, <1>5, <2>1 DEF Moving, Lda, Pla, LoadIndex, TransferA, TransferIndex
  <1>6. CASE Flagging
    <2>1. NoWide \in WideTypes
      BY DEF NoWide, WideTypes
    <2>2. CASE Clc \/ Sec
      BY <2>1, <2>2 DEF Clc, Sec, SetCarry, CoreTypeOK
    <2>3. CASE Clv
      BY <2>3 DEF Clv, CoreTypeOK
    <2>4. CASE Cld \/ Sed \/ ClearMask \/ SetMask
      BY <2>4 DEF Cld, Sed, ClearMask, SetMask, SetOthers, CoreTypeOK, Others
    <2>5. CASE PullStatus
      BY <2>1, <2>5 DEF PullStatus, CoreTypeOK, Others
    <2>. QED
      BY <1>6, <2>2, <2>3, <2>4, <2>5 DEF Flagging
  <1>. QED
    BY <1>3, <1>4, <1>5, <1>6

LEMMA InitType == CoreInit => CoreTypeOK
  <1>1. 0 \in Bytes
    BY ByteType DEF Bytes
  <1>2. NoWide \in WideTypes
    BY DEF NoWide, WideTypes
  <1>3. 0 \in 0 .. 1
    OBVIOUS
  <1>4. CoreInit => index \in [IndexRegs -> Bytes]
    BY <1>1 DEF CoreInit
  <1>. QED
    BY <1>1, <1>2, <1>3, <1>4 DEF CoreInit, CoreTypeOK, Others

LEMMA StepType == CoreTypeOK /\ [CoreNext]_coreVars => CoreTypeOK'
  <1>1. CASE CoreNext
    BY <1>1, ArithmeticType, OtherType DEF CoreNext
  <1>2. CASE UNCHANGED coreVars
    BY <1>2 DEF CoreTypeOK, coreVars, flags
  <1>. QED
    BY <1>1, <1>2

(* Registers stay bytes and flags bits, whatever the program computes.     *)
THEOREM RegistersAreBytes == CoreSpec => []CoreTypeOK
  BY InitType, StepType, PTL DEF CoreSpec

-----------------------------------------------------------------------------
(***************************************************************************)
(* Numbers of several bytes.                                               *)
(***************************************************************************)
(* One more byte, above or below, makes one byte more.                     *)
LEMMA Fits ==
  ASSUME NEW u \in Nat, NEW d \in 0 .. u - 1, NEW r \in Bytes
  PROVE  /\ d + u * r \in 0 .. u * Byte - 1
         /\ d * Byte + r \in 0 .. u * Byte - 1
  <1>1. r \in Int /\ 0 <= r /\ r <= Byte - 1 /\ Byte \in Int /\ Byte >= 4
    BY ByteIsInt, ByteType
  <1>2. u * r \in Int /\ 0 <= u * r /\ u * r <= u * (Byte - 1)
    BY <1>1
  <1>3. u * (Byte - 1) = u * Byte - u /\ u * Byte \in Int
    BY <1>1
  <1>4. d + u * r \in 0 .. u * Byte - 1
    BY <1>2, <1>3
  <1>5. d * Byte \in Int /\ 0 <= d * Byte /\ d * Byte <= (u - 1) * Byte
    BY <1>1
  <1>6. (u - 1) * Byte = u * Byte - Byte
    BY <1>1
  <1>7. d * Byte + r \in 0 .. u * Byte - 1
    BY <1>1, <1>3, <1>5, <1>6
  <1>. QED
    BY <1>4, <1>7

(* The bytes below do not change the sign of the bytes above.              *)
LEMMA SignAbove ==
  ASSUME NEW u \in Nat, NEW d \in 0 .. u - 1, NEW s \in Int
  PROVE  d + u * s < 0 <=> s < 0
  <1>1. CASE s >= 0
    <2>1. u * s \in Int /\ u * s >= 0
      BY <1>1
    <2>. QED
      BY <1>1, <2>1
  <1>2. CASE s < 0
    <2>1. u * s \in Int /\ u * s <= u * (-1)
      BY <1>2
    <2>. QED
      BY <1>2, <2>1
  <1>. QED
    BY <1>1, <1>2

(* What an operation goes on with agrees with the carry into it.           *)
LEMMA ContinuedAgrees ==
  ASSUME CoreTypeOK, WideArithmetic
  PROVE  /\ \A kind \in {"add", "left"} :
              LET w == Continued({kind}, c) IN
              w.done \in 0 .. w.unit - 1 /\ w.done + w.unit * c = w.exact
         /\ LET w == Continued({"sub", "cmp"}, c - 1) IN
              w.done \in 0 .. w.unit - 1 /\ w.done + w.unit * (c - 1) = w.exact
         /\ LET w == Continued({"right"}, c) IN
              w.done \in 0 .. w.unit - 1 /\ 2 * w.done + c = w.exact
  <1>1. c \in Int /\ c - 1 \in Int
    BY DEF CoreTypeOK
  <1>2. \A e \in Int : LET w == [NoWide EXCEPT !.exact = e] IN
          w.done = 0 /\ w.unit = 1 /\ w.exact = e
    BY DEF NoWide
  <1>3. wide.unit \in Nat /\ wide.done \in Int /\ wide.exact \in Int
    BY DEF CoreTypeOK, WideTypes
  <1>4. wide.unit * (c - 1) = -(wide.unit * (1 - c)) /\ wide.unit * (1 - c) \in Int
    BY <1>1, <1>3
  <1>. QED
    BY <1>1, <1>2, <1>3, <1>4 DEF Continued, WideArithmetic, Agrees

\* w is exact but for a carry k; r and a carry l are a byte x and a carry k.
Carrying(w, k) ==
  w.done \in 0 .. w.unit - 1 /\ w.done + w.unit * k = w.exact
Splits(x, k, r, l) == r + Byte * l = x + k

(* A number with one more byte r and a carry l out of it is the exact      *)
(* result of one more byte x and a carry k into it.                        *)
LEMMA HigherAgrees ==
  ASSUME NEW kind \in {"add", "left", "sub", "cmp"}, NEW w \in WideTypes, NEW x \in Int, NEW signed \in Int,
         NEW r \in Bytes, NEW k \in Int, NEW l \in Int,
         Carrying(w, k), Splits(x, k, r, l)
  PROVE  LET h == Higher(kind, w, x, signed, r) IN
         /\ h.kind = kind
         /\ h \in WideTypes
         /\ Carrying(h, l)
         /\ h.signed < 0 <=> signed + k < 0
  <1> DEFINE h == Higher(kind, w, x, signed, r)
  <1>1. PICK u \in Nat, d \in Int, e \in Int :
          /\ u = w.unit /\ d = w.done /\ e = w.exact
          /\ d \in 0 .. u - 1 /\ d + u * k = e
    BY DEF WideTypes, Carrying
  <1>2. /\ h.kind = kind /\ h.unit = u * Byte /\ h.exact = e + u * x
        /\ h.done = d + u * r /\ h.signed = e + u * signed
    BY <1>1 DEF Higher
  <1>3. r \in Int /\ Byte \in Nat /\ u \in Int
    BY ByteIsInt, ByteType
  <1>4. d + u * r \in 0 .. u * Byte - 1
    BY <1>1, Fits
  <1>5. (d + u * r) + (u * Byte) * l = e + u * x
    <2>1. /\ u * (r + Byte * l) = u * r + (u * Byte) * l
          /\ u * (x + k) = u * x + u * k
      BY <1>3
    <2>2. u * r + (u * Byte) * l = u * x + u * k
      BY <2>1 DEF Splits
    <2>3. u * r \in Int /\ (u * Byte) * l \in Int /\ u * x \in Int /\ u * k \in Int
      BY <1>3
    <2>4. PICK p \in Int, q \in Int, i \in Int, j \in Int :
            p = u * r /\ q = (u * Byte) * l /\ i = u * x /\ j = u * k
      BY <2>3
    <2>5. p + q = i + j /\ d + j = e
      BY <1>1, <2>2, <2>4
    <2>6. (d + p) + q = e + i
      BY <1>1, <2>5
    <2>. QED
      BY <2>4, <2>6
  <1>6. e + u * signed < 0 <=> signed + k < 0
    <2>1. u * (signed + k) = u * signed + u * k
      BY <1>3
    <2>2. u * signed \in Int /\ u * k \in Int
      BY <1>3
    <2>3. e + u * signed = d + u * (signed + k)
      BY <1>1, <2>1, <2>2
    <2>4. signed + k \in Int /\ d \in 0 .. u - 1
      BY <1>1
    <2>. QED
      BY <2>3, <2>4, SignAbove
  <1>7. h \in WideTypes
    BY <1>3, HigherType
  <1>. QED
    BY <1>2, <1>4, <1>5, <1>6, <1>7 DEF Carrying

(* One byte of an addition.                                                *)
LEMMA AdcStep ==
  ASSUME CoreTypeOK, WideArithmetic, Adc
  PROVE  /\ wide'.kind = "add"
         /\ Agrees(wide', c')
         /\ (n' # v') <=> wide'.signed < 0
  <1> DEFINE w == Continued({"add"}, c)
  <1>0. a \in Bytes /\ c \in 0 .. 1 /\ c \in Int
    BY DEF CoreTypeOK
  <1>1. PICK val \in Bytes :
          /\ c' = AsBit(CarryOut(val)) /\ v' = AddOverflows(val)
          /\ n' = (Sum2(val) >= Half)
          /\ wide' = Higher("add", w, a + val, Signed(a) + Signed(val), Sum2(val))
    BY DEF Adc, SetNZ
  <1>2. w \in WideTypes /\ Carrying(w, c)
    BY <1>0, ContinuedType, ContinuedAgrees DEF Carrying
  <1>3. Sum2(val) \in Bytes /\ c' \in Int /\ Splits(a + val, c, Sum2(val), c')
    <2>1. CASE CarryOut(val)
      BY <1>0, <1>1, <2>1, AdcExact, ByteIsInt, ByteType DEF AsBit, Splits
    <2>2. CASE ~CarryOut(val)
      BY <1>0, <1>1, <2>2, AdcExact, ByteIsInt, ByteType DEF AsBit, Splits
    <2>. QED
      BY <2>1, <2>2
  <1>4. a + val \in Int /\ Signed(a) + Signed(val) \in Int
    BY <1>0, ByteIsInt
  <1> HIDE DEF w
  <1>5. /\ wide'.kind = "add" /\ Carrying(wide', c')
        /\ wide'.signed < 0 <=> Signed(a) + Signed(val) + c < 0
    BY <1>0, <1>1, <1>2, <1>3, <1>4, HigherAgrees
  <1>6. (n' # v') <=> Signed(a) + Signed(val) + c < 0
    BY <1>0, <1>1, AdcSigned
  <1>. QED
    BY <1>5, <1>6 DEF Agrees, Carrying

(* One byte of a subtraction.                                              *)
LEMMA SbcStep ==
  ASSUME CoreTypeOK, WideArithmetic, Sbc
  PROVE  /\ wide'.kind = "sub"
         /\ Agrees(wide', c')
         /\ (n' # v') <=> wide'.signed < 0
  <1> DEFINE w == Continued({"sub", "cmp"}, c - 1)
  <1>0. a \in Bytes /\ c \in 0 .. 1 /\ c - 1 \in Int
    BY DEF CoreTypeOK
  <1>1. PICK val \in Bytes :
          /\ c' = AsBit(~Borrow(val)) /\ v' = SubOverflows(val)
          /\ n' = (Difference2(val) >= Half)
          /\ wide' = Higher("sub", w, a - val, Signed(a) - Signed(val), Difference2(val))
    BY DEF Sbc, SetNZ
  <1>2. w \in WideTypes /\ Carrying(w, c - 1)
    BY <1>0, ContinuedType, ContinuedAgrees DEF Carrying
  <1>3. /\ Difference2(val) \in Bytes /\ c' \in Int /\ c' - 1 \in Int
        /\ Splits(a - val, c - 1, Difference2(val), c' - 1)
    <2>1. CASE Borrow(val)
      BY <1>0, <1>1, <2>1, SbcExact, ByteIsInt, ByteType DEF AsBit, Splits
    <2>2. CASE ~Borrow(val)
      BY <1>0, <1>1, <2>2, SbcExact, ByteIsInt, ByteType DEF AsBit, Splits
    <2>. QED
      BY <2>1, <2>2
  <1>4. a - val \in Int /\ Signed(a) - Signed(val) \in Int
    BY <1>0, ByteIsInt
  <1> HIDE DEF w
  <1>5. /\ wide'.kind = "sub" /\ wide' \in WideTypes /\ Carrying(wide', c' - 1)
        /\ wide'.signed < 0 <=> Signed(a) - Signed(val) + (c - 1) < 0
    BY <1>0, <1>1, <1>2, <1>3, <1>4, HigherAgrees
  <1>6. (n' # v') <=> Signed(a) - Signed(val) - (1 - c) < 0
    BY <1>0, <1>1, SbcSigned
  <1>7. wide'.done - wide'.unit * (1 - c') = wide'.exact
    <2>1. PICK u \in Int, d \in Int, k \in Int :
            u = wide'.unit /\ d = wide'.done /\ k = c' /\ d + u * (k - 1) = wide'.exact
      BY <1>3, <1>5 DEF Carrying, WideTypes
    <2>2. d + u * (k - 1) = d - u * (1 - k)
      OBVIOUS
    <2>. QED
      BY <2>1, <2>2
  <1>8. (n' # v') <=> wide'.signed < 0
    BY <1>0, <1>4, <1>5, <1>6
  <1>. QED
    BY <1>5, <1>7, <1>8 DEF Agrees, Carrying

(* A comparison is a subtraction of one byte whose result is dropped.      *)
LEMMA CompareStep ==
  ASSUME NEW register \in Bytes, CompareRegister(register)
  PROVE  /\ wide'.kind = "cmp"
         /\ Agrees(wide', c')
         /\ z' <=> wide'.exact = 0
  <1>1. PICK val \in Bytes :
          /\ c' = AsBit(Wrapped(register - val) = 0 \/ register >= val)
          /\ z' = (Wrapped(register - val) = 0)
          /\ wide' = Higher("cmp", NoWide, register - val,
                            Signed(register) - Signed(val), Wrapped(register - val))
    BY DEF CompareRegister, SetNZ
  <1>2. /\ register - val \in Int /\ register \in Int /\ val \in Int /\ Byte \in Int
        /\ Wrapped(register - val) \in Bytes /\ Wrapped(register - val) \in Int
        /\ register >= val => Wrapped(register - val) = register - val
        /\ register < val => Wrapped(register - val) = register - val + Byte
    BY ByteIsInt, ByteType, ByteWraps
  <1>3. /\ wide'.kind = "cmp" /\ wide'.unit = Byte
        /\ wide'.exact = register - val /\ wide'.done = Wrapped(register - val)
    BY <1>1, <1>2 DEF Higher, NoWide
  <1>4. CASE register >= val
    <2>1. c' = 1
      BY <1>1, <1>4 DEF AsBit
    <2>2. Wrapped(register - val) \in 0 .. Byte - 1 /\ Byte * (1 - c') = 0
      BY <1>2, <2>1 DEF Bytes
    <2>3. Agrees(wide', c')
      BY <1>2, <1>3, <1>4, <2>2 DEF Agrees
    <2>. QED
      BY <1>1, <1>2, <1>3, <1>4, <2>3
  <1>5. CASE register < val
    <2>1. Wrapped(register - val) > 0
      BY <1>2, <1>5, ByteIsInt, ByteType
    <2>2. c' = 0
      BY <1>1, <1>2, <1>5, <2>1 DEF AsBit
    <2>3. Wrapped(register - val) \in 0 .. Byte - 1 /\ Byte * (1 - c') = Byte
      BY <1>2, <2>2 DEF Bytes
    <2>4. Agrees(wide', c')
      BY <1>2, <1>3, <1>5, <2>3 DEF Agrees
    <2>5. register - val # 0 /\ Wrapped(register - val) # 0
      BY <1>2, <1>5, <2>1
    <2>. QED
      BY <1>1, <1>3, <2>4, <2>5
  <1>. QED
    BY <1>2, <1>4, <1>5

(* One byte of a shift to the left.                                        *)
LEMMA LeftStep ==
  ASSUME CoreTypeOK, WideArithmetic, Asl \/ Rol
  PROVE  wide'.kind = "left" /\ Agrees(wide', c')
  <1>0. c \in 0 .. 1
    BY DEF CoreTypeOK
  <1>1. PICK val \in Bytes, k \in 0 .. 1, w \in WideTypes :
          /\ c' = TopBit(val)
          /\ Carrying(w, k)
          /\ wide' = Higher("left", w, 2 * val, 0, Wrapped(2 * val) + k)
    <2>1. CASE Asl
      <3>1. NoWide \in WideTypes /\ Carrying(NoWide, 0)
        BY DEF NoWide, WideTypes, Carrying
      <3>2. PICK val \in Bytes :
              c' = TopBit(val) /\ wide' = Higher("left", NoWide, 2 * val, 0, Wrapped(2 * val))
        BY <2>1 DEF Asl
      <3>3. Wrapped(2 * val) = Wrapped(2 * val) + 0
        BY ShiftType, ByteIsInt, <1>0
      <3>. QED
        BY <3>1, <3>2, <3>3
    <2>2. CASE Rol
      <3>1. Continued({"left"}, c) \in WideTypes /\ Carrying(Continued({"left"}, c), c)
        BY <1>0, ContinuedType, ContinuedAgrees DEF Carrying
      <3>. QED
        BY <1>0, <2>2, <3>1 DEF Rol
    <2>. QED
      BY <2>1, <2>2
  <1>2. /\ 2 * val \in Int /\ val \in Int /\ Wrapped(2 * val) + k \in Bytes /\ c' \in Int
        /\ Splits(2 * val, k, Wrapped(2 * val) + k, c')
    <2>1. /\ val \in Int /\ 2 * val \in Int /\ -Byte <= 2 * val /\ 2 * val < 2 * Byte
          /\ (val >= Half <=> 2 * val >= Byte)
      BY ByteType DEF Bytes
    <2>2. /\ Wrapped(2 * val) \in Int
          /\ val >= Half => Wrapped(2 * val) = 2 * val - Byte
          /\ val < Half => Wrapped(2 * val) = 2 * val
      BY <2>1, ByteWraps, ByteType DEF Bytes
    <2>3. Wrapped(2 * val) + k \in Bytes
      BY <2>1, <2>2, ByteType DEF Bytes
    <2>4. c' = IF val >= Half THEN 1 ELSE 0
      BY <1>1 DEF TopBit, AsBit
    <2>. QED
      BY <2>1, <2>2, <2>3, <2>4, ByteType DEF Splits
  <1>3. PICK l \in Int : l = c'
    BY <1>2
  <1>4. PICK x \in Int : x = 2 * val
    BY <1>2
  <1>5. PICK r \in Bytes : r = Wrapped(2 * val) + k
    BY <1>2
  <1>6. PICK s \in Int : s = 0
    OBVIOUS
  <1>7. wide' = Higher("left", w, x, s, r)
    BY <1>1, <1>4, <1>5, <1>6
  <1>8. Splits(x, k, r, l) /\ Carrying(w, k) /\ k \in Int
    BY <1>1, <1>2, <1>3, <1>4, <1>5
  <1>9. wide'.kind = "left" /\ Carrying(wide', l)
    BY <1>7, <1>8, HigherAgrees
  <1>. QED
    BY <1>3, <1>9 DEF Agrees, Carrying

\* w is exact but for the bit k that left it; the byte x with the bit k above
\* it is the byte r with the bit l below it.
Halved(w, k) == w.done \in 0 .. w.unit - 1 /\ 2 * w.done + k = w.exact
SplitsBelow(x, k, r, l) == 2 * r + l = Byte * k + x

(* A number with one more byte below it is still exact but for a bit.      *)
LEMMA LowerAgrees ==
  ASSUME NEW w \in WideTypes, NEW x \in Int, NEW r \in Bytes,
         NEW k \in Int, NEW l \in Int,
         Halved(w, k), SplitsBelow(x, k, r, l)
  PROVE  LET h == Lower(w, x, r) IN h.kind = "right" /\ Halved(h, l)
  <1>1. PICK u \in Nat, d \in Int, e \in Int :
          /\ u = w.unit /\ d = w.done /\ e = w.exact
          /\ d \in 0 .. u - 1 /\ 2 * d + k = e
    BY DEF WideTypes, Halved
  <1>2. r \in Int /\ Byte \in Nat
    BY ByteIsInt, ByteType
  <1>3. d * Byte + r \in 0 .. u * Byte - 1
    BY <1>1, Fits
  <1>4. 2 * (d * Byte + r) + l = e * Byte + x
    <2>1. PICK p \in Int, q \in Int : p = d * Byte /\ q = Byte * k
      BY <1>2
    <2>2. (2 * d + k) * Byte = 2 * (d * Byte) + Byte * k
      BY <1>2
    <2>3. e * Byte = 2 * p + q
      BY <1>1, <2>1, <2>2
    <2>4. 2 * r + l = q + x
      BY <2>1 DEF SplitsBelow
    <2>5. 2 * (p + r) + l = (2 * p + q) + x
      BY <1>2, <2>4
    <2>. QED
      BY <2>1, <2>3, <2>5
  <1>. QED
    BY <1>1, <1>3, <1>4 DEF Lower, Halved

(* One byte of a shift to the right.                                       *)
LEMMA RightStep ==
  ASSUME CoreTypeOK, WideArithmetic, Lsr \/ Ror
  PROVE  wide'.kind = "right" /\ Agrees(wide', c')
  <1>0. c \in 0 .. 1
    BY DEF CoreTypeOK
  <1>1. PICK val \in Bytes, k \in 0 .. 1, w \in WideTypes :
          /\ c' = LowBit(val)
          /\ Halved(w, k)
          /\ wide' = Lower(w, val, val \div 2 + Half * k)
    <2>1. CASE Lsr
      <3>1. NoWide \in WideTypes /\ Halved(NoWide, 0)
        BY DEF NoWide, WideTypes, Halved
      <3>2. PICK val \in Bytes :
              c' = LowBit(val) /\ wide' = Lower(NoWide, val, val \div 2)
        BY <2>1 DEF Lsr
      <3>3. val \div 2 = val \div 2 + Half * 0
        BY ByteType, ByteIsInt
      <3>. QED
        BY <3>1, <3>2, <3>3
    <2>2. CASE Ror
      <3>1. Continued({"right"}, c) \in WideTypes /\ Halved(Continued({"right"}, c), c)
        BY <1>0, ContinuedType, ContinuedAgrees DEF Halved
      <3>. QED
        BY <1>0, <2>2, <3>1 DEF Ror
    <2>. QED
      BY <2>1, <2>2
  <1>2. /\ val \in Int /\ val \div 2 + Half * k \in Bytes /\ c' \in Int /\ k \in Int
        /\ SplitsBelow(val, k, val \div 2 + Half * k, c')
    <2>1. PICK half \in Int, bit \in 0 .. 1 :
            half = val \div 2 /\ bit = LowBit(val) /\ val = 2 * half + bit
      BY ByteIsInt DEF LowBit
    <2>2. val \in Int /\ 0 <= val /\ val <= Byte - 1
      BY ByteIsInt, ByteType DEF Bytes
    <2>3. c' = bit
      BY <1>1, <2>1
    <2>4. PICK t \in Int, b \in Int :
            t = Half * k /\ b = Byte * k /\ b = t + t /\ t \in {0, Half}
      <3>1. CASE k = 0
        BY <3>1, ByteType
      <3>2. CASE k = 1
        BY <3>2, ByteType
      <3>. QED
        BY <3>1, <3>2
    <2>5. half + t \in Bytes
      BY <2>1, <2>2, <2>4, ByteType DEF Bytes
    <2>6. 2 * (half + t) + bit = b + val
      BY <2>1, <2>2, <2>4
    <2>7. SplitsBelow(val, k, half + t, bit)
      BY <2>4, <2>6 DEF SplitsBelow
    <2>8. val \div 2 + Half * k = half + t /\ k \in Int /\ bit \in Int
      BY <2>1, <2>4
    <2>. QED
      BY <2>2, <2>3, <2>5, <2>7, <2>8, Zenon
  <1>3. PICK l \in Int : l = c'
    BY <1>2
  <1>4. PICK r \in Bytes : r = val \div 2 + Half * k
    BY <1>2
  <1>5. wide' = Lower(w, val, r) /\ Halved(w, k) /\ SplitsBelow(val, k, r, l)
    BY <1>1, <1>2, <1>3, <1>4
  <1>6. wide'.kind = "right" /\ Halved(wide', l)
    BY <1>2, <1>5, LowerAgrees
  <1>. QED
    BY <1>3, <1>6 DEF Agrees, Halved

(* The other instructions leave the number and the carry alone, or give    *)
(* the number up.                                                          *)
LEMMA OtherKeeps ==
  ASSUME Logical \/ Counting \/ Moving \/ Flagging
  PROVE  (wide' = wide /\ c' = c) \/ wide' = NoWide
  <1>1. CASE Logical
    BY <1>1 DEF Logical, And, Ora, Eor, Bit, AccumulatorGets, OnlyNZ
  <1>2. CASE Counting
    BY <1>2 DEF Counting, Inc, Dec, IncIndex, DecIndex, IndexBecomes, OnlyNZ
  <1>3. CASE Moving
    BY <1>3 DEF Moving, Lda, Pla, LoadIndex, TransferA, TransferIndex,
                AccumulatorGets, IndexBecomes, OnlyNZ
  <1>4. CASE Flagging
    BY <1>4 DEF Flagging, Clc, Sec, Clv, Cld, Sed, ClearMask, SetMask, PullStatus,
                SetCarry, SetOthers
  <1>. QED
    BY <1>1, <1>2, <1>3, <1>4

LEMMA NoWideAgrees == \A k : Agrees(NoWide, k)
  BY DEF Agrees, NoWide

(* The registers are bytes and the number agrees with the carry.           *)
Inv == CoreTypeOK /\ WideArithmetic

LEMMA ArithmeticAgrees ==
  ASSUME Inv, Arithmetic
  PROVE  Agrees(wide', c')
  <1>1. CASE Adc \/ Sbc
    BY <1>1, AdcStep, SbcStep DEF Inv
  <1>2. CASE Compare
    <2>1. a \in Bytes /\ \A r \in IndexRegs : index[r] \in Bytes
      BY DEF Inv, CoreTypeOK
    <2>. QED
      BY <1>2, <2>1, CompareStep DEF Compare
  <1>3. CASE Asl \/ Rol
    BY <1>3, LeftStep DEF Inv
  <1>4. CASE Lsr \/ Ror
    BY <1>4, RightStep DEF Inv
  <1>. QED
    BY <1>1, <1>2, <1>3, <1>4 DEF Arithmetic

LEMMA InvHolds == CoreSpec => []Inv
  <1>1. CoreInit => WideArithmetic
    BY NoWideAgrees DEF CoreInit, WideArithmetic
  <1>2. Inv /\ [CoreNext]_coreVars => WideArithmetic'
    <2>1. CASE UNCHANGED coreVars
      BY <2>1 DEF Inv, WideArithmetic, coreVars, flags
    <2>2. ASSUME Inv, Arithmetic PROVE WideArithmetic'
      BY <2>2, ArithmeticAgrees DEF WideArithmetic
    <2>3. ASSUME Inv, Logical \/ Counting \/ Moving \/ Flagging PROVE WideArithmetic'
      BY <2>3, OtherKeeps, NoWideAgrees DEF Inv, WideArithmetic
    <2>. QED
      BY <2>1, <2>2, <2>3 DEF CoreNext
  <1>3. CoreTypeOK /\ WideArithmetic <=> Inv
    BY DEF Inv
  <1>4. CoreTypeOK' /\ WideArithmetic' <=> Inv'
    BY DEF Inv
  <1>5. CoreInit => CoreTypeOK
    BY InitType
  <1>6. Inv /\ [CoreNext]_coreVars => CoreTypeOK'
    BY StepType DEF Inv
  <1>. QED
    BY <1>1, <1>2, <1>3, <1>4, <1>5, <1>6, PTL DEF CoreSpec

(* A program that adds, subtracts or shifts a number byte by byte gets the *)
(* exact result, for any number of bytes and whatever it does in between   *)
(* with instructions that leave the carry alone.                           *)
THEOREM NumbersAreExact == CoreSpec => []WideArithmetic
  <1>1. Inv => WideArithmetic
    BY DEF Inv
  <1>. QED
    BY <1>1, InvHolds, PTL

-----------------------------------------------------------------------------
(***************************************************************************)
(* Branches.                                                               *)
(***************************************************************************)
(* After an addition or a subtraction BMI and BVS together tell the sign   *)
(* of the exact result.                                                    *)
THEOREM SignIsExact == CoreSpec => SignedOrder
  <1>1. ASSUME Inv, [CoreNext]_coreVars,
               wide' # wide /\ wide'.kind \in {"add", "sub"}
        PROVE  (Taken("bmi")' # Taken("bvs")') <=> wide'.signed < 0
    <2>1. Taken("bmi")' = n' /\ Taken("bvs")' = v'
      BY DEF Taken
    <2>2. Adc \/ Sbc
      <3>1. ~(UNCHANGED coreVars)
        BY <1>1 DEF coreVars
      <3>2. ~(Logical \/ Counting \/ Moving \/ Flagging)
        BY <1>1, OtherKeeps DEF NoWide
      <3>3. Arithmetic
        BY <1>1, <3>1, <3>2 DEF CoreNext
      <3>. QED
        BY <1>1, <3>3 DEF Arithmetic, Compare, CompareRegister, Asl, Rol, Lsr, Ror,
                          Higher, Lower
    <2>. QED
      BY <1>1, <2>1, <2>2, AdcStep, SbcStep DEF Inv
  <1>. QED
    BY <1>1, InvHolds, PTL DEF CoreSpec, SignedOrder

(* After a subtraction or a comparison BCC tells which number is smaller,  *)
(* and after a comparison BEQ whether they are equal.                      *)
THEOREM OrderIsExact == CoreSpec => UnsignedOrder
  <1>1. ASSUME Inv, [CoreNext]_coreVars,
               wide' # wide /\ wide'.kind \in {"sub", "cmp"}
        PROVE  /\ Taken("bcc")' <=> wide'.exact < 0
               /\ wide'.kind = "cmp" => (Taken("beq")' <=> wide'.exact = 0)
    <2>1. Taken("bcc")' = (c' = 0) /\ Taken("beq")' = z'
      BY DEF Taken
    <2>2. Sbc \/ Compare
      <3>1. ~(UNCHANGED coreVars)
        BY <1>1 DEF coreVars
      <3>2. ~(Logical \/ Counting \/ Moving \/ Flagging)
        BY <1>1, OtherKeeps DEF NoWide
      <3>3. Arithmetic
        BY <1>1, <3>1, <3>2 DEF CoreNext
      <3>. QED
        BY <1>1, <3>3 DEF Arithmetic, Adc, Asl, Rol, Lsr, Ror, Higher, Lower
    <2>3. wide' \in WideTypes /\ c' \in 0 .. 1
      BY <1>1, StepType DEF Inv, CoreTypeOK
    <2>4. /\ wide'.done \in 0 .. wide'.unit - 1
          /\ wide'.done - wide'.unit * (1 - c') = wide'.exact
      BY <1>1, <2>2, ArithmeticAgrees DEF Agrees, Arithmetic
    <2>5. c' = 0 <=> wide'.exact < 0
      <3>1. PICK u \in Int, d \in Int, e \in Int :
              u = wide'.unit /\ d = wide'.done /\ e = wide'.exact
        BY <2>3 DEF WideTypes
      <3>2. CASE c' = 0
        <4>1. u * (1 - c') = u
          BY <3>2
        <4>. QED
          BY <2>4, <3>1, <3>2, <4>1
      <3>3. CASE c' = 1
        <4>1. u * (1 - c') = 0
          BY <3>3
        <4>. QED
          BY <2>4, <3>1, <3>3, <4>1
      <3>. QED
        BY <2>3, <3>2, <3>3
    <2>6. wide'.kind = "cmp" => (z' <=> wide'.exact = 0)
      <3>1. a \in Bytes /\ \A r \in IndexRegs : index[r] \in Bytes
        BY <1>1 DEF Inv, CoreTypeOK
      <3>2. Sbc => wide'.kind = "sub"
        BY <1>1, SbcStep DEF Inv
      <3>. QED
        BY <2>2, <3>1, <3>2, CompareStep DEF Compare
    <2>. QED
      BY <2>1, <2>5, <2>6
  <1>. QED
    BY <1>1, InvHolds, PTL DEF CoreSpec, UnsignedOrder

(* Both orders, as one property (the branches on N, V, C and Z after       *)
(* adc, sbc, cmp, cpx and cpy).                                            *)
THEOREM OrderDecided == CoreSpec => OrderExact
  BY SignIsExact, OrderIsExact DEF OrderExact

(* After the first PLP or RTI bit 5 of the flags stays set, so that they   *)
(* are not zero and BPL is taken whenever BMI is not.                      *)
THEOREM BranchesAreOpposites == CoreSpec => []OppositeBranches
  <1> DEFINE Five == returned => "five" \in others
  <1>1. CoreInit => Five
    BY DEF CoreInit
  <1>2. Five /\ [CoreNext]_coreVars => Five'
    <2>1. CASE UNCHANGED <<others, returned>>
      BY <2>1
    <2>2. CASE Cld \/ Sed \/ ClearMask \/ SetMask
      BY <2>2 DEF Cld, Sed, ClearMask, SetMask, SetOthers
    <2>3. CASE PullStatus
      BY <2>3 DEF PullStatus
    <2>4. CASE Arithmetic
      BY <2>1, <2>4 DEF Arithmetic, Adc, Sbc, Compare, CompareRegister, Asl, Rol,
                        Lsr, Ror, ShiftedBack
    <2>5. CASE Logical \/ Counting \/ Moving
      BY <2>1, <2>5 DEF Logical, And, Ora, Eor, Bit, Counting, Inc, Dec, IncIndex,
                        DecIndex, Moving, Lda, Pla, LoadIndex, TransferA,
                        TransferIndex, AccumulatorGets, IndexBecomes, OnlyNZ
    <2>6. CASE Clc \/ Sec \/ Clv
      BY <2>1, <2>6 DEF Clc, Sec, Clv, SetCarry
    <2>. QED
      BY <2>1, <2>2, <2>3, <2>4, <2>5, <2>6 DEF CoreNext, Flagging, coreVars, flags
  <1>3. CoreTypeOK /\ Five => OppositeBranches
    <2>1. Five /\ returned => ~NoFlags
      BY DEF NoFlags
    <2>2. CoreTypeOK => c \in 0 .. 1 /\ z \in BOOLEAN /\ n \in BOOLEAN /\ v \in BOOLEAN
      BY DEF CoreTypeOK
    <2>. QED
      BY <2>1, <2>2 DEF OppositeBranches, Opposites, Taken
  <1>. QED
    BY <1>1, <1>2, <1>3, RegistersAreBytes, PTL DEF CoreSpec

-----------------------------------------------------------------------------
(***************************************************************************)
(* The inductive invariant.  sp wraps, so what lies on the stack is        *)
(* measured from where sp started.                                         *)
(***************************************************************************)
Depth(s) == (InitialSp - s) % StackSize

\* The bytes that are pushed when a frame is opened.
Size(kind) == IF kind \in Handlers THEN 3 ELSE IF kind = "call" THEN 2 ELSE 1

\* Each frame begins where the one before it ends, and sp where the last does.
Chained ==
  /\ frames = <<>> => sp = InitialSp
  /\ frames # <<>> => sp = Below(Innermost.sp, Size(Innermost.kind)) /\ frames[1].sp = InitialSp
  /\ \A k \in 2 .. Len(frames) :
       frames[k].sp = Below(frames[k - 1].sp, Size(frames[k - 1].kind))

\* The frames lie one below the other, and all of them fit.
Apart ==
  /\ \A k \in 1 .. Len(frames) : Depth(frames[k].sp) <= 3 * (k - 1)
  /\ \A j, k \in 1 .. Len(frames) :
       j < k => Depth(frames[j].sp) + Size(frames[j].kind) <= Depth(frames[k].sp)

\* What was pushed for a frame is still there.
Saved(k) ==
  LET f == frames[k] IN
  /\ f.kind \in Handlers =>
       /\ stack[f.sp] = Hi(f.ret) /\ stack[Below(f.sp, 1)] = Lo(f.ret)
       /\ IOf(stack[Below(f.sp, 2)]) = f.i
  /\ f.kind = "call" =>
       \E at \in Pcs : /\ f.ret = After(at, 1)
                       /\ stack[f.sp] = Hi(at) /\ stack[Below(f.sp, 1)] = Lo(at)
  /\ f.kind = "php" => IOf(stack[f.sp]) = f.i

Kept == \A k \in 1 .. Len(frames) : Saved(k)

\* The innermost handler of those below frame k, if CLI was not executed in it
Uncleared(j, k) ==
  /\ frames[j].kind \in Handlers /\ ~frames[j].cleared
  /\ \A m \in j + 1 .. k - 1 : frames[m].kind \notin Handlers

(* The I flag is set under a handler that has not executed CLI, and so is  *)
(* every I flag that a frame opened under it will restore.                 *)
Masked ==
  /\ \A k \in 1 .. Len(frames) : \A j \in 1 .. k - 1 : Uncleared(j, k) => frames[k].i
  /\ \A j \in 1 .. Len(frames) : Uncleared(j, Len(frames) + 1) => iFlag

\* Where there is a handler below frame k, one of them is the innermost.
Latest ==
  \A k \in 1 .. Len(frames) + 1 : \A h \in 1 .. k - 1 :
    frames[h].kind \in Handlers =>
      \E j \in h .. k - 1 :
        /\ frames[j].kind \in Handlers
        /\ \A m \in j + 1 .. k - 1 : frames[m].kind \notin Handlers

\* The flags that delay an interrupt are set by certain instructions only.
Delays == (delayIrq => last = "unmask") /\ (delayNmi => last = "ctrl")

IInv == TypeOK /\ Chained /\ Apart /\ Kept /\ Masked /\ Latest /\ Delays

-----------------------------------------------------------------------------
(***************************************************************************)
(* Addresses and bytes.                                                    *)
(***************************************************************************)
LEMMA Multiples ==
  ASSUME NEW w \in Nat \ {0}, NEW d \in Int
  PROVE  (d >= 1 => w * d >= w) /\ (d <= -1 => w * d <= -w)
<1>1. CASE d >= 1
  <2>1. \A addr, b \in Nat : addr * b >= 0
    OBVIOUS
  <2>2. d - 1 \in Nat /\ w * (d - 1) = w * d - w
    BY <1>1
  <2>. QED
    BY <1>1, <2>1, <2>2
<1>2. CASE d <= -1
  <2>1. \A addr, b \in Nat : addr * b >= 0
    OBVIOUS
  <2>2. -1 - d \in Nat /\ w * (-1 - d) = -w - w * d
    BY <1>2
  <2>. QED
    BY <1>2, <2>1, <2>2
<1>. QED
  BY <1>1, <1>2

(* The quotient and the remainder are determined.                          *)
LEMMA Divides ==
  ASSUME NEW w \in Nat \ {0}, NEW x \in Int
  PROVE  /\ x \div w \in Int /\ x % w \in 0 .. w - 1
         /\ x = w * (x \div w) + (x % w)
<1>1. x \div w \in Int /\ x % w \in 0 .. w - 1
  OBVIOUS
<1>2. x = w * (x \div w) + (x % w)
  OBVIOUS
<1>. QED
  BY <1>1, <1>2

LEMMA Distributes ==
  ASSUME NEW w \in Int, NEW x \in Int, NEW y \in Int
  PROVE  w * (x - y) = w * x - w * y
OBVIOUS

LEMMA Remainder ==
  ASSUME NEW w \in Nat \ {0}, NEW q \in Int, NEW r \in 0 .. w - 1
  PROVE  (w * q + r) % w = r
<1>. DEFINE x == w * q + r
            d == q - (x \div w)
<1>1. x \in Int
  OBVIOUS
<1>2. x \div w \in Int /\ x % w \in 0 .. w - 1 /\ x = w * (x \div w) + (x % w)
  BY <1>1, Divides
<1>3. d \in Int /\ w * d = w * q - w * (x \div w)
  BY <1>2, Distributes
<1>4. w * d = (x % w) - r
  BY <1>2, <1>3
<1>. HIDE DEF d
<1>5. d = 0
  <2>1. w * d < w /\ -w < w * d
    BY <1>2, <1>4
  <2>. QED
    BY <1>3, <2>1, Multiples
<1>6. w * d = 0
  BY <1>5
<1>. QED
  BY <1>4, <1>6

LEMMA DepthIsWrapped ==
  ASSUME NEW w \in Nat \ {0}, NEW x \in Int
  PROVE  /\ 0 <= x /\ x < w => x % w = x
         /\ -w <= x /\ x < 0 => x % w = x + w
         /\ w <= x /\ x < 2 * w => x % w = x - w
<1>1. ASSUME 0 <= x, x < w PROVE x % w = x
  <2>1. x \in 0 .. w - 1 /\ w * 0 + x = x /\ 0 \in Int
    BY <1>1
  <2>. QED
    BY <2>1, Remainder
<1>2. ASSUME -w <= x, x < 0 PROVE x % w = x + w
  <2>1. x + w \in 0 .. w - 1 /\ w * (-1) + (x + w) = x /\ -1 \in Int
    BY <1>2
  <2>. QED
    BY <2>1, Remainder
<1>3. ASSUME w <= x, x < 2 * w PROVE x % w = x - w
  <2>1. x - w \in 0 .. w - 1 /\ w * 1 + (x - w) = x /\ 1 \in Int
    BY <1>3
  <2>. QED
    BY <2>1, Remainder
<1>. QED
  BY <1>1, <1>2, <1>3

LEMMA StackBasics ==
  /\ StackSize \in Nat \ {0} /\ StackSize >= 1 /\ 3 * MaxOpen <= StackSize /\ MaxOpen \in Nat
  /\ Sps = 0 .. StackSize - 1
  /\ InitialSp \in Sps
BY InterruptsAssumption, Divides DEF Sps, InitialSp

LEMMA SpWrapped ==
  ASSUME NEW x \in Int
  PROVE  /\ 0 <= x /\ x < StackSize => x % StackSize = x
         /\ -StackSize <= x /\ x < 0 => x % StackSize = x + StackSize
         /\ StackSize <= x /\ x < 2 * StackSize => x % StackSize = x - StackSize
BY StackBasics, DepthIsWrapped

LEMMA BelowValue ==
  ASSUME NEW s \in Sps, NEW w \in 0 .. StackSize
  PROVE  Below(s, w) = IF w <= s THEN s - w ELSE s - w + StackSize
<1>. DEFINE x == s - w
<1>1. x \in Int /\ -StackSize <= x /\ x < StackSize /\ (w <= s <=> 0 <= x)
  BY StackBasics
<1>2. Below(s, w) = x % StackSize
  BY DEF Below
<1>. HIDE DEF x
<1>3. Below(s, w) = IF 0 <= x THEN x ELSE x + StackSize
  BY <1>1, <1>2, SpWrapped
<1>. QED
  BY <1>1, <1>3 DEF x

LEMMA AboveValue ==
  ASSUME NEW s \in Sps, NEW w \in 0 .. StackSize
  PROVE  Above(s, w) = IF s + w < StackSize THEN s + w ELSE s + w - StackSize
<1>. DEFINE x == s + w
<1>1. x \in Int /\ 0 <= x /\ x < 2 * StackSize
  BY StackBasics
<1>2. Above(s, w) = x % StackSize
  BY DEF Above
<1>. HIDE DEF x
<1>3. /\ x < StackSize => x % StackSize = x
      /\ StackSize <= x => x % StackSize = x - StackSize
  BY <1>1, SpWrapped
<1>4. StackSize \in Int /\ s \in Int
  BY StackBasics
<1>5. Above(s, w) = IF x < StackSize THEN x ELSE x - StackSize
  BY <1>1, <1>2, <1>3, <1>4
<1>. QED
  BY <1>4, <1>5 DEF x

LEMMA DepthValue ==
  ASSUME NEW s \in Sps
  PROVE  Depth(s) = IF s <= InitialSp THEN InitialSp - s ELSE InitialSp - s + StackSize
<1>. DEFINE x == InitialSp - s
<1>1. x \in Int /\ -StackSize <= x /\ x < StackSize /\ (s <= InitialSp <=> 0 <= x)
  BY StackBasics
<1>2. Depth(s) = x % StackSize
  BY DEF Depth
<1>. HIDE DEF x
<1>3. Depth(s) = IF 0 <= x THEN x ELSE x + StackSize
  BY <1>1, <1>2, SpWrapped
<1>. QED
  BY <1>1, <1>3 DEF x

(* Going down by w and up again by m.                                      *)
LEMMA UpAgain ==
  ASSUME NEW s \in Sps, NEW w \in 0 .. StackSize, NEW m \in 0 .. w
  PROVE  /\ Below(s, w) \in Sps
         /\ Above(Below(s, w), m) = Below(s, w - m)
         /\ Below(s, 0) = s
<1>1. StackSize \in Nat /\ s \in 0 .. StackSize - 1 /\ Sps = 0 .. StackSize - 1
  BY StackBasics
<1>2. /\ Below(s, w) = IF w <= s THEN s - w ELSE s - w + StackSize
      /\ w - m \in 0 .. StackSize /\ m \in 0 .. StackSize /\ 0 \in 0 .. StackSize
  BY <1>1, BelowValue
<1>3. Below(s, w) \in Sps
  BY <1>1, <1>2
<1>. DEFINE b == Below(s, w)
<1>4. Above(b, m) = IF b + m < StackSize THEN b + m ELSE b + m - StackSize
  BY <1>2, <1>3, AboveValue
<1>5. Below(s, w - m) = IF w - m <= s THEN s - (w - m) ELSE s - (w - m) + StackSize
  BY <1>2, BelowValue
<1>6. Below(s, 0) = IF 0 <= s THEN s - 0 ELSE s - 0 + StackSize
  BY <1>2, BelowValue
<1>. QED
  BY <1>1, <1>2, <1>3, <1>4, <1>5, <1>6

(* As long as there is room, depth grows by what is pushed.                *)
LEMMA Deeper ==
  ASSUME NEW s \in Sps, NEW w \in 0 .. StackSize, Depth(s) + w < StackSize
  PROVE  Below(s, w) \in Sps /\ Depth(Below(s, w)) = Depth(s) + w
<1>1. StackSize \in Nat /\ s \in 0 .. StackSize - 1 /\ Sps = 0 .. StackSize - 1
      /\ InitialSp \in 0 .. StackSize - 1
  BY StackBasics
<1>. DEFINE b == Below(s, w)
<1>2. b = IF w <= s THEN s - w ELSE s - w + StackSize
  BY BelowValue
<1>3. b \in Sps
  BY <1>1, <1>2
<1>. HIDE DEF b
<1>4. Depth(b) = IF b <= InitialSp THEN InitialSp - b ELSE InitialSp - b + StackSize
  BY <1>3, DepthValue
<1>5. Depth(s) = IF s <= InitialSp THEN InitialSp - s ELSE InitialSp - s + StackSize
  BY DepthValue
<1>6. Depth(b) = Depth(s) + w
  BY <1>1, <1>2, <1>4, <1>5
<1>. QED
  BY <1>3, <1>6 DEF b

LEMMA DepthType == \A s \in Sps : Depth(s) \in 0 .. StackSize - 1
BY StackBasics, Divides DEF Depth

(* Subroutines: RTS goes on one byte after the address that was pushed.    *)
LEMMA AddressBasics ==
  /\ PageSize * Pages \in Nat \ {0} /\ PageSize \in Nat \ {0}
  /\ Pcs = 0 .. PageSize * Pages - 1
<1>1. \A addr, b \in Nat \ {0} : addr * b \in Nat \ {0}
  OBVIOUS
<1>. QED
  BY <1>1, InterruptsAssumption DEF Pcs

LEMMA AfterAfter ==
  ASSUME NEW addr \in Pcs
  PROVE  After(After(addr, 2), 1) = After(addr, 3)
<1>. DEFINE w == PageSize * Pages
            x == addr + 2
            r == x % w
            q == x \div w
<1>1. w \in Nat \ {0} /\ x \in Int /\ x + 1 = addr + 3
  BY AddressBasics
<1>0. After(addr, 3) = (x + 1) % w /\ After(After(addr, 2), 1) = (r + 1) % w
  BY <1>1 DEF After
<1>. HIDE DEF w, x
<1>2. q \in Int /\ r \in 0 .. w - 1 /\ x = w * q + r
  BY <1>1, Divides
<1>. HIDE DEF q, r
<1>3. x + 1 = w * q + (r + 1)
  BY <1>1, <1>2
<1>4. CASE r + 1 < w
  <2>1. r + 1 \in 0 .. w - 1
    BY <1>1, <1>2, <1>4
  <2>2. (x + 1) % w = r + 1
    <3>1. (w * q + (r + 1)) % w = r + 1
      BY <1>1, <1>2, <2>1, Remainder
    <3>. QED
      BY <1>3, <3>1
  <2>3. (r + 1) % w = r + 1
    <3>1. w * 0 + (r + 1) = r + 1 /\ 0 \in Int
      BY <1>1, <1>2
    <3>2. (w * 0 + (r + 1)) % w = r + 1
      BY <1>1, <2>1, Remainder
    <3>. QED
      BY <3>1, <3>2
  <2>. QED
    BY <1>0, <2>2, <2>3
<1>5. CASE r + 1 = w
  <2>1. w * (q + 1) = w * q + w
    BY <1>1, <1>2
  <2>2. x + 1 = w * (q + 1) + 0 /\ 0 \in 0 .. w - 1 /\ q + 1 \in Int
    BY <1>1, <1>2, <1>3, <1>5, <2>1
  <2>3. (w * (q + 1) + 0) % w = 0
    BY <1>1, <2>2, Remainder
  <2>4. (r + 1) % w = 0
    <3>1. w \in Int /\ w <= w /\ w < 2 * w /\ w - w = 0
      BY <1>1
    <3>2. w % w = 0
      BY <1>1, <3>1, DepthIsWrapped
    <3>. QED
      BY <1>5, <3>2
  <2>5. (x + 1) % w = (r + 1) % w
    BY <2>2, <2>3, <2>4
  <2>. QED
    BY <1>0, <2>5
<1>. QED
  BY <1>1, <1>2, <1>4, <1>5

LEMMA HiLo ==
  ASSUME NEW addr \in Pcs
  PROVE  /\ Hi(addr) \in Nat /\ Lo(addr) \in Nat
         /\ Address(Lo(addr), Hi(addr)) = addr
         /\ \A w \in Nat : After(addr, w) \in Pcs
<1>1. addr \in Nat
  BY AddressBasics
<1>2. Hi(addr) \in Int /\ Lo(addr) \in 0 .. PageSize - 1 /\ addr = PageSize * Hi(addr) + Lo(addr)
  <2>1. /\ addr \div PageSize \in Int /\ addr % PageSize \in 0 .. PageSize - 1
        /\ addr = PageSize * (addr \div PageSize) + (addr % PageSize)
    <3>1. addr \in Int /\ PageSize \in Nat \ {0}
      BY <1>1, AddressBasics
    <3>. QED
      BY <3>1, Divides, Zenon
  <2>. QED
    BY <2>1 DEF Hi, Lo
<1>3. Hi(addr) >= 0
  <2>1. Hi(addr) <= -1 => PageSize * Hi(addr) <= -PageSize
    BY <1>2, AddressBasics, Multiples
  <2>. QED
    BY <1>1, <1>2, <2>1, AddressBasics
<1>4. \A w \in Nat : After(addr, w) \in Pcs
  <2>. DEFINE w == PageSize * Pages
  <2>1. w \in Nat \ {0} /\ Pcs = 0 .. w - 1
    BY AddressBasics
  <2>. HIDE DEF w
  <2>2. \A x \in Int : x % w \in 0 .. w - 1
    BY <2>1, Divides
  <2>3. \A k \in Nat : (addr + k) % w \in 0 .. w - 1
    BY <1>1, <2>2
  <2>. QED
    BY <2>1, <2>3 DEF After, w
<1>. QED
  BY <1>2, <1>3, <1>4, AddressBasics DEF Address

LEMMA StatusKeepsI ==
  ASSUME NEW i \in BOOLEAN, NEW b \in BOOLEAN
  PROVE  StatusByte(i, b) \in Nat /\ IOf(StatusByte(i, b)) = i
BY DEF StatusByte, IOf

-----------------------------------------------------------------------------
(***************************************************************************)
(* Opening a frame.  There is room for it below those that are open, and   *)
(* what is pushed for it lies on none of their bytes.                      *)
(***************************************************************************)
LEMMA FrameType ==
  ASSUME TypeOK, NEW k \in 1 .. Len(frames)
  PROVE  /\ frames[k] \in Frames
         /\ frames[k].kind \in Kinds /\ frames[k].ret \in Pcs /\ frames[k].sp \in Sps
         /\ frames[k].i \in BOOLEAN /\ frames[k].cleared \in BOOLEAN
<1>1. frames[k] \in Frames
  BY DEF TypeOK
<1>. QED
  BY <1>1 DEF Frames

LEMMA SizeValue ==
  \A kind : /\ Size(kind) \in 1 .. 3
            /\ kind \in Handlers => Size(kind) = 3
            /\ kind = "call" => Size(kind) = 2
            /\ kind = "php" => Size(kind) = 1
BY DEF Size, Handlers

(* sp is below all frames.                                                 *)
LEMMA Room ==
  ASSUME TypeOK, Chained, Apart, Len(frames) < MaxOpen
  PROVE  /\ Depth(sp) <= 3 * Len(frames) /\ Depth(sp) + 3 <= StackSize
         /\ \A j \in 1 .. Len(frames) :
              Depth(frames[j].sp) + Size(frames[j].kind) <= Depth(sp)
<1>. DEFINE w == Len(frames)
<1>1. w \in Nat /\ w + 1 <= MaxOpen /\ 3 * (w + 1) <= StackSize /\ StackSize \in Nat
  BY StackBasics DEF TypeOK
<1>2. CASE frames = <<>>
  <2>1. sp = InitialSp /\ w = 0
    BY <1>2 DEF Chained
  <2>2. Depth(sp) = 0
    BY <2>1, StackBasics, DepthValue
  <2>. QED
    BY <1>1, <2>1, <2>2
<1>3. CASE frames # <<>>
  <2>. DEFINE f == frames[w]
              s == Size(f.kind)
  <2>1. w \in 1 .. w /\ f.sp \in Sps
    <3>1. w \in 1 .. w
      BY <1>1, <1>3 DEF TypeOK
    <3>. QED
      BY <3>1, FrameType
  <2>2. s \in 1 .. 3 /\ sp = Below(f.sp, s)
    BY <1>3, SizeValue DEF Chained, Innermost
  <2>3. Depth(f.sp) <= 3 * (w - 1) /\ Depth(f.sp) \in Nat
    BY <2>1, DepthType DEF Apart
  <2>4. \A j \in 1 .. w : j < w => Depth(frames[j].sp) + Size(frames[j].kind) <= Depth(f.sp)
    BY <2>1 DEF Apart
  <2>. HIDE DEF f, s
  <2>5. Depth(sp) = Depth(f.sp) + s
    <3>1. Depth(f.sp) + s < StackSize /\ s \in 0 .. StackSize
      BY <1>1, <2>1, <2>2, <2>3
    <3>. QED
      BY <2>1, <2>2, <3>1, Deeper
  <2>6. Depth(sp) <= 3 * w /\ Depth(sp) + 3 <= StackSize
    BY <1>1, <2>1, <2>2, <2>3, <2>5
  <2>7. ASSUME NEW j \in 1 .. w
        PROVE  Depth(frames[j].sp) + Size(frames[j].kind) <= Depth(sp)
    <3>1. CASE j = w
      BY <2>2, <2>3, <2>5, <3>1 DEF f, s
    <3>2. CASE j < w
      <4>1. Depth(frames[j].sp) \in Int /\ Size(frames[j].kind) \in Int
        BY FrameType, DepthType, SizeValue
      <4>. QED
        BY <2>2, <2>3, <2>4, <2>5, <3>2, <4>1
    <3>. QED
      BY <1>1, <3>1, <3>2
  <2>. QED
    BY <2>6, <2>7
<1>. QED
  BY <1>2, <1>3

(* The bytes below sp belong to no frame.                                  *)
LEMMA Fresh ==
  ASSUME TypeOK, Chained, Apart, Len(frames) < MaxOpen, NEW j \in 1 .. Len(frames),
         NEW addr \in 0 .. 2, addr < Size(frames[j].kind), NEW b \in 0 .. 2
  PROVE  /\ Below(frames[j].sp, addr) # Below(sp, b)
         /\ Below(frames[j].sp, addr) \in Sps /\ Below(sp, b) \in Sps
<1>1. /\ Depth(sp) + 3 <= StackSize
      /\ Depth(frames[j].sp) + Size(frames[j].kind) <= Depth(sp)
  BY Room
<1>2. /\ Depth(sp) \in Nat /\ Depth(frames[j].sp) \in Nat /\ Size(frames[j].kind) \in 1 .. 3
      /\ sp \in Sps /\ frames[j].sp \in Sps /\ StackSize \in Nat
  <2>1. sp \in Sps /\ frames[j].sp \in Sps /\ StackSize \in Nat
    BY FrameType, StackBasics DEF TypeOK
  <2>2. Depth(sp) \in 0 .. StackSize - 1 /\ Depth(frames[j].sp) \in 0 .. StackSize - 1
    BY <2>1, DepthType
  <2>. QED
    BY <2>1, <2>2, SizeValue
<1>3. Below(sp, b) \in Sps /\ Depth(Below(sp, b)) = Depth(sp) + b
  <2>1. b \in 0 .. StackSize /\ Depth(sp) + b < StackSize
    BY <1>1, <1>2
  <2>. QED
    BY <1>2, <2>1, Deeper
<1>4. Below(frames[j].sp, addr) \in Sps /\ Depth(Below(frames[j].sp, addr)) = Depth(frames[j].sp) + addr
  <2>1. addr \in 0 .. StackSize /\ Depth(frames[j].sp) + addr < StackSize
    BY <1>1, <1>2
  <2>. QED
    BY <1>2, <2>1, Deeper
<1>5. Depth(frames[j].sp) + addr < Depth(sp) + b
  BY <1>1, <1>2
<1>. QED
  BY <1>2, <1>3, <1>4, <1>5

(* A frame that is opened leaves the others in order, and their bytes.     *)
LEMMA Opened ==
  ASSUME TypeOK, Chained, Apart, Kept,
         NEW kind \in Kinds, NEW ret \in Pcs, Open(kind, ret),
         sp' = Below(sp, Size(kind)),
         stack' \in [Sps -> Nat],
         \A addr \in Sps : (\A b \in 0 .. 2 : addr # Below(sp, b)) => stack'[addr] = stack[addr],
         NEW top, top = Len(frames) + 1, Saved(top)'
  PROVE  Chained' /\ Apart' /\ Kept'
<1>. DEFINE w == Len(frames)
            new == [kind |-> kind, ret |-> ret, sp |-> sp, i |-> iFlag, cleared |-> FALSE]
<1>1. w \in Nat /\ w < MaxOpen /\ DOMAIN frames = 1 .. w
  BY DEF Open, TypeOK
<1>2. /\ frames' = Append(frames, new) /\ Len(frames') = w + 1 /\ frames' # <<>>
      /\ frames'[w + 1] = new /\ \A k \in 1 .. w : frames'[k] = frames[k]
  <2>1. frames' = Append(frames, new) /\ frames \in Seq(Frames)
    BY DEF Open, TypeOK
  <2>2. new \in Frames
    BY DEF Frames, TypeOK
  <2>. HIDE DEF new
  <2>. QED
    BY <2>1, <2>2
<1>3. new.kind = kind /\ new.sp = sp
  OBVIOUS
<1>. HIDE DEF new
<1>4. Chained'
  <2>1. Innermost' = new
    BY <1>2 DEF Innermost
  <2>2. frames'[1].sp = InitialSp
    <3>1. CASE frames = <<>>
      BY <1>2, <1>3, <3>1 DEF Chained
    <3>2. CASE frames # <<>>
      <4>1. 1 \in 1 .. w
        BY <1>1, <3>2 DEF TypeOK
      <4>. QED
        BY <1>2, <3>2, <4>1 DEF Chained
    <3>. QED
      BY <3>1, <3>2
  <2>3. ASSUME NEW k \in 2 .. w + 1
        PROVE  frames'[k].sp = Below(frames'[k - 1].sp, Size(frames'[k - 1].kind))
    <3>1. k - 1 \in 1 .. w /\ frames'[k - 1] = frames[k - 1]
      BY <1>1, <1>2
    <3>2. CASE k = w + 1
      <4>1. frames # <<>> /\ w = k - 1
        BY <1>1, <3>1, <3>2
      <4>. QED
        BY <1>2, <1>3, <3>1, <3>2, <4>1 DEF Chained, Innermost
    <3>3. CASE k \in 2 .. w
      <4>1. frames'[k] = frames[k]
        BY <1>2, <3>3
      <4>. QED
        BY <3>1, <3>3, <4>1 DEF Chained
    <3>. QED
      BY <1>1, <3>2, <3>3
  <2>4. sp' = Below(new.sp, Size(new.kind))
    BY <1>3
  <2>. QED
    BY <1>2, <2>1, <2>2, <2>3, <2>4 DEF Chained
<1>5. Apart'
  <2>1. Depth(sp) <= 3 * w /\ \A j \in 1 .. w : Depth(frames[j].sp) + Size(frames[j].kind) <= Depth(sp)
    BY <1>1, Room
  <2>2. ASSUME NEW k \in 1 .. w + 1 PROVE Depth(frames'[k].sp) <= 3 * (k - 1)
    <3>1. CASE k = w + 1
      BY <1>1, <1>2, <1>3, <2>1, <3>1
    <3>2. CASE k \in 1 .. w
      BY <1>2, <3>2 DEF Apart
    <3>. QED
      BY <1>1, <3>1, <3>2
  <2>3. ASSUME NEW j \in 1 .. w + 1, NEW k \in 1 .. w + 1, j < k
        PROVE  Depth(frames'[j].sp) + Size(frames'[j].kind) <= Depth(frames'[k].sp)
    <3>1. j \in 1 .. w /\ frames'[j] = frames[j]
      BY <1>1, <1>2, <2>3
    <3>2. CASE k = w + 1
      BY <1>2, <1>3, <2>1, <3>1, <3>2
    <3>3. CASE k \in 1 .. w
      BY <1>2, <2>3, <3>1, <3>3 DEF Apart
    <3>. QED
      BY <1>1, <3>2, <3>3
  <2>. QED
    BY <1>2, <2>2, <2>3 DEF Apart, Depth
<1>6. ASSUME NEW k \in 1 .. w PROVE Saved(k)'
  <2>1. frames'[k] = frames[k] /\ Saved(k)
    BY <1>2 DEF Kept
  <2>2. \A addr \in 0 .. 2 : addr < Size(frames[k].kind) =>
          stack'[Below(frames[k].sp, addr)] = stack[Below(frames[k].sp, addr)]
    BY <1>1, Fresh
  <2>3. Below(frames[k].sp, 0) = frames[k].sp
    <3>1. frames[k].sp \in Sps /\ 0 \in 0 .. StackSize /\ 0 \in 0 .. 0
      BY FrameType, StackBasics
    <3>. QED
      BY <3>1, UpAgain
  <2>4. 0 \in 0 .. 2 /\ 1 \in 0 .. 2 /\ 2 \in 0 .. 2
    OBVIOUS
  <2>5. CASE frames[k].kind \in Handlers
    <3>1. Size(frames[k].kind) = 3
      BY <2>5, SizeValue
    <3>2. /\ stack'[frames[k].sp] = stack[frames[k].sp]
          /\ stack'[Below(frames[k].sp, 1)] = stack[Below(frames[k].sp, 1)]
          /\ stack'[Below(frames[k].sp, 2)] = stack[Below(frames[k].sp, 2)]
      BY <2>2, <2>3, <2>4, <3>1
    <3>. QED
      BY <2>1, <2>5, <3>2 DEF Saved, Handlers
  <2>6. CASE frames[k].kind = "call"
    <3>1. Size(frames[k].kind) = 2
      BY <2>6, SizeValue
    <3>2. /\ stack'[frames[k].sp] = stack[frames[k].sp]
          /\ stack'[Below(frames[k].sp, 1)] = stack[Below(frames[k].sp, 1)]
      BY <2>2, <2>3, <2>4, <3>1
    <3>. QED
      BY <2>1, <2>6, <3>2 DEF Saved, Handlers
  <2>7. CASE frames[k].kind = "php"
    <3>1. Size(frames[k].kind) = 1
      BY <2>7, SizeValue
    <3>2. stack'[frames[k].sp] = stack[frames[k].sp]
      BY <2>2, <2>3, <2>4, <3>1
    <3>. QED
      BY <2>1, <2>7, <3>2 DEF Saved, Handlers
  <2>. QED
    BY <2>5, <2>6, <2>7, FrameType DEF Kinds, Handlers
<1>7. Kept'
  <2>1. ASSUME NEW k \in 1 .. w + 1 PROVE Saved(k)'
    BY <1>1, <1>6
  <2>. QED
    BY <1>2, <2>1 DEF Kept
<1>. QED
  BY <1>4, <1>5, <1>7

(* Closing the innermost frame: sp is where it was when it was opened, and *)
(* what was pushed comes back.                                             *)
LEMMA Closed ==
  ASSUME TypeOK, Chained, Apart, Kept, NEW kinds, Close(kinds), UNCHANGED stack,
         sp' = Above(sp, Size(Innermost.kind))
  PROVE  /\ Chained' /\ Apart' /\ Kept'
         /\ Len(frames) \in 1 .. MaxOpen /\ Len(frames') = Len(frames) - 1
         /\ frames' \in Seq(Frames)
         /\ \A k \in 1 .. Len(frames') : frames'[k] = frames[k]
         /\ Innermost.kind \in kinds
         /\ sp' = Innermost.sp
         /\ Innermost.kind \in Handlers =>
              /\ Address(stack[Above(sp, 2)], stack[Above(sp, 3)]) = Innermost.ret
              /\ IOf(stack[Above(sp, 1)]) = Innermost.i
         /\ Innermost.kind = "call" =>
              After(Address(stack[Above(sp, 1)], stack[Above(sp, 2)]), 1) = Innermost.ret
         /\ Innermost.kind = "php" => IOf(stack[Above(sp, 1)]) = Innermost.i
<1>. DEFINE w == Len(frames)
            f == frames[w]
<1>1. w \in 1 .. MaxOpen /\ Innermost = f /\ f.kind \in kinds /\ frames # <<>>
  BY DEF Close, TypeOK, Innermost
<1>2. /\ f.sp \in Sps /\ f.ret \in Pcs /\ f.kind \in Kinds
      /\ Size(f.kind) \in 1 .. 3 /\ Size(f.kind) \in 0 .. StackSize
  <2>1. f.sp \in Sps /\ f.ret \in Pcs /\ f.kind \in Kinds
    BY <1>1, FrameType
  <2>2. 3 <= StackSize
    BY <1>1, StackBasics
  <2>. QED
    BY <2>1, <2>2, SizeValue, StackBasics
<1>3. frames' = SubSeq(frames, 1, w - 1)
  BY DEF Close
<1>4. /\ frames' \in Seq(Frames) /\ Len(frames') = w - 1
      /\ \A k \in 1 .. w - 1 : frames'[k] = frames[k]
  <2>. DEFINE m == w - 1
  <2>1. m \in Nat /\ m <= Len(frames) /\ frames \in Seq(Frames) /\ frames' = SubSeq(frames, 1, m)
    BY <1>1, <1>3, StackBasics DEF TypeOK
  <2>. HIDE DEF m
  <2>2. /\ frames' \in Seq(Frames) /\ Len(frames') = m
        /\ \A k \in 1 .. m : frames'[k] = frames[k]
    BY <2>1
  <2>. QED
    BY <2>2 DEF m
<1>5. sp = Below(f.sp, Size(f.kind))
  BY <1>1 DEF Chained
<1>6. \A m \in 0 .. Size(f.kind) : Above(sp, m) = Below(f.sp, Size(f.kind) - m)
  BY <1>2, <1>5, UpAgain
<1>7. Below(f.sp, 0) = f.sp
  <2>1. 0 \in 0 .. StackSize /\ 0 \in 0 .. 0
    BY StackBasics
  <2>. QED
    BY <1>2, <2>1, UpAgain
<1>8. sp' = f.sp
  <2>1. Size(f.kind) \in 0 .. Size(f.kind) /\ Size(f.kind) - Size(f.kind) = 0
    BY <1>2
  <2>. QED
    BY <1>1, <1>6, <1>7, <2>1
<1>9. Saved(w)
  BY <1>1 DEF Kept
<1>10. f.kind \in Handlers =>
         /\ Address(stack[Above(sp, 2)], stack[Above(sp, 3)]) = f.ret
         /\ IOf(stack[Above(sp, 1)]) = f.i
  <2>. SUFFICES ASSUME f.kind \in Handlers
                PROVE  /\ Address(stack[Above(sp, 2)], stack[Above(sp, 3)]) = f.ret
                       /\ IOf(stack[Above(sp, 1)]) = f.i
    OBVIOUS
  <2>1. Size(f.kind) = 3
    BY SizeValue
  <2>2. /\ Above(sp, 1) = Below(f.sp, 2) /\ Above(sp, 2) = Below(f.sp, 1)
        /\ Above(sp, 3) = f.sp
    BY <1>6, <1>7, <2>1
  <2>3. /\ stack[f.sp] = Hi(f.ret) /\ stack[Below(f.sp, 1)] = Lo(f.ret)
        /\ IOf(stack[Below(f.sp, 2)]) = f.i
    BY <1>9 DEF Saved
  <2>. QED
    BY <1>2, <2>2, <2>3, HiLo
<1>11. f.kind = "call" =>
         After(Address(stack[Above(sp, 1)], stack[Above(sp, 2)]), 1) = f.ret
  <2>. SUFFICES ASSUME f.kind = "call"
                PROVE  After(Address(stack[Above(sp, 1)], stack[Above(sp, 2)]), 1) = f.ret
    OBVIOUS
  <2>1. Size(f.kind) = 2
    BY SizeValue
  <2>2. Above(sp, 1) = Below(f.sp, 1) /\ Above(sp, 2) = f.sp
    BY <1>6, <1>7, <2>1
  <2>3. PICK at \in Pcs : /\ f.ret = After(at, 1)
                          /\ stack[f.sp] = Hi(at) /\ stack[Below(f.sp, 1)] = Lo(at)
    BY <1>9 DEF Saved
  <2>. QED
    BY <2>2, <2>3, HiLo
<1>12. f.kind = "php" => IOf(stack[Above(sp, 1)]) = f.i
  <2>. SUFFICES ASSUME f.kind = "php" PROVE IOf(stack[Above(sp, 1)]) = f.i
    OBVIOUS
  <2>1. Size(f.kind) = 1
    BY SizeValue
  <2>2. Above(sp, 1) = f.sp
    BY <1>6, <1>7, <2>1
  <2>. QED
    BY <1>9, <2>2 DEF Saved
<1>13. Chained'
  <2>1. CASE w = 1
    <3>1. frames' = <<>> /\ Len(frames') = 0
      BY <1>4, <2>1
    <3>2. sp' = InitialSp
      BY <1>1, <1>8, <2>1 DEF Chained
    <3>. QED
      BY <3>1, <3>2 DEF Chained
  <2>2. CASE w # 1
    <3>0. w \in Nat /\ w >= 2
      <4>1. \A x \in 1 .. MaxOpen : x # 1 => x \in Nat /\ x >= 2
        BY StackBasics
      <4>. QED
        BY <1>1, <2>2, <4>1
    <3>1. w \in 2 .. w /\ w - 1 \in 1 .. w - 1 /\ 1 \in 1 .. w - 1
      BY <3>0
    <3>2. frames' # <<>> /\ Innermost' = frames[w - 1] /\ frames'[1] = frames[1]
      BY <1>4, <3>1 DEF Innermost
    <3>3. f.sp = Below(frames[w - 1].sp, Size(frames[w - 1].kind))
      BY <3>1 DEF Chained
    <3>4. ASSUME NEW k \in 2 .. w - 1
          PROVE  frames'[k].sp = Below(frames'[k - 1].sp, Size(frames'[k - 1].kind))
      <4>1. k \in 1 .. w - 1 /\ k - 1 \in 1 .. w - 1 /\ k \in 2 .. w
        BY <1>1
      <4>. QED
        BY <1>4, <4>1 DEF Chained
    <3>. QED
      BY <1>1, <1>4, <1>8, <3>2, <3>3, <3>4 DEF Chained
  <2>. QED
    BY <2>1, <2>2
<1>14. Apart'
  <2>1. \A k \in 1 .. w - 1 : k \in 1 .. w /\ frames'[k] = frames[k]
    BY <1>1, <1>4
  <2>. QED
    BY <1>4, <2>1 DEF Apart, Depth
<1>15. Kept'
  <2>1. ASSUME NEW k \in 1 .. w - 1 PROVE Saved(k)'
    <3>1. Saved(k) /\ frames'[k] = frames[k]
      BY <1>1, <1>4 DEF Kept
    <3>. QED
      BY <3>1 DEF Saved
  <2>. QED
    BY <1>4, <2>1 DEF Kept
<1>. QED
  BY <1>1, <1>4, <1>8, <1>10, <1>11, <1>12, <1>13, <1>14, <1>15

-----------------------------------------------------------------------------
(***************************************************************************)
(* The actions that use the stack.                                         *)
(***************************************************************************)
LEMMA Spread ==
  ASSUME NEW s \in Sps, 3 <= StackSize
  PROVE  /\ Below(s, 0) = s
         /\ Below(s, 1) \in Sps /\ Below(s, 2) \in Sps /\ Below(s, 3) \in Sps
         /\ Below(s, 1) # s /\ Below(s, 2) # s /\ Below(s, 1) # Below(s, 2)
<1>1. StackSize \in Nat /\ s \in 0 .. StackSize - 1 /\ Sps = 0 .. StackSize - 1
  BY StackBasics
<1>2. 0 \in 0 .. StackSize /\ 1 \in 0 .. StackSize /\ 2 \in 0 .. StackSize /\ 3 \in 0 .. StackSize
  BY <1>1
<1>3. Below(s, 0) = IF 0 <= s THEN s - 0 ELSE s - 0 + StackSize
  BY <1>2, BelowValue
<1>4. Below(s, 1) = IF 1 <= s THEN s - 1 ELSE s - 1 + StackSize
  BY <1>2, BelowValue
<1>5. Below(s, 2) = IF 2 <= s THEN s - 2 ELSE s - 2 + StackSize
  BY <1>2, BelowValue
<1>6. Below(s, 3) = IF 3 <= s THEN s - 3 ELSE s - 3 + StackSize
  BY <1>2, BelowValue
<1>. QED
  BY <1>1, <1>3, <1>4, <1>5, <1>6

LEMMA OpenType ==
  ASSUME TypeOK, NEW kind \in Kinds, NEW ret \in Pcs, Open(kind, ret)
  PROVE  /\ frames' \in Seq(Frames) /\ Len(frames') = Len(frames) + 1
         /\ Len(frames) \in Nat /\ Len(frames) < MaxOpen /\ Len(frames') <= MaxOpen
         /\ \A k \in 1 .. Len(frames) : frames'[k] = frames[k]
         /\ frames'[Len(frames')].kind = kind /\ frames'[Len(frames')].ret = ret
         /\ frames'[Len(frames')].sp = sp /\ frames'[Len(frames')].i = iFlag
         /\ frames'[Len(frames')].cleared = FALSE
         /\ 3 <= StackSize /\ sp \in Sps
<1>. DEFINE new == [kind |-> kind, ret |-> ret, sp |-> sp, i |-> iFlag, cleared |-> FALSE]
<1>1. frames' = Append(frames, new) /\ frames \in Seq(Frames) /\ Len(frames) < MaxOpen
  BY DEF Open, TypeOK
<1>2. new \in Frames
  BY DEF Frames, TypeOK
<1>3. new.kind = kind /\ new.ret = ret /\ new.sp = sp /\ new.i = iFlag /\ new.cleared = FALSE
  OBVIOUS
<1>. HIDE DEF new
<1>4. /\ frames' \in Seq(Frames) /\ Len(frames') = Len(frames) + 1 /\ Len(frames) \in Nat
      /\ \A k \in 1 .. Len(frames) : frames'[k] = frames[k]
      /\ frames'[Len(frames')] = new
  BY <1>1, <1>2
<1>5. 3 <= StackSize /\ Len(frames') <= MaxOpen
  BY <1>1, <1>4, StackBasics
<1>. QED
  BY <1>1, <1>3, <1>4, <1>5 DEF TypeOK

LEMMA InterruptPushes ==
  ASSUME TypeOK, Chained, Apart, Kept,
         NEW kind \in Handlers, NEW vector \in Pcs, NEW at \in Pcs, NEW b \in BOOLEAN,
         Open(kind, at), Interrupt(vector, at, b)
  PROVE  /\ Chained' /\ Apart' /\ Kept'
         /\ stack' \in [Sps -> Nat] /\ sp' \in Sps /\ pc' \in Pcs /\ iFlag' \in BOOLEAN /\ iFlag'
<1>. DEFINE top == Len(frames) + 1
<1>1. kind \in Kinds
  BY DEF Kinds, Handlers
<1>2. /\ Len(frames') = top /\ 3 <= StackSize /\ sp \in Sps
      /\ frames'[top].kind = kind /\ frames'[top].ret = at
      /\ frames'[top].sp = sp /\ frames'[top].i = iFlag
  BY <1>1, OpenType
<1>3. /\ Below(sp, 0) = sp
      /\ Below(sp, 1) \in Sps /\ Below(sp, 2) \in Sps /\ Below(sp, 3) \in Sps
      /\ Below(sp, 1) # sp /\ Below(sp, 2) # sp /\ Below(sp, 1) # Below(sp, 2)
  BY <1>2, Spread
<1>4. /\ Hi(at) \in Nat /\ Lo(at) \in Nat /\ StatusByte(iFlag, b) \in Nat
      /\ IOf(StatusByte(iFlag, b)) = iFlag
  BY HiLo, StatusKeepsI DEF TypeOK
<1>5. /\ stack' \in [Sps -> Nat]
      /\ stack'[sp] = Hi(at) /\ stack'[Below(sp, 1)] = Lo(at)
      /\ stack'[Below(sp, 2)] = StatusByte(iFlag, b)
      /\ \A addr \in Sps : addr # sp /\ addr # Below(sp, 1) /\ addr # Below(sp, 2) => stack'[addr] = stack[addr]
  BY <1>2, <1>3, <1>4 DEF Interrupt, TypeOK
<1>6. \A addr \in Sps : (\A ch \in 0 .. 2 : addr # Below(sp, ch)) => stack'[addr] = stack[addr]
  <2>1. 0 \in 0 .. 2 /\ 1 \in 0 .. 2 /\ 2 \in 0 .. 2
    OBVIOUS
  <2>. QED
    BY <1>3, <1>5, <2>1
<1>7. ASSUME NEW k, k = top PROVE Saved(k)'
  BY <1>2, <1>4, <1>5, <1>7 DEF Saved, Handlers
<1>8. sp' = Below(sp, Size(kind))
  BY SizeValue DEF Interrupt
<1>9. Chained' /\ Apart' /\ Kept'
  <2>. HIDE DEF top
  <2>1. PICK k : k = top
    OBVIOUS
  <2>2. Saved(k)' /\ k = Len(frames) + 1
    BY <1>7, <2>1 DEF top
  <2>. QED
    BY <1>1, <1>5, <1>6, <1>8, <2>2, Opened
<1>. QED
  BY <1>3, <1>5, <1>9 DEF Interrupt

LEMMA JsrPushes ==
  ASSUME TypeOK, Chained, Apart, Kept, Jsr
  PROVE  Chained' /\ Apart' /\ Kept' /\ stack' \in [Sps -> Nat] /\ sp' \in Sps
<1>. DEFINE top == Len(frames) + 1
            at == After(pc, 2)
            ret == After(pc, 3)
<1>1. at \in Pcs /\ ret \in Pcs /\ ret = After(at, 1) /\ "call" \in Kinds
  BY HiLo, AfterAfter DEF TypeOK, Kinds
<1>2. Open("call", ret)
  BY DEF Jsr
<1>. HIDE DEF ret
<1>3. /\ Len(frames') = top /\ 3 <= StackSize /\ sp \in Sps
      /\ frames'[top].kind = "call" /\ frames'[top].ret = ret
      /\ frames'[top].sp = sp
  BY <1>1, <1>2, OpenType
<1>4. /\ Below(sp, 0) = sp
      /\ Below(sp, 1) \in Sps /\ Below(sp, 2) \in Sps /\ Below(sp, 1) # sp
  BY <1>3, Spread
<1>5. Hi(at) \in Nat /\ Lo(at) \in Nat
  BY <1>1, HiLo
<1>6. /\ stack' = [stack EXCEPT ![sp] = Hi(at), ![Below(sp, 1)] = Lo(at)]
      /\ sp' = Below(sp, 2)
  BY DEF Jsr
<1>. HIDE DEF at
<1>7. /\ stack' \in [Sps -> Nat]
      /\ stack'[sp] = Hi(at) /\ stack'[Below(sp, 1)] = Lo(at)
      /\ \A addr \in Sps : addr # sp /\ addr # Below(sp, 1) => stack'[addr] = stack[addr]
  BY <1>3, <1>4, <1>5, <1>6 DEF TypeOK
<1>8. \A addr \in Sps : (\A ch \in 0 .. 2 : addr # Below(sp, ch)) => stack'[addr] = stack[addr]
  <2>1. 0 \in 0 .. 2 /\ 1 \in 0 .. 2
    OBVIOUS
  <2>. QED
    BY <1>4, <1>7, <2>1
<1>9. ASSUME NEW k, k = top PROVE Saved(k)'
  BY <1>1, <1>3, <1>7, <1>9 DEF Saved, Handlers
<1>10. sp' = Below(sp, Size("call"))
  BY <1>6, SizeValue
<1>11. Chained' /\ Apart' /\ Kept'
  <2>. HIDE DEF top
  <2>1. PICK k : k = top
    OBVIOUS
  <2>2. Saved(k)' /\ k = Len(frames) + 1
    BY <1>9, <2>1 DEF top
  <2>. QED
    BY <1>1, <1>2, <1>7, <1>8, <1>10, <2>2, Opened
<1>. QED
  BY <1>4, <1>6, <1>7, <1>11

LEMMA PhpPushes ==
  ASSUME TypeOK, Chained, Apart, Kept, Php
  PROVE  Chained' /\ Apart' /\ Kept' /\ stack' \in [Sps -> Nat] /\ sp' \in Sps
<1>. DEFINE top == Len(frames) + 1
<1>1. Open("php", pc) /\ pc \in Pcs /\ "php" \in Kinds /\ iFlag \in BOOLEAN
  BY DEF Php, TypeOK, Kinds
<1>2. /\ Len(frames') = top /\ 3 <= StackSize /\ sp \in Sps
      /\ frames'[top].kind = "php" /\ frames'[top].sp = sp /\ frames'[top].i = iFlag
  BY <1>1, OpenType
<1>3. Below(sp, 0) = sp /\ Below(sp, 1) \in Sps
  BY <1>2, Spread
<1>4. StatusByte(iFlag, TRUE) \in Nat /\ IOf(StatusByte(iFlag, TRUE)) = iFlag
  BY <1>1, StatusKeepsI
<1>5. /\ stack' = [stack EXCEPT ![sp] = StatusByte(iFlag, TRUE)] /\ sp' = Below(sp, 1)
  BY DEF Php
<1>6. /\ stack' \in [Sps -> Nat] /\ stack'[sp] = StatusByte(iFlag, TRUE)
      /\ \A addr \in Sps : addr # sp => stack'[addr] = stack[addr]
  BY <1>2, <1>4, <1>5 DEF TypeOK
<1>7. \A addr \in Sps : (\A ch \in 0 .. 2 : addr # Below(sp, ch)) => stack'[addr] = stack[addr]
  <2>1. 0 \in 0 .. 2
    OBVIOUS
  <2>. QED
    BY <1>3, <1>6, <2>1
<1>8. ASSUME NEW k, k = top PROVE Saved(k)'
  BY <1>2, <1>4, <1>6, <1>8 DEF Saved, Handlers
<1>9. sp' = Below(sp, Size("php"))
  BY <1>5, SizeValue
<1>10. Chained' /\ Apart' /\ Kept'
  <2>. HIDE DEF top
  <2>1. PICK k : k = top
    OBVIOUS
  <2>2. Saved(k)' /\ k = Len(frames) + 1
    BY <1>8, <2>1 DEF top
  <2>. QED
    BY <1>1, <1>6, <1>7, <1>9, <2>2, Opened
<1>. QED
  BY <1>3, <1>5, <1>6, <1>10

(* RTI, RTS and PLP: what was saved is what comes back.                    *)
LEMMA Pops ==
  ASSUME TypeOK, Chained, Apart, Kept, Plp \/ Rts \/ Rti
  PROVE  /\ Chained' /\ Apart' /\ Kept'
         /\ Len(frames) \in 1 .. MaxOpen /\ Len(frames') = Len(frames) - 1
         /\ frames' \in Seq(Frames)
         /\ \A k \in 1 .. Len(frames') : frames'[k] = frames[k]
         /\ sp' = Innermost.sp
         /\ Innermost.kind # "php" => pc' = Innermost.ret
         /\ Innermost.kind = "php" => pc' = After(pc, 1)
         /\ Innermost.kind # "call" => iFlag' = Innermost.i
         /\ Innermost.kind = "call" => UNCHANGED iFlag
         /\ UNCHANGED stack
<1>1. CASE Plp
  <2>1. Close({"php"}) /\ UNCHANGED stack /\ sp' = Above(sp, 1)
    BY <1>1 DEF Plp
  <2>2. Innermost.kind = "php"
    BY <2>1 DEF Close
  <2>3. sp' = Above(sp, Size(Innermost.kind))
    BY <2>1, <2>2, SizeValue
  <2>. QED
    BY <1>1, <2>1, <2>2, <2>3, Closed DEF Plp
<1>2. CASE Rts
  <2>1. Close({"call"}) /\ UNCHANGED stack /\ sp' = Above(sp, 2)
    BY <1>2 DEF Rts
  <2>2. Innermost.kind = "call"
    BY <2>1 DEF Close
  <2>3. sp' = Above(sp, Size(Innermost.kind))
    BY <2>1, <2>2, SizeValue
  <2>. QED
    BY <1>2, <2>1, <2>2, <2>3, Closed DEF Rts
<1>3. CASE Rti
  <2>1. Close(Handlers) /\ UNCHANGED stack /\ sp' = Above(sp, 3)
    BY <1>3 DEF Rti
  <2>2. Innermost.kind \in Handlers /\ Innermost.kind # "php" /\ Innermost.kind # "call"
    BY <2>1 DEF Close, Handlers
  <2>3. sp' = Above(sp, Size(Innermost.kind))
    BY <2>1, <2>2, SizeValue
  <2>. QED
    BY <1>3, <2>1, <2>2, <2>3, Closed DEF Rti
<1>. QED
  BY <1>1, <1>2, <1>3

LEMMA PopTypes ==
  ASSUME TypeOK, Chained, Apart, Kept, Plp \/ Rts \/ Rti
  PROVE  /\ sp' \in Sps /\ pc' \in Pcs /\ iFlag' \in BOOLEAN /\ stack' \in [Sps -> Nat]
         /\ Len(frames') <= MaxOpen
<1>. DEFINE w == Len(frames)
<1>1. w \in 1 .. w /\ Innermost = frames[w]
  <2>1. \A x \in 1 .. MaxOpen : x \in 1 .. x
    BY StackBasics
  <2>. QED
    BY <2>1, Pops DEF Innermost
<1>2. Innermost.sp \in Sps /\ Innermost.ret \in Pcs /\ Innermost.i \in BOOLEAN
  BY <1>1, FrameType
<1>3. After(pc, 1) \in Pcs
  BY HiLo DEF TypeOK
<1>4. sp' \in Sps /\ pc' \in Pcs
  BY <1>2, <1>3, Pops
<1>5. iFlag' \in BOOLEAN
  BY <1>2, Pops DEF TypeOK
<1>6. stack' \in [Sps -> Nat]
  BY Pops DEF TypeOK
<1>7. Len(frames') <= MaxOpen
  <2>1. \A x \in 1 .. MaxOpen : x - 1 <= MaxOpen
    BY StackBasics
  <2>. QED
    BY <2>1, Pops
<1>. QED
  BY <1>4, <1>5, <1>6, <1>7

-----------------------------------------------------------------------------
(***************************************************************************)
(* The I flag under handlers.                                              *)
(***************************************************************************)
LEMMA MaskedOpen ==
  ASSUME TypeOK, Masked, Latest, NEW kind \in Kinds, NEW ret \in Pcs, Open(kind, ret),
         kind \in Handlers => iFlag', kind \notin Handlers => (iFlag => iFlag')
  PROVE  Masked' /\ Latest'
<1>. DEFINE w == Len(frames)
<1>1. /\ w \in Nat /\ Len(frames') = w + 1 /\ \A k \in 1 .. w : frames'[k] = frames[k]
      /\ frames'[w + 1].kind = kind /\ frames'[w + 1].i = iFlag
  BY OpenType
<1>. HIDE DEF w
<1>2. ASSUME NEW k \in 1 .. w + 1, NEW j \in 1 .. k - 1
      PROVE  Uncleared(j, k)' <=> Uncleared(j, k)
  <2>1. j \in 1 .. w /\ \A m \in j + 1 .. k - 1 : m \in 1 .. w
    BY <1>1
  <2>. QED
    BY <1>1, <2>1 DEF Uncleared
<1>3. ASSUME NEW k \in 1 .. w + 1, NEW j \in 1 .. k - 1, Uncleared(j, k)'
      PROVE  frames'[k].i
  <2>1. Uncleared(j, k)
    BY <1>2, <1>3
  <2>2. CASE k = w + 1
    BY <1>1, <2>1, <2>2 DEF Masked, w
  <2>3. CASE k \in 1 .. w
    BY <1>1, <2>1, <2>3 DEF Masked, w
  <2>. QED
    BY <1>1, <2>2, <2>3
<1>4. ASSUME NEW j \in 1 .. w + 1, NEW k, k = w + 2, Uncleared(j, k)'
      PROVE  iFlag'
  <2>1. CASE j = w + 1
    BY <1>1, <1>4, <2>1 DEF Uncleared
  <2>2. CASE j \in 1 .. w
    <3>1. w + 1 \in j + 1 .. k - 1
      BY <1>1, <1>4, <2>2
    <3>2. kind \notin Handlers
      BY <1>1, <1>4, <3>1 DEF Uncleared
    <3>3. Uncleared(j, w + 1)
      <4>1. \A m \in j + 1 .. w : m \in j + 1 .. k - 1 /\ m \in 1 .. w
        BY <1>1, <1>4, <2>2
      <4>2. w + 1 - 1 = w
        BY <1>1
      <4>. QED
        BY <1>1, <1>4, <2>2, <4>1, <4>2 DEF Uncleared
    <3>. QED
      BY <2>2, <3>2, <3>3 DEF Masked, w
  <2>. QED
    BY <1>1, <2>1, <2>2
<1>5. Masked'
  <2>1. \A j \in 1 .. w + 1 : Uncleared(j, Len(frames) + 1)' => iFlag'
    <3>1. Len(frames') + 1 = w + 2
      BY <1>1
    <3>. QED
      BY <1>4, <3>1 DEF Uncleared
  <2>. QED
    BY <1>1, <1>3, <2>1 DEF Masked
<1>6. ASSUME NEW k \in 1 .. w + 2, NEW h \in 1 .. k - 1, frames'[h].kind \in Handlers
      PROVE  \E j \in h .. k - 1 :
               /\ frames'[j].kind \in Handlers
               /\ \A m \in j + 1 .. k - 1 : frames'[m].kind \notin Handlers
  <2>. DEFINE Last(l) == \E j \in h .. l - 1 :
                           /\ frames[j].kind \in Handlers
                           /\ \A m \in j + 1 .. l - 1 : frames[m].kind \notin Handlers
  <2>1. ASSUME NEW l \in 1 .. w + 1, h \in 1 .. l - 1 PROVE Last(l)
    <3>1. h \in 1 .. w
      BY <1>1, <2>1
    <3>. QED
      BY <1>1, <1>6, <2>1, <3>1 DEF Latest, w
  <2>2. CASE k \in 1 .. w + 1
    <3>1. PICK j \in h .. k - 1 :
            /\ frames[j].kind \in Handlers
            /\ \A m \in j + 1 .. k - 1 : frames[m].kind \notin Handlers
      BY <2>1, <2>2
    <3>2. j \in 1 .. w /\ \A m \in j + 1 .. k - 1 : m \in 1 .. w
      BY <1>1, <2>2
    <3>. QED
      BY <1>1, <3>1, <3>2
  <2>3. CASE k = w + 2 /\ kind \in Handlers
    <3>1. w + 1 \in h .. k - 1 /\ \A m \in w + 1 + 1 .. k - 1 : FALSE
      BY <1>1, <2>3
    <3>. QED
      BY <1>1, <2>3, <3>1
  <2>4. CASE k = w + 2 /\ kind \notin Handlers
    <3>1. h \in 1 .. w
      <4>1. h # w + 1
        BY <1>1, <1>6, <2>4
      <4>. QED
        BY <1>1, <2>4, <4>1
    <3>2. w + 1 \in 1 .. w + 1 /\ w + 1 - 1 = w
      BY <1>1
    <3>3. PICK j \in h .. w :
            /\ frames[j].kind \in Handlers
            /\ \A m \in j + 1 .. w : frames[m].kind \notin Handlers
      <4>1. PICK l : l = w + 1
        OBVIOUS
      <4>2. l \in 1 .. w + 1 /\ l - 1 = w /\ h \in 1 .. l - 1
        BY <1>1, <3>1, <3>2, <4>1
      <4>3. Last(l)
        BY <2>1, <4>2
      <4>. QED
        BY <4>2, <4>3
    <3>4. j \in 1 .. w /\ j \in h .. k - 1
      BY <1>1, <2>4, <3>1
    <3>5. \A m \in j + 1 .. k - 1 : m = w + 1 \/ (m \in 1 .. w /\ m \in j + 1 .. w)
      <4>1. k - 1 = w + 1 /\ j \in Int
        BY <1>1, <2>4, <3>4
      <4>2. \A m \in j + 1 .. w + 1 : m = w + 1 \/ (m \in 1 .. w /\ m \in j + 1 .. w)
        <5>1. \A x \in Nat : \A y \in 1 .. x : \A m \in y + 1 .. x + 1 :
                m = x + 1 \/ (m \in 1 .. x /\ m \in y + 1 .. x)
          OBVIOUS
        <5>. QED
          BY <1>1, <3>4, <5>1
      <4>. QED
        BY <4>1, <4>2
    <3>. QED
      BY <1>1, <2>4, <3>3, <3>4, <3>5
  <2>. QED
    BY <1>1, <2>2, <2>3, <2>4
<1>7. Latest'
  <2>1. Len(frames') + 1 = w + 2
    BY <1>1
  <2>. QED
    BY <1>6, <2>1 DEF Latest
<1>. QED
  BY <1>5, <1>7

LEMMA MaskedClose ==
  ASSUME TypeOK, Masked, Latest, Len(frames) \in 1 .. MaxOpen, Len(frames') = Len(frames) - 1,
         \A k \in 1 .. Len(frames') : frames'[k] = frames[k],
         Innermost.kind # "call" => iFlag' = Innermost.i,
         Innermost.kind = "call" => UNCHANGED iFlag
  PROVE  Masked' /\ Latest'
<1>. DEFINE w == Len(frames)
<1>1. w \in Nat /\ w >= 1 /\ w \in 1 .. w
  <2>1. \A x \in 1 .. MaxOpen : x \in Nat /\ x >= 1 /\ x \in 1 .. x
    BY StackBasics
  <2>. QED
    BY <2>1
<1>2. Len(frames') = w - 1 /\ \A k \in 1 .. w - 1 : frames'[k] = frames[k]
  OBVIOUS
<1>3. Innermost = frames[w]
  BY DEF Innermost
<1>. HIDE DEF w
<1>4. ASSUME NEW k \in 1 .. w, NEW j \in 1 .. k - 1
      PROVE  Uncleared(j, k)' <=> Uncleared(j, k)
  <2>1. j \in 1 .. w - 1 /\ \A m \in j + 1 .. k - 1 : m \in 1 .. w - 1
    BY <1>1
  <2>. QED
    BY <1>2, <2>1 DEF Uncleared
<1>5. ASSUME NEW k \in 1 .. w - 1, NEW j \in 1 .. k - 1, Uncleared(j, k)'
      PROVE  frames'[k].i
  <2>1. k \in 1 .. w
    BY <1>1
  <2>2. Uncleared(j, k)
    BY <1>4, <1>5, <2>1
  <2>. QED
    BY <1>2, <2>1, <2>2 DEF Masked, w
<1>6. ASSUME NEW j \in 1 .. w - 1, Uncleared(j, w) PROVE iFlag'
  <2>1. frames[w].i
    BY <1>1, <1>6 DEF Masked, w
  <2>2. CASE Innermost.kind = "call"
    <3>1. Uncleared(j, w + 1)
      <4>0. PICK l : l = w + 1
        OBVIOUS
      <4>1. \A m \in j + 1 .. l - 1 : m = w \/ m \in j + 1 .. w - 1
        BY <1>1, <4>0
      <4>2. frames[w].kind \notin Handlers
        BY <1>3, <2>2 DEF Handlers
      <4>3. /\ frames[j].kind \in Handlers /\ ~frames[j].cleared
            /\ \A m \in j + 1 .. w - 1 : frames[m].kind \notin Handlers
        BY <1>6 DEF Uncleared
      <4>4. ASSUME NEW m \in j + 1 .. l - 1 PROVE frames[m].kind \notin Handlers
        BY <4>1, <4>2, <4>3
      <4>5. Uncleared(j, l)
        BY <4>3, <4>4 DEF Uncleared
      <4>. QED
        BY <4>0, <4>5
    <3>2. j \in 1 .. w
      BY <1>1
    <3>. QED
      BY <2>2, <3>1, <3>2 DEF Masked, w
  <2>3. CASE Innermost.kind # "call"
    BY <1>3, <2>1, <2>3
  <2>. QED
    BY <2>2, <2>3
<1>7. Masked'
  <2>1. ASSUME NEW j \in 1 .. Len(frames'), Uncleared(j, Len(frames) + 1)' PROVE iFlag'
    <3>1. PICK l : l = Len(frames')
      OBVIOUS
    <3>2. l + 1 = w /\ l = w - 1
      BY <1>1, <1>2, <3>1
    <3>3. Uncleared(j, w)
      <4>1. PICK k : k = w
        OBVIOUS
      <4>2. Uncleared(j, k)'
        BY <2>1, <3>1, <3>2, <4>1 DEF Uncleared
      <4>3. k \in 1 .. w /\ j \in 1 .. k - 1
        BY <1>1, <3>1, <3>2, <4>1
      <4>. QED
        BY <1>4, <4>1, <4>2, <4>3
    <3>4. j \in 1 .. w - 1
      BY <3>1, <3>2
    <3>. QED
      BY <1>6, <3>3, <3>4
  <2>. QED
    BY <1>2, <1>5, <2>1 DEF Masked
<1>8. ASSUME NEW k \in 1 .. w, NEW h \in 1 .. k - 1, frames'[h].kind \in Handlers
      PROVE  \E j \in h .. k - 1 :
               /\ frames'[j].kind \in Handlers
               /\ \A m \in j + 1 .. k - 1 : frames'[m].kind \notin Handlers
  <2>1. h \in 1 .. w - 1 /\ k \in 1 .. w + 1
    BY <1>1
  <2>2. PICK j \in h .. k - 1 :
          /\ frames[j].kind \in Handlers
          /\ \A m \in j + 1 .. k - 1 : frames[m].kind \notin Handlers
    BY <1>2, <1>8, <2>1 DEF Latest, w
  <2>3. j \in 1 .. w - 1 /\ \A m \in j + 1 .. k - 1 : m \in 1 .. w - 1
    BY <1>1, <2>1
  <2>. QED
    BY <1>2, <2>2, <2>3
<1>9. Latest'
  <2>1. Len(frames') + 1 = w
    BY <1>1, <1>2
  <2>. QED
    BY <1>8, <2>1 DEF Latest
<1>. QED
  BY <1>7, <1>9

(* The innermost handler is the one that CurrentHandler names.             *)
LEMMA Current ==
  ASSUME TypeOK, Latest, InHandlers # {}
  PROVE  /\ CurrentHandler \in 1 .. Len(frames)
         /\ frames[CurrentHandler].kind \in Handlers
         /\ \A m \in CurrentHandler + 1 .. Len(frames) : frames[m].kind \notin Handlers
<1>. DEFINE w == Len(frames)
<1>1. w \in Nat /\ w + 1 \in 1 .. w + 1 /\ w + 1 - 1 = w
  BY DEF TypeOK
<1>2. PICK h \in 1 .. w : frames[h].kind \in Handlers
  BY DEF InHandlers
<1>3. PICK j \in h .. w : /\ frames[j].kind \in Handlers
                          /\ \A m \in j + 1 .. w : frames[m].kind \notin Handlers
  BY <1>1, <1>2 DEF Latest
<1>4. j \in InHandlers /\ \A k \in InHandlers : k <= j
  <2>1. j \in InHandlers
    BY <1>1, <1>3 DEF InHandlers
  <2>2. ASSUME NEW k \in InHandlers PROVE k <= j
    <3>1. k \in 1 .. w /\ frames[k].kind \in Handlers
      BY DEF InHandlers
    <3>2. k \notin j + 1 .. w
      BY <1>3, <3>1
    <3>. QED
      BY <1>1, <3>1, <3>2
  <2>. QED
    BY <2>1, <2>2
<1>5. CurrentHandler \in InHandlers /\ \A k \in InHandlers : k <= CurrentHandler
  BY <1>4 DEF CurrentHandler
<1>6. CurrentHandler = j
  <2>1. j <= CurrentHandler /\ CurrentHandler <= j
    BY <1>4, <1>5
  <2>2. j \in Int /\ CurrentHandler \in Int
    BY <1>1, <1>4, <1>5 DEF InHandlers
  <2>. QED
    BY <2>1, <2>2
<1>. QED
  BY <1>1, <1>3, <1>4, <1>6 DEF InHandlers

(* CLI changes nothing of the frames but that it was executed.             *)
LEMMA CliFrames ==
  ASSUME TypeOK, Latest, Cli
  PROVE  /\ frames' \in Seq(Frames) /\ Len(frames') = Len(frames)
         /\ \A k \in 1 .. Len(frames) :
              /\ frames'[k].kind = frames[k].kind /\ frames'[k].ret = frames[k].ret
              /\ frames'[k].sp = frames[k].sp /\ frames'[k].i = frames[k].i
              /\ frames[k].cleared => frames'[k].cleared
         /\ InHandlers # {} => frames'[CurrentHandler].cleared
<1>1. frames' = IF InHandlers = {} THEN frames ELSE [frames EXCEPT ![CurrentHandler].cleared = TRUE]
  BY DEF Cli
<1>2. frames \in Seq(Frames)
  BY DEF TypeOK
<1>3. CASE InHandlers = {}
  BY <1>1, <1>2, <1>3
<1>4. CASE InHandlers # {}
  <2>. DEFINE ch == CurrentHandler
              f == [frames[ch] EXCEPT !.cleared = TRUE]
  <2>1. ch \in 1 .. Len(frames)
    BY <1>4, Current
  <2>2. frames[ch] \in Frames
    BY <2>1, FrameType
  <2>3. /\ f \in Frames /\ f.kind = frames[ch].kind /\ f.ret = frames[ch].ret
        /\ f.sp = frames[ch].sp /\ f.i = frames[ch].i /\ f.cleared = TRUE
    BY <2>2 DEF Frames
  <2>4. frames' = [frames EXCEPT ![ch] = f]
    BY <1>1, <1>4
  <2>. HIDE DEF ch, f
  <2>5. /\ frames' \in Seq(Frames) /\ Len(frames') = Len(frames)
        /\ \A k \in 1 .. Len(frames) : frames'[k] = IF k = ch THEN f ELSE frames[k]
    BY <1>2, <2>1, <2>3, <2>4
  <2>. QED
    BY <2>1, <2>3, <2>5 DEF ch
<1>. QED
  BY <1>3, <1>4

LEMMA CliStep ==
  ASSUME TypeOK, Chained, Apart, Kept, Masked, Latest, Cli
  PROVE  Chained' /\ Apart' /\ Kept' /\ Masked' /\ Latest'
<1>. DEFINE w == Len(frames)
<1>1. w \in Nat /\ sp' = sp /\ stack' = stack
  BY DEF TypeOK, Cli
<1>2. /\ Len(frames') = w
      /\ \A k \in 1 .. w :
           /\ frames'[k].kind = frames[k].kind /\ frames'[k].ret = frames[k].ret
           /\ frames'[k].sp = frames[k].sp /\ frames'[k].i = frames[k].i
           /\ frames[k].cleared => frames'[k].cleared
      /\ InHandlers # {} => frames'[CurrentHandler].cleared
      /\ frames' \in Seq(Frames)
  BY CliFrames
<1>. HIDE DEF w
<1>3. Chained'
  <2>1. frames' = <<>> <=> frames = <<>>
    BY <1>1, <1>2 DEF w, TypeOK
  <2>2. CASE frames = <<>>
    <3>1. w = 0
      BY <2>2 DEF w
    <3>. QED
      BY <1>1, <1>2, <2>1, <2>2, <3>1 DEF Chained
  <2>3. CASE frames # <<>>
    <3>1. w \in 1 .. w /\ 1 \in 1 .. w
      BY <1>1, <2>3 DEF w, TypeOK
    <3>2. Innermost'.sp = Innermost.sp /\ Innermost'.kind = Innermost.kind
          /\ frames'[1].sp = frames[1].sp
      BY <1>2, <3>1 DEF Innermost, w
    <3>3. \A k \in 2 .. w : k \in 1 .. w /\ k - 1 \in 1 .. w
      BY <1>1
    <3>4. \A k \in 2 .. w : frames'[k].sp = Below(frames'[k - 1].sp, Size(frames'[k - 1].kind))
      BY <1>2, <3>3 DEF Chained, w
    <3>. QED
      BY <1>1, <1>2, <2>1, <2>3, <3>2, <3>4 DEF Chained
  <2>. QED
    BY <2>2, <2>3
<1>4. Apart'
  BY <1>2 DEF Apart, Depth, w
<1>5. Kept'
  <2>1. ASSUME NEW k \in 1 .. w PROVE Saved(k)'
    <3>1. Saved(k)
      BY DEF Kept, w
    <3>. QED
      BY <1>1, <1>2, <3>1 DEF Saved
  <2>. QED
    BY <1>2, <2>1 DEF Kept
<1>6. ASSUME NEW k \in 1 .. w + 1, NEW j \in 1 .. k - 1, Uncleared(j, k)' PROVE Uncleared(j, k)
  <2>1. j \in 1 .. w /\ \A m \in j + 1 .. k - 1 : m \in 1 .. w
    BY <1>1
  <2>. QED
    BY <1>2, <1>6, <2>1 DEF Uncleared
<1>7. ASSUME NEW j \in 1 .. w, NEW k, k = w + 1, Uncleared(j, k)' PROVE FALSE
  <2>1. Uncleared(j, k)
    <3>1. k \in 1 .. w + 1 /\ j \in 1 .. k - 1
      BY <1>1, <1>7
    <3>. QED
      BY <1>6, <1>7, <3>1
  <2>2. InHandlers # {}
    BY <2>1 DEF InHandlers, Uncleared, w
  <2>3. /\ CurrentHandler \in 1 .. w /\ frames[CurrentHandler].kind \in Handlers
        /\ \A m \in CurrentHandler + 1 .. w : frames[m].kind \notin Handlers
    BY <2>2, Current DEF w
  <2>4. CurrentHandler = j
    <3>1. k - 1 = w
      BY <1>1, <1>7
    <3>2. CurrentHandler \notin j + 1 .. w /\ j \notin CurrentHandler + 1 .. w
      BY <2>1, <2>3, <3>1 DEF Uncleared
    <3>. QED
      BY <1>1, <2>3, <3>2
  <2>5. frames'[j].cleared
    BY <1>2, <2>2, <2>4
  <2>. QED
    BY <1>7, <2>5 DEF Uncleared
<1>8. Masked'
  <2>1. ASSUME NEW k \in 1 .. w, NEW j \in 1 .. k - 1, Uncleared(j, k)' PROVE frames'[k].i
    <3>1. k \in 1 .. w + 1
      BY <1>1
    <3>2. Uncleared(j, k)
      BY <1>6, <2>1, <3>1
    <3>. QED
      BY <1>2, <3>2 DEF Masked, w
  <2>2. ASSUME NEW j \in 1 .. w, Uncleared(j, Len(frames) + 1)' PROVE FALSE
    BY <1>2, <1>7, <2>2 DEF Uncleared
  <2>. QED
    BY <1>2, <2>1, <2>2 DEF Masked
<1>9. Latest'
  <2>1. ASSUME NEW k \in 1 .. w + 1, NEW h \in 1 .. k - 1, frames'[h].kind \in Handlers
        PROVE  \E j \in h .. k - 1 :
                 /\ frames'[j].kind \in Handlers
                 /\ \A m \in j + 1 .. k - 1 : frames'[m].kind \notin Handlers
    <3>1. h \in 1 .. w
      BY <1>1
    <3>2. PICK j \in h .. k - 1 :
            /\ frames[j].kind \in Handlers
            /\ \A m \in j + 1 .. k - 1 : frames[m].kind \notin Handlers
      BY <1>2, <2>1, <3>1 DEF Latest, w
    <3>3. j \in 1 .. w /\ \A m \in j + 1 .. k - 1 : m \in 1 .. w
      BY <1>1, <3>1
    <3>. QED
      BY <1>2, <3>2, <3>3
  <2>. QED
    BY <1>2, <2>1 DEF Latest
<1>. QED
  BY <1>3, <1>4, <1>5, <1>8, <1>9

-----------------------------------------------------------------------------
(***************************************************************************)
(* The lines and the flags that delay an interrupt.                        *)
(***************************************************************************)
LEMMA ExecuteTypes ==
  ASSUME TypeOK, NEW name \in Instructions, Execute(name)
  PROVE  /\ last' = name /\ last' \in Instructions /\ late' \in 0 .. 2
         /\ delayNmi' \in BOOLEAN /\ (delayNmi' => name = "ctrl")
         /\ irq' = irq
<1>1. last' = name /\ irq' = irq /\ (delayNmi' <=> name = "ctrl") /\ delayNmi' \in BOOLEAN
  BY DEF Execute
<1>2. late' \in 0 .. 2
  <2>1. late \in 0 .. 2 /\ late' \in {0, late + 1, 2} /\ (late' = late + 1 => late < 2)
    BY DEF Execute, TypeOK
  <2>. QED
    BY <2>1
<1>. QED
  BY <1>1, <1>2

LEMMA FlagTypes ==
  ASSUME TypeOK, Delays, [Next]_vars
  PROVE  /\ irq' \in 0 .. 1 /\ nmi' \in BOOLEAN /\ delayNmi' \in BOOLEAN
         /\ delayIrq' \in BOOLEAN /\ last' \in Instructions /\ late' \in 0 .. 2
         /\ Delays'
<1>. USE DEF lines
<1>0. /\ irq \in 0 .. 1 /\ nmi \in BOOLEAN /\ delayNmi \in BOOLEAN /\ delayIrq \in BOOLEAN
      /\ last \in Instructions /\ late \in 0 .. 2
      /\ "other" \in Instructions /\ "unmask" \in Instructions /\ "ctrl" \in Instructions
  BY DEF TypeOK, Instructions
<1>1. CASE TakeNmi \/ TakeIrq
  <2>1. /\ irq' = irq /\ nmi' \in {nmi, FALSE} /\ late' = 0
        /\ UNCHANGED <<delayNmi, delayIrq, last>>
    BY <1>1 DEF TakeNmi, TakeIrq
  <2>2. nmi' \in BOOLEAN
    BY <1>0, <2>1
  <2>. QED
    BY <1>0, <2>1, <2>2 DEF Delays
<1>2. CASE Plain \/ Php \/ Jsr \/ Rts \/ Brk \/ Rti
  <2>1. Execute("other")
    BY <1>2 DEF Plain, Php, Jsr, Rts, Brk, Rti
  <2>2. delayIrq' = FALSE /\ nmi' = nmi
    BY <1>2 DEF Plain, Php, Jsr, Rts, Brk, Rti
  <2>. QED
    BY <1>0, <2>1, <2>2, ExecuteTypes DEF Delays
<1>3. CASE WriteCtrl
  <2>1. Execute("ctrl") /\ nmi' = TRUE /\ delayIrq' = FALSE
    BY <1>3 DEF WriteCtrl
  <2>. QED
    BY <1>0, <2>1, ExecuteTypes DEF Delays
<1>4. CASE Cli \/ Plp
  <2>1. Execute("unmask") /\ nmi' = nmi
    BY <1>4 DEF Cli, Plp
  <2>2. delayIrq' \in BOOLEAN
    BY <1>4 DEF Cli, Plp, IrqPending
  <2>. QED
    BY <1>0, <2>1, <2>2, ExecuteTypes DEF Delays
<1>5. CASE Sei
  <2>1. Execute("other") /\ nmi' = nmi
    BY <1>5 DEF Sei
  <2>2. delayIrq' = FALSE
    BY <1>5 DEF Sei, IrqPending
  <2>. QED
    BY <1>0, <2>1, <2>2, ExecuteTypes DEF Delays
<1>6. CASE ChangeLines
  BY <1>0, <1>6 DEF ChangeLines, Delays
<1>7. CASE UNCHANGED vars
  BY <1>0, <1>7 DEF vars, Delays
<1>. QED
  BY <1>1, <1>2, <1>3, <1>4, <1>5, <1>6, <1>7 DEF Next, Instruction

-----------------------------------------------------------------------------
(***************************************************************************)
(* The frames, the stack and the I flag, over a step.                      *)
(***************************************************************************)
LEMMA FramesKept ==
  ASSUME Chained, Apart, Kept, Masked, Latest, UNCHANGED <<frames, sp, stack>>, iFlag => iFlag'
  PROVE  Chained' /\ Apart' /\ Kept' /\ Masked' /\ Latest'
<1>1. Chained'
  BY DEF Chained, Innermost
<1>2. Apart' /\ Latest'
  BY DEF Apart, Depth, Latest
<1>3. Kept'
  BY DEF Kept, Saved
<1>4. Masked'
  BY DEF Masked, Uncleared
<1>. QED
  BY <1>1, <1>2, <1>3, <1>4

LEMMA InterruptStep ==
  ASSUME TypeOK, Chained, Apart, Kept, Masked, Latest, TakeNmi \/ TakeIrq \/ Brk
  PROVE  /\ Chained' /\ Apart' /\ Kept' /\ Masked' /\ Latest'
         /\ frames' \in Seq(Frames) /\ Len(frames') = Len(frames) + 1 /\ Len(frames') <= MaxOpen
         /\ stack' \in [Sps -> Nat] /\ sp' \in Sps /\ pc' \in Pcs /\ iFlag' \in BOOLEAN
<1>1. PICK kind \in Handlers, vector \in Pcs, at \in Pcs, b \in BOOLEAN :
        Open(kind, at) /\ Interrupt(vector, at, b)
  <2>1. /\ pc \in Pcs /\ After(pc, 2) \in Pcs /\ NmiVector \in Pcs /\ IrqVector \in Pcs
        /\ "nmi" \in Handlers /\ "irq" \in Handlers /\ "brk" \in Handlers
    BY HiLo, InterruptsAssumption DEF TypeOK, Handlers
  <2>2. CASE TakeNmi
    BY <2>1, <2>2 DEF TakeNmi
  <2>3. CASE TakeIrq
    BY <2>1, <2>3 DEF TakeIrq
  <2>4. CASE Brk
    BY <2>1, <2>4 DEF Brk
  <2>. QED
    BY <2>2, <2>3, <2>4
<1>2. kind \in Kinds
  BY DEF Kinds, Handlers
<1>3. /\ Chained' /\ Apart' /\ Kept'
      /\ stack' \in [Sps -> Nat] /\ sp' \in Sps /\ pc' \in Pcs /\ iFlag' \in BOOLEAN /\ iFlag'
  BY <1>1, InterruptPushes
<1>4. Masked' /\ Latest'
  BY <1>1, <1>2, <1>3, MaskedOpen
<1>5. frames' \in Seq(Frames) /\ Len(frames') = Len(frames) + 1 /\ Len(frames') <= MaxOpen
  BY <1>1, <1>2, OpenType
<1>. QED
  BY <1>3, <1>4, <1>5

LEMMA PushStep ==
  ASSUME TypeOK, Chained, Apart, Kept, Masked, Latest, Jsr \/ Php
  PROVE  /\ Chained' /\ Apart' /\ Kept' /\ Masked' /\ Latest'
         /\ frames' \in Seq(Frames) /\ Len(frames') = Len(frames) + 1 /\ Len(frames') <= MaxOpen
         /\ stack' \in [Sps -> Nat] /\ sp' \in Sps /\ pc' \in Pcs /\ iFlag' = iFlag
<1>1. PICK kind \in Kinds \ Handlers, ret \in Pcs : Open(kind, ret)
  <2>1. /\ pc \in Pcs /\ After(pc, 3) \in Pcs
        /\ "call" \in Kinds \ Handlers /\ "php" \in Kinds \ Handlers
    BY HiLo DEF TypeOK, Handlers, Kinds
  <2>2. CASE Jsr
    BY <2>1, <2>2 DEF Jsr
  <2>3. CASE Php
    BY <2>1, <2>3 DEF Php
  <2>. QED
    BY <2>2, <2>3
<1>2. Chained' /\ Apart' /\ Kept' /\ stack' \in [Sps -> Nat] /\ sp' \in Sps
  BY JsrPushes, PhpPushes
<1>3. iFlag' = iFlag
  BY DEF Jsr, Php
<1>4. pc' \in Pcs
  <2>1. After(pc, 1) \in Pcs
    BY HiLo DEF TypeOK
  <2>. QED
    BY <2>1 DEF Jsr, Php
<1>5. Masked' /\ Latest'
  BY <1>1, <1>3, MaskedOpen
<1>6. frames' \in Seq(Frames) /\ Len(frames') = Len(frames) + 1 /\ Len(frames') <= MaxOpen
  BY <1>1, OpenType
<1>. QED
  BY <1>2, <1>3, <1>4, <1>5, <1>6

LEMMA FramesNext ==
  ASSUME TypeOK, Chained, Apart, Kept, Masked, Latest, [Next]_vars
  PROVE  /\ Chained' /\ Apart' /\ Kept' /\ Masked' /\ Latest'
         /\ frames' \in Seq(Frames) /\ Len(frames') <= MaxOpen
         /\ stack' \in [Sps -> Nat] /\ sp' \in Sps /\ pc' \in Pcs /\ iFlag' \in BOOLEAN
<1>0. /\ frames \in Seq(Frames) /\ Len(frames) <= MaxOpen
      /\ stack \in [Sps -> Nat] /\ sp \in Sps /\ pc \in Pcs /\ iFlag \in BOOLEAN
      /\ After(pc, 1) \in Pcs
  BY HiLo DEF TypeOK
<1>1. CASE TakeNmi \/ TakeIrq \/ Brk
  BY <1>1, InterruptStep
<1>2. CASE Jsr \/ Php
  BY <1>0, <1>2, PushStep
<1>3. CASE Plp \/ Rts \/ Rti
  <2>1. Masked' /\ Latest'
    BY <1>3, Pops, MaskedClose
  <2>. QED
    BY <1>3, <2>1, Pops, PopTypes
<1>4. CASE Cli
  <2>1. sp' = sp /\ stack' = stack /\ pc' = After(pc, 1) /\ iFlag' = FALSE
    BY <1>4 DEF Cli
  <2>2. frames' \in Seq(Frames) /\ Len(frames') = Len(frames)
    BY <1>4, CliFrames
  <2>. QED
    BY <1>0, <1>4, <2>1, <2>2, CliStep
<1>5. CASE Plain \/ WriteCtrl \/ Sei \/ ChangeLines \/ UNCHANGED vars
  <2>1. UNCHANGED <<frames, sp, stack>> /\ pc' \in Pcs
    BY <1>0, <1>5 DEF Plain, WriteCtrl, Sei, ChangeLines, vars
  <2>2. iFlag' \in BOOLEAN /\ (iFlag => iFlag')
    BY <1>0, <1>5 DEF Plain, WriteCtrl, Sei, ChangeLines, vars
  <2>. QED
    BY <1>0, <2>1, <2>2, FramesKept
<1>. QED
  BY <1>1, <1>2, <1>3, <1>4, <1>5 DEF Next, Instruction

-----------------------------------------------------------------------------
(***************************************************************************)
(* The theorems.                                                           *)
(***************************************************************************)
LEMMA IInvInit == Init => IInv
<1>. SUFFICES ASSUME Init PROVE IInv
  OBVIOUS
<1>1. frames = <<>> /\ Len(frames) = 0 /\ sp = InitialSp
  BY DEF Init
<1>2. TypeOK
  <2>1. pc \in Pcs /\ sp \in Sps /\ stack \in [Sps -> Nat]
    BY StackBasics DEF Init
  <2>2. frames \in Seq(Frames) /\ Len(frames) <= MaxOpen
    BY <1>1, StackBasics
  <2>. QED
    <3>1. /\ irq \in 0 .. 1 /\ iFlag \in BOOLEAN /\ nmi \in BOOLEAN
          /\ delayNmi \in BOOLEAN /\ delayIrq \in BOOLEAN
          /\ last \in Instructions /\ late \in 0 .. 2
      <4>1. irq = 0 /\ late = 0 /\ last = "other" /\ iFlag = TRUE /\ nmi = FALSE
            /\ delayNmi = FALSE /\ delayIrq = FALSE
        BY DEF Init
      <4>2. 0 \in 0 .. 1 /\ 0 \in 0 .. 2
        OBVIOUS
      <4>. QED
        BY <4>1, <4>2 DEF Instructions
    <3>. QED
      BY <2>1, <2>2, <3>1 DEF TypeOK
<1>3. Chained /\ Apart /\ Kept /\ Masked
  BY <1>1 DEF Chained, Apart, Kept, Masked
<1>4. Latest
  BY <1>1 DEF Latest
<1>5. Delays
  BY DEF Init, Delays
<1>. QED
  BY <1>2, <1>3, <1>4, <1>5 DEF IInv

LEMMA IInvNext == IInv /\ [Next]_vars => IInv'
<1>. SUFFICES ASSUME IInv, [Next]_vars PROVE IInv'
  OBVIOUS
<1>1. TypeOK /\ Chained /\ Apart /\ Kept /\ Masked /\ Latest /\ Delays
  BY DEF IInv
<1>2. /\ Chained' /\ Apart' /\ Kept' /\ Masked' /\ Latest'
      /\ frames' \in Seq(Frames) /\ Len(frames') <= MaxOpen
      /\ stack' \in [Sps -> Nat] /\ sp' \in Sps /\ pc' \in Pcs /\ iFlag' \in BOOLEAN
  BY <1>1, FramesNext
<1>3. /\ irq' \in 0 .. 1 /\ nmi' \in BOOLEAN /\ delayNmi' \in BOOLEAN
      /\ delayIrq' \in BOOLEAN /\ last' \in Instructions /\ late' \in 0 .. 2
      /\ Delays'
  BY <1>1, FlagTypes
<1>4. TypeOK'
  BY <1>2, <1>3 DEF TypeOK
<1>. QED
  BY <1>2, <1>3, <1>4 DEF IInv

LEMMA Invariance == Spec => []IInv
BY IInvInit, IInvNext, PTL DEF Spec

(* Every variable of exec_instruction keeps its type: sp wraps, and what   *)
(* is pushed are addresses and bytes.                                      *)
THEOREM InterruptTypes == Spec => []TypeOK
<1>1. IInv => TypeOK
  BY DEF IInv
<1>. QED
  BY <1>1, Invariance, PTL

(* A handler that has not executed CLI runs with IRQs masked, whatever was *)
(* called, pushed, interrupted and returned from in it.                    *)
THEOREM HandlersRunMasked == Spec => []MaskedInHandler
<1>1. IInv => MaskedInHandler
  <2>. SUFFICES ASSUME IInv, InHandlers # {}, ~frames[CurrentHandler].cleared
                PROVE  iFlag
    BY DEF MaskedInHandler
  <2>1. /\ CurrentHandler \in 1 .. Len(frames)
        /\ frames[CurrentHandler].kind \in Handlers
        /\ \A m \in CurrentHandler + 1 .. Len(frames) : frames[m].kind \notin Handlers
    BY Current DEF IInv
  <2>2. PICK l : l = Len(frames) + 1
    OBVIOUS
  <2>3. l - 1 = Len(frames)
    BY <2>2 DEF IInv, TypeOK
  <2>4. Uncleared(CurrentHandler, l)
    BY <2>1, <2>3 DEF Uncleared
  <2>. QED
    BY <2>1, <2>2, <2>4 DEF IInv, Masked
<1>. QED
  BY <1>1, Invariance, PTL

(* RTI, RTS and PLP give back the stack pointer, the address and the I     *)
(* flag of what they close, from bytes that nothing has overwritten.       *)
THEOREM ReturnsRestore == Spec => FramesRestored
<1>1. ASSUME IInv, [Next]_vars
      PROVE  [Len(frames') < Len(frames) =>
                /\ sp' = Innermost.sp
                /\ Innermost.kind # "php" => pc' = Innermost.ret
                /\ Innermost.kind # "call" => iFlag' = Innermost.i]_vars
  <2>0. TypeOK /\ Chained /\ Apart /\ Kept /\ Masked /\ Latest /\ Len(frames) \in Nat
    BY <1>1 DEF IInv, TypeOK
  <2>1. CASE TakeNmi \/ TakeIrq \/ Brk
    <3>1. Len(frames') = Len(frames) + 1
      BY <2>0, <2>1, InterruptStep
    <3>. QED
      BY <2>0, <3>1
  <2>2. CASE Jsr \/ Php
    <3>1. Len(frames') = Len(frames) + 1
      BY <2>0, <2>2, PushStep
    <3>. QED
      BY <2>0, <3>1
  <2>3. CASE Plp \/ Rts \/ Rti
    BY <2>0, <2>3, Pops
  <2>4. CASE Cli
    <3>1. Len(frames') = Len(frames)
      BY <2>0, <2>4, CliFrames
    <3>. QED
      BY <2>0, <3>1
  <2>5. CASE Plain \/ WriteCtrl \/ Sei \/ ChangeLines
    <3>1. Len(frames') = Len(frames)
      BY <2>5 DEF Plain, WriteCtrl, Sei, ChangeLines
    <3>. QED
      BY <2>0, <3>1
  <2>6. CASE UNCHANGED vars
    BY <2>6
  <2>. QED
    BY <1>1, <2>1, <2>2, <2>3, <2>4, <2>5, <2>6 DEF Next, Instruction
<1>. QED
  BY <1>1, Invariance, PTL DEF Spec, FramesRestored

(* Only CLI and PLP let one more instruction pass before a pending IRQ,    *)
(* and only a write of ppuctrl before a pending NMI.                       *)
THEOREM InterruptsComeInTime == Spec => NotPassedOver
<1>1. ASSUME IInv, [Next]_vars
      PROVE  [/\ late' > late => last = "unmask"
              /\ nmi /\ (Instruction \/ TakeIrq) => last = "ctrl"]_vars
  <2>0. Delays /\ late \in 0 .. 2
    BY <1>1 DEF IInv, TypeOK
  <2>1. CASE TakeNmi
    <3>1. late' = 0 /\ ~TakeIrq /\ ~Instruction
      BY <2>1 DEF TakeNmi, TakeIrq, IrqTaken, Instruction, Plain, WriteCtrl, Cli, Sei, Php,
                  Plp, Jsr, Rts, Brk, Rti, Execute
    <3>. QED
      BY <2>0, <3>1
  <2>2. CASE TakeIrq
    <3>1. late' = 0 /\ (nmi => delayNmi)
      BY <2>2 DEF TakeIrq, IrqTaken, NmiTaken
    <3>. QED
      BY <2>0, <3>1 DEF Delays
  <2>3. CASE Instruction
    <3>1. PICK name : Execute(name)
      BY <2>3 DEF Instruction, Plain, WriteCtrl, Cli, Sei, Php, Plp, Jsr, Rts, Brk, Rti
    <3>2. nmi => delayNmi
      BY <3>1 DEF Execute, NmiTaken
    <3>3. late' > late => delayIrq
      <4>1. late' > late => IrqPending(iFlag)
        BY <2>0, <3>1 DEF Execute
      <4>. QED
        BY <3>1, <4>1 DEF Execute, IrqTaken
    <3>. QED
      BY <2>0, <3>2, <3>3 DEF Delays
  <2>4. CASE ChangeLines
    <3>1. late' = late
      BY <2>4 DEF ChangeLines
    <3>2. nmi /\ (Instruction \/ TakeIrq) => nmi /\ ~NmiTaken
      BY DEF Instruction, TakeIrq, IrqTaken, Plain, WriteCtrl, Cli, Sei, Php, Plp, Jsr, Rts,
             Brk, Rti, Execute
    <3>. QED
      BY <2>0, <3>1, <3>2 DEF Delays, NmiTaken
  <2>5. CASE UNCHANGED vars
    BY <2>5
  <2>. QED
    BY <1>1, <2>1, <2>2, <2>3, <2>4, <2>5 DEF Next
<1>. QED
  BY <1>1, Invariance, PTL DEF Spec, NotPassedOver
=============================================================================
