----------------------------- MODULE Controller -----------------------------
(***************************************************************************)
(* controller.rs: the keys that are down are kept in a bitmap, which the   *)
(* window's events change; the game copies it into a shift register by     *)
(* writing 1 and then 0 to 0x4016, and reads it from there bit by bit.     *)
(* A byte is the set of its bits that are 1.                               *)
(***************************************************************************)
EXTENDS Naturals, Sequences

CONSTANTS
  Width,      \* bits of the register: 8
  ButtonBit   \* the bit of each key that is a button: a function

ASSUME ControllerAssumption ==
  /\ Width \in Nat \ {0}
  /\ \A k \in DOMAIN ButtonBit : ButtonBit[k] \in 0 .. Width - 1
  /\ \A k, l \in DOMAIN ButtonBit : ButtonBit[k] = ButtonBit[l] => k = l

VARIABLES
  bitmap,        \* key_state_bitmap
  shiftReg,      \* key_state_shift_reg
  strobeEnable,  \* StrobeBits.strobe_enable
  shiftEnable,   \* StrobeBits.shift_enable
  latched,       \* auxiliary: the bitmap at the end of the last strobe
  report         \* auxiliary: the bits read since, up to one more than Width

portVars == <<shiftReg, strobeEnable, shiftEnable, latched, report>>
controllerVars == <<bitmap, portVars>>

Bits == 0 .. Width - 1

ControllerTypeOK ==
  /\ bitmap \subseteq Bits /\ shiftReg \subseteq Bits /\ latched \subseteq Bits
  /\ strobeEnable \in BOOLEAN /\ shiftEnable \in BOOLEAN
  /\ report \in Seq(BOOLEAN) /\ Len(report) <= Width + 1

ControllerInit ==
  /\ bitmap = {} /\ shiftReg = {} /\ latched = {}
  /\ strobeEnable = FALSE /\ shiftEnable = FALSE
  /\ report = <<>>

IsButton(k) == k \in DOMAIN ButtonBit

\* Any other key is ignored.
SetKey(k) ==
  /\ bitmap' = IF IsButton(k) THEN bitmap \cup {ButtonBit[k]} ELSE bitmap
  /\ UNCHANGED portVars

UnsetKey(k) ==
  /\ bitmap' = IF IsButton(k) THEN bitmap \ {ButtonBit[k]} ELSE bitmap
  /\ UNCHANGED portVars

\* Mutant: the register is filled when the strobe begins.
WritePortEarly(one) ==
  /\ strobeEnable' = one
  /\ shiftEnable' = IF one THEN FALSE ELSE shiftEnable \/ strobeEnable
  /\ shiftReg' = IF one THEN bitmap ELSE shiftReg
  /\ IF ~one /\ strobeEnable
     THEN latched' = bitmap /\ report' = <<>>
     ELSE UNCHANGED <<latched, report>>
  /\ UNCHANGED bitmap

(* A write of bit 0: the register is filled when the strobe ends; a zero   *)
(* without a strobe does nothing.                                          *)
WritePort(one) ==
  /\ strobeEnable' = one
  /\ shiftEnable' = IF one THEN FALSE ELSE shiftEnable \/ strobeEnable
  /\ IF ~one /\ strobeEnable
     THEN shiftReg' = bitmap /\ latched' = bitmap /\ report' = <<>>
     ELSE UNCHANGED <<shiftReg, latched, report>>
  /\ UNCHANGED bitmap

\* Mutant: the one is shifted in beside the register.
ReadPortBeside ==
  /\ shiftReg' = IF shiftEnable THEN {b - 1 : b \in shiftReg \ {0}} \cup {Width}
                 ELSE shiftReg
  /\ report' = IF shiftEnable /\ Len(report) <= Width THEN Append(report, 0 \in shiftReg)
               ELSE report
  /\ UNCHANGED <<bitmap, strobeEnable, shiftEnable, latched>>

(* The last bit is shifted out and a one shifted in; without a finished    *)
(* strobe the first button is read as it is.                               *)
ReadPort ==
  /\ shiftReg' = IF shiftEnable THEN {b - 1 : b \in shiftReg \ {0}} \cup {Width - 1}
                 ELSE shiftReg
  /\ report' = IF shiftEnable /\ Len(report) <= Width THEN Append(report, 0 \in shiftReg)
               ELSE report
  /\ UNCHANGED <<bitmap, strobeEnable, shiftEnable, latched>>

(* The game reads one state of the buttons: what it reads after a strobe   *)
(* is the bitmap as it was when the strobe ended, in the order of the      *)
(* bits, then ones, whatever events are handled between the reads.         *)
ReportIsSnapshot ==
  shiftEnable =>
    \A i \in DOMAIN report : report[i] = (i > Width \/ i - 1 \in latched)
=============================================================================
