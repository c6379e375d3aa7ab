------------------------------ MODULE SaveFile ------------------------------
(***************************************************************************)
(* The file of `--save`: it is opened once, without truncating it.  A save *)
(* seeks to its start and writes the state of the machine through a        *)
(* BufWriter, piece by piece; the next start of the program reads as much  *)
(* as the machine that was made for the ROM needs, where the boxed slices  *)
(* take their length from the file.  There is neither a header nor a       *)
(* length of the whole, and the old save is overwritten.                   *)
(*                                                                         *)
(* A piece of the file is known by the save that wrote it.                 *)
(***************************************************************************)
EXTENDS Naturals, Sequences

CONSTANT
  SaveLength    \* pieces in a save of each ROM's new machine: a function on the ROMs

Roms == DOMAIN SaveLength

ASSUME SaveFileAssumption ==
  \A r \in Roms : SaveLength[r] \in Nat \ {0}

(* The lengths of a machine's fields: of which ROM it is, whether they are  *)
(* those of a new machine (0) or came from a file with other fields, and   *)
(* from which (the saves begun by then), and the pieces of its saves.      *)
Layouts == [rom : Roms, from : Nat, length : Nat \ {0}]
NewLayout(r) == [rom |-> r, from |-> 0, length |-> SaveLength[r]]

VARIABLES
  file,      \* the save that each piece of the file comes from
  pos,       \* the offset, which the clones of the handle share
  left,      \* pieces that the running save has yet to write
  saves,     \* the saves begun so far
  savedBy,   \* the layout of each of them, which its pieces show
  done,      \* auxiliary: the last save that was finished, or 0
  loaded,    \* the pieces that the machine was started from; <<>>: none
  layout     \* of the machine that was started last

saveFileVars == <<file, pos, left, saves, savedBy, done, loaded, layout>>

SaveFileTypeOK ==
  /\ saves \in Nat /\ savedBy \in Seq(Layouts) /\ Len(savedBy) = saves
  /\ file \in Seq(1 .. saves) /\ loaded \in Seq(1 .. saves)
  /\ pos \in 0 .. Len(file) /\ left \in Nat
  /\ done \in 0 .. saves /\ layout \in Layouts

SaveFileInit(r) ==
  /\ file = <<>> /\ pos = 0 /\ left = 0
  /\ saves = 0 /\ savedBy = <<>> /\ done = 0
  /\ loaded = <<>> /\ layout = NewLayout(r)

(***************************************************************************)
(* Starting.  A machine that reads pieces of another layout takes the      *)
(* lengths of some fields from them: it may need more or less of the file  *)
(* than a save of its own has.                                             *)
(***************************************************************************)
First == savedBy[file[1]]

\* What a machine of this ROM reads is all of one layout.
Own(r) == First.rom = r /\ \A i \in DOMAIN file : i <= First.length => savedBy[file[i]] = First

TooShort == Len(file) < First.length

StartFresh(r) ==
  /\ file = <<>>
  /\ loaded' = <<>> /\ pos' = 0 /\ layout' = NewLayout(r)
  /\ UNCHANGED <<file, left, saves, savedBy, done>>

\* The BufReader may read more than it hands out.
LoadPieces(n) ==
  /\ loaded' = SubSeq(file, 1, n)
  /\ pos' \in n .. Len(file)
  /\ UNCHANGED <<file, left, saves, savedBy, done>>

LoadOwn(r) ==
  /\ file # <<>> /\ Own(r) /\ ~TooShort
  /\ LoadPieces(First.length)
  /\ layout' = First

LoadForeign(r) ==
  /\ file # <<>> /\ ~Own(r)
  /\ \E n \in 1 .. Len(file) :
       /\ LoadPieces(n)
       /\ layout' = [rom |-> r, from |-> saves, length |-> n]

\* The program exits; what machine it had made does not matter.
Refuse(r) ==
  /\ file # <<>> /\ (Own(r) => TooShort)
  /\ loaded' = <<>> /\ pos' = 0 /\ layout' = NewLayout(r)
  /\ UNCHANGED <<file, left, saves, savedBy, done>>

(***************************************************************************)
(* Saving.                                                                 *)
(***************************************************************************)
\* Mutant: the shared offset is left where the last load or save ended.
BeginSaveNoSeek ==
  /\ saves' = saves + 1
  /\ savedBy' = Append(savedBy, layout)
  /\ left' = layout.length
  /\ UNCHANGED <<file, pos, done, loaded, layout>>

BeginSave ==
  /\ saves' = saves + 1
  /\ savedBy' = Append(savedBy, layout)
  /\ left' = layout.length
  /\ pos' = 0
  /\ UNCHANGED <<file, done, loaded, layout>>

\* The BufWriter is full, or flushed at the end.
WritePiece ==
  /\ left > 0 /\ left' = left - 1
  /\ file' = IF pos < Len(file) THEN [file EXCEPT ![pos + 1] = saves]
             ELSE Append(file, saves)
  /\ pos' = pos + 1
  /\ UNCHANGED <<saves, savedBy, done, loaded, layout>>

FinishSave ==
  /\ left = 0
  /\ done' = saves
  /\ UNCHANGED <<file, pos, left, saves, savedBy, loaded, layout>>

-----------------------------------------------------------------------------
(* No save was begun after the last finished one.                          *)
Intact == done # 0 /\ done = saves
(* Nothing but this ROM has been saved since.                              *)
OnlySaved(r) == done # 0 /\ \A id \in done .. saves : savedBy[id].rom = r
=============================================================================
