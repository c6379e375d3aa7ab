---------------------------- MODULE Ppu_proofs ----------------------------
(***************************************************************************)
(* Proofs about what the PPU does along a line.  SpriteEval: the search    *)
(* for the sprites of the next line and the list to draw.  VramAddr: where *)
(* lines and tiles are fetched from, and that the address the program has  *)
(* pointed at is kept.  Pixels: the line on the screen is the picture.     *)
(***************************************************************************)
EXTENDS SpriteEval, VramAddr, Pixels, PpuDots_proofs, FiniteSetTheorems

-----------------------------------------------------------------------------
(***************************************************************************)
(* Indices into OAM.                                                       *)
(***************************************************************************)
(* The index after one that is at most a sprite further wraps at the end.  *)
LEMMA Wrapping ==
  ASSUME NEW i \in OamBytes, NEW k \in 1 .. 4
  PROVE  Wrap(i + k) = IF i + k < 4 * NumSprites THEN i + k
                       ELSE i + k - 4 * NumSprites
<1>1. PICK M : M = 4 * NumSprites
  OBVIOUS
<1>2. M \in Nat /\ M >= 32 /\ i \in Int /\ 0 <= i /\ i < M
  BY <1>1, SpriteAssumption DEF OamBytes, NumSlots
<1>3. CASE i + k < M
  <2>1. (i + k) % M = i + k
    BY <1>2, <1>3
  <2>. QED
    BY <1>1, <1>3, <2>1 DEF Wrap
<1>4. CASE i + k >= M
  <2>1. (i + k) % M = i + k - M
    BY <1>2, <1>4
  <2>. QED
    BY <1>1, <1>2, <1>4, <2>1 DEF Wrap
<1>. QED
  BY <1>2, <1>3, <1>4

(* An index is a sprite and one of its four bytes.                         *)
LEMMA SpriteAndByte ==
  ASSUME NEW i \in OamBytes
  PROVE  /\ i \in Int /\ i = 4 * (i \div 4) + (i % 4)
         /\ i \div 4 \in 0 .. NumSprites - 1
         /\ i % 4 \in 0 .. 3
         /\ NumSprites \in Int /\ NumSprites >= 8 /\ NumSprites <= 64
BY SpriteAssumption DEF OamBytes, NumSlots

LEMMA IndexOf ==
  ASSUME NEW n \in 0 .. NumSprites - 1, NEW m \in 0 .. 3
  PROVE  /\ 4 * n + m \in OamBytes
         /\ (4 * n + m) \div 4 = n
         /\ (4 * n + m) % 4 = m
BY SpriteAssumption DEF OamBytes, NumSlots

-----------------------------------------------------------------------------
(***************************************************************************)
(* What one step of the evaluation does, part by part.                     *)
(***************************************************************************)
\* A slot holds a sprite and whether it was in range.
Entries == [sprite : 0 .. NumSprites - 1, inRange : BOOLEAN]

LEMMA CopyYParts ==
  ASSUME NEW e \in EvalTypes, e.found < NumSlots, e.idx % 4 = 0
  PROVE  /\ CopyY(e) \in EvalTypes
         /\ CopyY(e).found = e.found
         /\ CopyY(e).over = e.over
         /\ CopyY(e).sec = [e.sec EXCEPT ![e.found] =
               [sprite |-> e.idx \div 4, inRange |-> e.idx \in oam]]
         /\ e.idx \in oam => CopyY(e).idx = e.idx + 1 /\ CopyY(e).done = FALSE
         /\ e.idx \notin oam /\ e.idx \div 4 < NumSprites - 1 =>
              CopyY(e).idx = e.idx + 4 /\ CopyY(e).done = FALSE
         /\ e.idx \notin oam /\ e.idx \div 4 = NumSprites - 1 =>
              CopyY(e).idx = 0 /\ CopyY(e).done = TRUE
<1>. DEFINE in == e.idx \in oam
            next == IF in THEN e.idx + 1 ELSE Wrap(e.idx + 4)
            entry == [sprite |-> e.idx \div 4, inRange |-> in]
<1>1. /\ e.idx \in OamBytes /\ e.found \in 0 .. NumSlots
      /\ e.sec \in [Slots -> Entries] /\ e.over \in BOOLEAN
  BY DEF EvalTypes, Entries
<1>2. /\ e.idx \in Int /\ e.idx = 4 * (e.idx \div 4) /\ e.idx \div 4 \in 0 .. NumSprites - 1
      /\ NumSprites \in Int /\ NumSprites >= 8
  BY <1>1, SpriteAndByte
<1>3. e.idx \div 4 < NumSprites - 1 => Wrap(e.idx + 4) = e.idx + 4
  BY <1>1, <1>2, Wrapping
<1>4. e.idx \div 4 = NumSprites - 1 => Wrap(e.idx + 4) = 0
  BY <1>1, <1>2, Wrapping
<1>5. next \in OamBytes
  BY <1>2, <1>3, <1>4 DEF OamBytes
<1>6. entry \in Entries
  BY <1>2 DEF Entries
<1>7. e.found \in Slots
  BY <1>1 DEF Slots, NumSlots
<1>8. CopyY(e) = [e EXCEPT !.sec[e.found] = entry, !.idx = next,
                           !.done = ~in /\ next = 0]
  BY DEF CopyY
<1>. HIDE DEF next, entry
<1>9. /\ CopyY(e).found = e.found /\ CopyY(e).over = e.over
      /\ CopyY(e).sec = [e.sec EXCEPT ![e.found] = entry]
      /\ CopyY(e).idx = next /\ CopyY(e).done = (~in /\ next = 0)
  BY <1>8 DEF EvalTypes
<1>10. [e.sec EXCEPT ![e.found] = entry] \in [Slots -> Entries]
  BY <1>1, <1>6
<1>11. CopyY(e) \in EvalTypes
  BY <1>5, <1>8, <1>10 DEF EvalTypes, Entries
<1>12. in => next = e.idx + 1
  BY DEF next
<1>13. ~in /\ e.idx \div 4 < NumSprites - 1 => next = e.idx + 4 /\ next # 0
  BY <1>2, <1>3 DEF next
<1>14. ~in /\ e.idx \div 4 = NumSprites - 1 => next = 0
  BY <1>4 DEF next
<1>. QED
  BY <1>9, <1>11, <1>12, <1>13, <1>14 DEF entry

LEMMA CopyRestParts ==
  ASSUME NEW e \in EvalTypes, e.found < NumSlots, e.idx % 4 # 0
  PROVE  /\ CopyRest(e) \in EvalTypes
         /\ CopyRest(e).found = IF e.idx % 4 = 3 THEN e.found + 1 ELSE e.found
         /\ CopyRest(e).over = e.over /\ CopyRest(e).done = e.done
         /\ CopyRest(e).sec = e.sec
         /\ CopyRest(e).idx = Wrap(e.idx + 1)
         /\ e.idx \div 4 < NumSprites - 1 \/ e.idx % 4 # 3 =>
              CopyRest(e).idx = e.idx + 1
         /\ e.idx \div 4 = NumSprites - 1 /\ e.idx % 4 = 3 => CopyRest(e).idx = 0
<1>1. e.idx \in OamBytes /\ e.found \in 0 .. NumSlots
  BY DEF EvalTypes
<1>2. /\ e.idx \in Int /\ e.idx = 4 * (e.idx \div 4) + (e.idx % 4)
      /\ e.idx \div 4 \in 0 .. NumSprites - 1 /\ e.idx % 4 \in 0 .. 3
      /\ NumSprites \in Int /\ NumSprites >= 8
  BY <1>1, SpriteAndByte
<1>3. e.idx \div 4 < NumSprites - 1 \/ e.idx % 4 # 3 => Wrap(e.idx + 1) = e.idx + 1
  BY <1>1, <1>2, Wrapping
<1>4. e.idx \div 4 = NumSprites - 1 /\ e.idx % 4 = 3 => Wrap(e.idx + 1) = 0
  BY <1>1, <1>2, Wrapping
<1>5. Wrap(e.idx + 1) \in OamBytes
  BY <1>2, <1>3, <1>4 DEF OamBytes
<1>6. /\ CopyRest(e).found = IF e.idx % 4 = 3 THEN e.found + 1 ELSE e.found
      /\ CopyRest(e).over = e.over /\ CopyRest(e).done = e.done
      /\ CopyRest(e).sec = e.sec
      /\ CopyRest(e).idx = Wrap(e.idx + 1)
  BY DEF CopyRest, EvalTypes
<1>7. (IF e.idx % 4 = 3 THEN e.found + 1 ELSE e.found) \in 0 .. NumSlots
  BY <1>1 DEF NumSlots
<1>8. CopyRest(e) \in EvalTypes
  BY <1>5, <1>7 DEF CopyRest, EvalTypes
<1>. QED
  BY <1>3, <1>4, <1>6, <1>8

LEMMA ProbeParts ==
  ASSUME NEW e \in EvalTypes
  PROVE  /\ ProbeOverflow(e) \in EvalTypes
         /\ ProbeOverflow(e).found = e.found
         /\ ProbeOverflow(e).sec = e.sec
<1>. DEFINE next == Wrap(e.idx + 4)
            idx == IF next % 4 = 3 THEN next - 3 ELSE next + 1
<1>1. e.idx \in OamBytes
  BY DEF EvalTypes
<1>2. next \in OamBytes
  <2>1. next = IF e.idx + 4 < 4 * NumSprites THEN e.idx + 4
               ELSE e.idx + 4 - 4 * NumSprites
    BY <1>1, Wrapping
  <2>2. NumSprites \in Int /\ NumSprites >= 8
    BY SpriteAssumption DEF NumSlots
  <2>. QED
    BY <1>1, <2>1, <2>2 DEF OamBytes
<1>3. idx \in OamBytes
  <2>1. PICK q, r : q = next \div 4 /\ r = next % 4
    OBVIOUS
  <2>2. /\ next = 4 * q + r /\ q \in 0 .. NumSprites - 1 /\ r \in 0 .. 3
        /\ NumSprites \in Int
    BY <1>2, <2>1, SpriteAndByte
  <2>. HIDE DEF next
  <2>3. idx = IF r = 3 THEN 4 * q ELSE 4 * q + (r + 1)
    BY <2>1, <2>2
  <2>. QED
    BY <2>2, <2>3 DEF OamBytes
<1>4. ProbeOverflow(e) =
        IF e.idx \in oam THEN [e EXCEPT !.over = TRUE]
        ELSE [e EXCEPT !.done = next \div 4 = 0, !.idx = idx]
  BY DEF ProbeOverflow
<1>. HIDE DEF next, idx
<1>. QED
  BY <1>3, <1>4 DEF EvalTypes

LEMMA EvalOnceType ==
  ASSUME NEW e \in EvalTypes
  PROVE  EvalOnce(e) \in EvalTypes
<1>1. e.found < NumSlots /\ e.idx % 4 = 0 => CopyY(e) \in EvalTypes
  BY CopyYParts
<1>2. e.found < NumSlots /\ e.idx % 4 # 0 => CopyRest(e) \in EvalTypes
  BY CopyRestParts
<1>3. ProbeOverflow(e) \in EvalTypes
  BY ProbeParts
<1>. QED
  BY <1>1, <1>2, <1>3 DEF EvalOnce

-----------------------------------------------------------------------------
(***************************************************************************)
(* Slots are completed in range.                                           *)
(***************************************************************************)
\* The found slots were in range when their y was copied, and so was the one
\* that is being filled.
SlotsComplete(e) ==
  /\ \A s \in 0 .. e.found - 1 : e.sec[s].inRange
  /\ e.found < NumSlots /\ e.idx % 4 # 0 => e.sec[e.found].inRange

LEMMA EvalOnceCompletes ==
  ASSUME NEW e \in EvalTypes, SlotsComplete(e)
  PROVE  SlotsComplete(EvalOnce(e))
<1>1. e.idx \in OamBytes /\ e.found \in 0 .. NumSlots /\ e.sec \in [Slots -> Entries]
  BY DEF EvalTypes, Entries
<1>2. e.idx \in Int /\ e.idx % 4 \in 0 .. 3
  BY <1>1, SpriteAndByte
<1>3. CASE e.done
  BY <1>3 DEF EvalOnce
<1>4. CASE ~e.done /\ e.found < NumSlots /\ e.idx % 4 = 0
  <2>1. EvalOnce(e) = CopyY(e)
    BY <1>4 DEF EvalOnce
  <2>2. /\ CopyY(e).found = e.found
        /\ CopyY(e).sec = [e.sec EXCEPT ![e.found] =
              [sprite |-> e.idx \div 4, inRange |-> e.idx \in oam]]
    BY <1>4, CopyYParts
  <2>3. e.found \in Slots
    BY <1>1, <1>4 DEF Slots, NumSlots
  <2>4. \A s \in 0 .. e.found - 1 : CopyY(e).sec[s] = e.sec[s]
    BY <1>1, <2>2, <2>3
  <2>5. CopyY(e).sec[e.found].inRange = (e.idx \in oam)
    BY <1>1, <2>2, <2>3
  <2>6. e.idx \notin oam => CopyY(e).idx % 4 = 0
    <3>1. e.idx \notin oam => CopyY(e).idx \in {e.idx + 4, 0}
      <4>1. e.idx \div 4 < NumSprites - 1 \/ e.idx \div 4 = NumSprites - 1
        BY <1>1, SpriteAndByte
      <4>. QED
        BY <1>4, <4>1, CopyYParts
    <3>2. (e.idx + 4) % 4 = 0
      BY <1>2, <1>4
    <3>. QED
      BY <3>1, <3>2
  <2>. QED
    BY <2>1, <2>2, <2>4, <2>5, <2>6 DEF SlotsComplete
<1>5. CASE ~e.done /\ e.found < NumSlots /\ e.idx % 4 # 0
  <2>1. EvalOnce(e) = CopyRest(e)
    BY <1>5 DEF EvalOnce
  <2>2. /\ CopyRest(e).found = IF e.idx % 4 = 3 THEN e.found + 1 ELSE e.found
        /\ CopyRest(e).sec = e.sec
    BY <1>5, CopyRestParts
  <2>3. e.sec[e.found].inRange
    BY <1>5 DEF SlotsComplete
  <2>4. CASE e.idx % 4 # 3
    BY <2>1, <2>2, <2>3, <2>4 DEF SlotsComplete
  <2>5. CASE e.idx % 4 = 3
    <3>1. CopyRest(e).idx \in {e.idx + 1, 0}
      BY <1>1, <1>5, CopyRestParts, SpriteAndByte
    <3>2. CopyRest(e).idx % 4 = 0
      BY <1>2, <2>5, <3>1
    <3>3. \A s \in 0 .. e.found : e.sec[s].inRange
      BY <1>1, <2>3 DEF SlotsComplete
    <3>. QED
      BY <1>1, <2>1, <2>2, <2>5, <3>2, <3>3 DEF SlotsComplete
  <2>. QED
    BY <2>4, <2>5
<1>6. CASE ~e.done /\ ~(e.found < NumSlots)
  <2>1. EvalOnce(e).found = e.found /\ EvalOnce(e).sec = e.sec
    BY <1>6, ProbeParts DEF EvalOnce
  <2>. QED
    BY <1>6, <2>1 DEF SlotsComplete
<1>. QED
  BY <1>3, <1>4, <1>5, <1>6

-----------------------------------------------------------------------------
(***************************************************************************)
(* The search of an OAM that does not change.                              *)
(***************************************************************************)
\* What FirstSpritesFound says of the end of the search.
FirstFound(e) ==
  /\ \A s, t \in 0 .. e.found - 1 : s < t => e.sec[s].sprite < e.sec[t].sprite
  /\ \A s \in 0 .. e.found - 1 : e.sec[s].sprite \in SpritesInRange
  /\ \A n \in SpritesInRange :
       \/ \E s \in 0 .. e.found - 1 : e.sec[s].sprite = n
       \/ e.found = NumSlots /\ n > e.sec[NumSlots - 1].sprite

\* The search has come to sprite c: the slots hold the sprites in range that
\* lie before it, and as many as there are.
UpTo(e, c) ==
  /\ \A s, t \in 0 .. e.found - 1 : s < t => e.sec[s].sprite < e.sec[t].sprite
  /\ \A s \in 0 .. e.found - 1 : e.sec[s].sprite \in SpritesInRange
  /\ \A s \in 0 .. e.found - 1 : e.sec[s].sprite < c
  /\ \A n \in SpritesInRange :
       n < c => \E s \in 0 .. e.found - 1 : e.sec[s].sprite = n

(* After k steps of the search.  A step passes a sprite that is out of     *)
(* range, or copies one of the four bytes of one that is in range: so the  *)
(* steps count the sprites passed, three more for every slot filled, and   *)
(* the bytes copied of the present sprite.                                 *)
Searching(e, k) ==
  /\ ~e.done
  /\ e.found < NumSlots
  /\ UpTo(e, e.idx \div 4)
  /\ e.idx % 4 # 0 => /\ e.idx \div 4 \in SpritesInRange
                      /\ e.sec[e.found].sprite = e.idx \div 4
  /\ k = e.idx \div 4 + 3 * e.found + (e.idx % 4)

Search(e, k) ==
  \/ Searching(e, k)
  \/ (e.done \/ e.found = NumSlots) /\ FirstFound(e)

(* One step of the search over an OAM whose last sprite is out of range.   *)
LEMMA SearchStep ==
  ASSUME NEW e \in EvalTypes, NEW k \in Nat, Search(e, k), ~LastInRange
  PROVE  Search(EvalOnce(e), k + 1)
<1>. DEFINE c == e.idx \div 4
            m == e.idx % 4
<1>1. /\ e.idx \in OamBytes /\ e.found \in 0 .. NumSlots /\ e.sec \in [Slots -> Entries]
      /\ e.found \in Int /\ 0 <= e.found
  BY DEF EvalTypes, Entries, NumSlots
<1>2. /\ e.idx \in Int /\ e.idx = 4 * c + m /\ c \in 0 .. NumSprites - 1 /\ m \in 0 .. 3
      /\ NumSprites \in Int /\ NumSprites >= 8
  BY <1>1, SpriteAndByte
<1>3. \A s \in Slots : e.sec[s].sprite \in 0 .. NumSprites - 1
  BY <1>1 DEF Entries
<1>4. SpritesInRange \subseteq 0 .. NumSprites - 2
  <2>1. \A n \in SpritesInRange : n \in 0 .. NumSprites - 1 /\ n # NumSprites - 1
    BY DEF LastInRange, SpritesInRange
  <2>. QED
    BY <1>2, <2>1
<1>5. m = 0 => e.idx = 4 * c /\ (e.idx \in oam <=> c \in SpritesInRange)
  <2>1. c \in SpritesInRange <=> 4 * c \in oam
    BY <1>2 DEF SpritesInRange
  <2>2. m = 0 => e.idx = 4 * c
    BY <1>2
  <2>. QED
    BY <2>1, <2>2
<1>6. CASE e.done
  BY <1>6 DEF Search, Searching, EvalOnce
<1>7. CASE ~e.done /\ e.found = NumSlots
  <2>1. EvalOnce(e).found = e.found /\ EvalOnce(e).sec = e.sec
    BY <1>7, ProbeParts DEF EvalOnce, NumSlots
  <2>2. FirstFound(e)
    BY <1>7 DEF Search, Searching, NumSlots
  <2>. QED
    BY <1>7, <2>1, <2>2 DEF Search, FirstFound
<1>8. CASE ~e.done /\ e.found # NumSlots
  <2>1. /\ Searching(e, k) /\ e.found < NumSlots /\ e.found \in Slots
        /\ 0 .. e.found - 1 \subseteq Slots
    BY <1>1, <1>8 DEF Search, Slots, NumSlots
  <2>2. /\ UpTo(e, c) /\ k = c + 3 * e.found + m
        /\ m # 0 => c \in SpritesInRange /\ e.sec[e.found].sprite = c
    BY <2>1 DEF Searching
  <2>3. CASE m = 0
    <3>1. EvalOnce(e) = CopyY(e)
      BY <1>8, <2>1, <2>3 DEF EvalOnce
    <3>2. PICK d : d = CopyY(e)
      OBVIOUS
    <3>3. /\ d.found = e.found
          /\ d.sec = [e.sec EXCEPT ![e.found] =
                [sprite |-> c, inRange |-> e.idx \in oam]]
      BY <2>1, <2>3, <3>2, CopyYParts
    <3>4. \A s \in 0 .. e.found - 1 : d.sec[s] = e.sec[s]
      BY <1>1, <2>1, <3>3
    <3>5. d.sec[e.found].sprite = c
      BY <1>1, <2>1, <3>3
    <3>. HIDE DEF c, m
    <3>6. UpTo(d, c)
      BY <2>2, <3>3, <3>4 DEF UpTo
    <3>7. CASE c \in SpritesInRange
      <4>1. e.idx \in oam
        BY <1>2, <1>5, <2>3, <3>7
      <4>2. d.idx = 4 * c + 1 /\ d.done = FALSE
        <5>1. d.idx = e.idx + 1 /\ d.done = FALSE
          BY <2>1, <2>3, <3>2, <4>1, CopyYParts DEF m
        <5>. QED
          BY <1>5, <2>3, <5>1
      <4>3. d.idx \div 4 = c /\ d.idx % 4 = 1
        BY <1>2, <4>2, IndexOf
      <4>4. k + 1 = d.idx \div 4 + 3 * d.found + (d.idx % 4)
        BY <1>1, <1>2, <2>2, <2>3, <3>3, <4>3
      <4>5. Searching(d, k + 1)
        BY <2>1, <3>3, <3>5, <3>6, <3>7, <4>2, <4>3, <4>4 DEF Searching
      <4>. QED
        BY <3>1, <3>2, <4>5 DEF Search
    <3>8. CASE c \notin SpritesInRange /\ c < NumSprites - 1
      <4>1. e.idx \notin oam
        BY <1>2, <1>5, <2>3, <3>8
      <4>2. d.idx = e.idx + 4 /\ d.done = FALSE
        BY <2>1, <2>3, <3>2, <3>8, <4>1, CopyYParts DEF c, m
      <4>3. d.idx = 4 * (c + 1) + 0 /\ c + 1 \in 0 .. NumSprites - 1
        BY <1>2, <2>3, <3>8, <4>2
      <4>4. d.idx \div 4 = c + 1 /\ d.idx % 4 = 0
        BY <4>3, IndexOf
      <4>5. k + 1 = d.idx \div 4 + 3 * d.found + (d.idx % 4)
        BY <1>1, <1>2, <2>2, <2>3, <3>3, <4>4
      <4>6. UpTo(d, c + 1)
        <5>1. \A n \in SpritesInRange : n < c + 1 => n < c
          BY <1>2, <1>4, <3>8
        <5>2. \A s \in 0 .. d.found - 1 : d.sec[s].sprite < c + 1
          BY <1>2, <1>3, <2>1, <3>3, <3>4, <3>6 DEF UpTo
        <5>. QED
          BY <3>6, <5>1, <5>2 DEF UpTo
      <4>7. Searching(d, k + 1)
        BY <2>1, <3>3, <4>2, <4>4, <4>5, <4>6 DEF Searching
      <4>. QED
        BY <3>1, <3>2, <4>7 DEF Search
    <3>9. CASE c \notin SpritesInRange /\ c = NumSprites - 1
      <4>1. e.idx \notin oam
        BY <1>2, <1>5, <2>3, <3>9
      <4>2. d.done = TRUE
        BY <2>1, <2>3, <3>2, <3>9, <4>1, CopyYParts DEF c, m
      <4>3. \A n \in SpritesInRange : n < c
        BY <1>2, <1>4, <3>9
      <4>4. FirstFound(d)
        BY <3>6, <4>3 DEF UpTo, FirstFound
      <4>. QED
        BY <3>1, <3>2, <4>2, <4>4 DEF Search
    <3>. QED
      BY <1>2, <3>7, <3>8, <3>9
  <2>4. CASE m # 0
    <3>1. EvalOnce(e) = CopyRest(e)
      BY <1>8, <2>1, <2>4 DEF EvalOnce
    <3>2. PICK d : d = CopyRest(e)
      OBVIOUS
    <3>3. c \in SpritesInRange /\ c < NumSprites - 1 /\ e.sec[e.found].sprite = c
      BY <1>2, <1>4, <2>2, <2>4
    <3>4. /\ d.found = IF m = 3 THEN e.found + 1 ELSE e.found
          /\ d.done = e.done /\ d.sec = e.sec
          /\ d.idx = e.idx + 1
      BY <2>1, <2>4, <3>2, <3>3, CopyRestParts
    <3>. HIDE DEF c, m
    <3>5. CASE m # 3
      <4>1. d.idx = 4 * c + (m + 1) /\ m + 1 \in 0 .. 3
        BY <1>2, <3>4, <3>5
      <4>2. d.idx \div 4 = c /\ d.idx % 4 = m + 1
        BY <1>2, <4>1, IndexOf
      <4>3. UpTo(d, c)
        BY <2>2, <3>4, <3>5 DEF UpTo
      <4>4. k + 1 = d.idx \div 4 + 3 * d.found + (d.idx % 4)
        BY <1>1, <1>2, <2>2, <3>4, <3>5, <4>2
      <4>5. Searching(d, k + 1)
        BY <1>8, <2>1, <3>3, <3>4, <3>5, <4>2, <4>3, <4>4 DEF Searching
      <4>. QED
        BY <3>1, <3>2, <4>5 DEF Search
    <3>6. CASE m = 3
      <4>1. d.idx = 4 * (c + 1) + 0 /\ c + 1 \in 0 .. NumSprites - 1 /\ d.found = e.found + 1
        BY <1>2, <3>3, <3>4, <3>6
      <4>2. d.idx \div 4 = c + 1 /\ d.idx % 4 = 0
        BY <4>1, IndexOf
      <4>3. 0 .. d.found - 1 = (0 .. e.found - 1) \cup {e.found}
        BY <1>1, <4>1
      <4>4. UpTo(d, c + 1)
        <5>1. \A s \in 0 .. e.found - 1 : e.sec[s].sprite < c
          BY <2>2 DEF UpTo
        <5>2. \A s, t \in 0 .. d.found - 1 : s < t => d.sec[s].sprite < d.sec[t].sprite
          <6>1. SUFFICES ASSUME NEW s \in 0 .. d.found - 1, NEW t \in 0 .. d.found - 1,
                                s < t
                         PROVE  d.sec[s].sprite < d.sec[t].sprite
            OBVIOUS
          <6>2. s \in 0 .. e.found - 1
            BY <1>1, <4>1, <6>1
          <6>. QED
            BY <2>2, <3>3, <3>4, <4>3, <5>1, <6>1, <6>2 DEF UpTo
        <5>3. \A s \in 0 .. d.found - 1 : d.sec[s].sprite \in SpritesInRange
          BY <2>2, <3>3, <3>4, <4>3 DEF UpTo
        <5>4. \A s \in 0 .. d.found - 1 : d.sec[s].sprite < c + 1
          BY <1>2, <1>3, <2>1, <3>3, <3>4, <4>3, <5>1
        <5>5. ASSUME NEW n \in SpritesInRange, n < c + 1
              PROVE  \E s \in 0 .. d.found - 1 : d.sec[s].sprite = n
          <6>1. n < c \/ n = c
            BY <1>2, <1>4, <5>5
          <6>2. n < c => \E s \in 0 .. e.found - 1 : e.sec[s].sprite = n
            BY <2>2 DEF UpTo
          <6>. QED
            BY <3>3, <3>4, <4>3, <6>1, <6>2
        <5>. QED
          BY <5>2, <5>3, <5>4, <5>5 DEF UpTo
      <4>5. CASE d.found = NumSlots
        <5>1. d.sec[NumSlots - 1].sprite = c
          BY <1>1, <3>3, <3>4, <4>1, <4>5
        <5>2. \A n \in SpritesInRange : n < c + 1 \/ n > c
          BY <1>2, <1>4
        <5>3. FirstFound(d)
          BY <4>4, <4>5, <5>1, <5>2 DEF UpTo, FirstFound
        <5>. QED
          BY <3>1, <3>2, <4>5, <5>3 DEF Search
      <4>6. CASE d.found # NumSlots
        <5>1. d.found < NumSlots
          BY <1>1, <2>1, <4>1, <4>6 DEF NumSlots
        <5>2. k + 1 = d.idx \div 4 + 3 * d.found + (d.idx % 4)
          BY <1>1, <1>2, <2>2, <3>6, <4>1, <4>2
        <5>3. Searching(d, k + 1)
          BY <1>8, <3>4, <4>2, <4>4, <5>1, <5>2 DEF Searching
        <5>. QED
          BY <3>1, <3>2, <5>3 DEF Search
      <4>. QED
        BY <4>5, <4>6
    <3>. QED
      BY <3>5, <3>6
  <2>. QED
    BY <2>3, <2>4
<1>. QED
  BY <1>6, <1>7, <1>8

(* The search starts at sprite 0, with nothing found.                      *)
LEMMA SearchStarts ==
  ASSUME NEW e, e.idx = 0, e.found = 0, e.done = FALSE
  PROVE  Search(e, 0)
<1>1. \A n \in SpritesInRange : ~(n < 0)
  BY SpriteAssumption DEF SpritesInRange, NumSlots
<1>2. UpTo(e, 0)
  BY <1>1 DEF UpTo
<1>3. 0 \div 4 = 0 /\ 0 % 4 = 0
  OBVIOUS
<1>. QED
  BY <1>2, <1>3 DEF Search, Searching, NumSlots

(* What has been found stays so while OAM does not change.                 *)
LEMMA SearchKept ==
  ASSUME NEW e, ev' = e, oam' = oam
  PROVE  /\ \A k : Search(e, k) => Search(ev, k)'
         /\ FirstFound(e) => FirstFound(ev)'
         /\ LastInRange' = LastInRange
<1>1. SpritesInRange' = SpritesInRange
  BY DEF SpritesInRange
<1>2. FirstFound(e) => FirstFound(ev)'
  BY <1>1 DEF FirstFound
<1>3. \A k : Searching(e, k) => Searching(ev, k)'
  BY <1>1 DEF Searching, UpTo
<1>. QED
  BY <1>1, <1>2, <1>3 DEF Search, LastInRange

(* The search has an end: with all its 96 steps made it is not searching   *)
(* any more.                                                               *)
LEMMA SearchEnds ==
  ASSUME NEW e \in EvalTypes, Search(e, 96)
  PROVE  FirstFound(e)
<1>1. e.idx \in OamBytes /\ e.found \in 0 .. 8
  BY DEF EvalTypes, NumSlots
<1>2. /\ e.idx \div 4 \in 0 .. NumSprites - 1 /\ e.idx % 4 \in 0 .. 3
      /\ NumSprites \in Int /\ NumSprites <= 64
  BY <1>1, SpriteAndByte
<1>3. ~Searching(e, 96)
  BY <1>1, <1>2 DEF Searching, NumSlots
<1>. QED
  BY <1>3 DEF Search

(* The overflow flag is only set once every slot is full.                  *)
LEMMA OverflowWhenFull ==
  ASSUME NEW e \in EvalTypes
  PROVE  /\ e.found = NumSlots => EvalOnce(e).found = NumSlots
         /\ EvalOnce(e).over => e.over \/ EvalOnce(e).found = NumSlots
<1>1. e.found \in 0 .. 8
  BY DEF EvalTypes, NumSlots
<1>2. CASE e.done
  BY <1>2 DEF EvalOnce
<1>3. CASE ~e.done /\ e.found < NumSlots
  <2>1. EvalOnce(e) = IF e.idx % 4 = 0 THEN CopyY(e) ELSE CopyRest(e)
    BY <1>3 DEF EvalOnce
  <2>2. EvalOnce(e).over = e.over
    BY <1>3, <2>1, CopyYParts, CopyRestParts
  <2>. QED
    BY <1>1, <1>3, <2>2 DEF NumSlots
<1>4. CASE ~e.done /\ ~(e.found < NumSlots)
  <2>1. EvalOnce(e).found = e.found
    BY <1>4, ProbeParts DEF EvalOnce
  <2>. QED
    BY <1>1, <1>4, <2>1 DEF NumSlots
<1>. QED
  BY <1>2, <1>3, <1>4

(* Full slots hold eight different sprites, all in range.                  *)
LEMMA FullMeansEnough ==
  ASSUME NEW e \in EvalTypes, e.found = NumSlots, FirstFound(e)
  PROVE  EnoughSprites
<1>1. 0 .. e.found - 1 = Slots
  BY DEF Slots
<1>2. e.sec \in [Slots -> Entries]
  BY DEF EvalTypes, Entries
<1>3. PICK f : f = [s \in Slots |-> e.sec[s].sprite]
  OBVIOUS
<1>4. \A s \in Slots : f[s] \in SpritesInRange /\ f[s] \in Int
  <2>1. \A n \in SpritesInRange : n \in Int
    BY SpriteAssumption DEF SpritesInRange, NumSlots
  <2>2. \A s \in Slots : f[s] \in SpritesInRange
    BY <1>1, <1>3 DEF FirstFound
  <2>. QED
    BY <2>1, <2>2
<1>5. \A s, t \in Slots : f[s] = f[t] => s = t
  <2>1. \A s, t \in Slots : s < t => f[s] < f[t]
    BY <1>1, <1>3 DEF FirstFound
  <2>2. \A s, t \in Slots : s # t => s < t \/ t < s
    BY DEF Slots, NumSlots
  <2>. QED
    BY <1>4, <2>1, <2>2
<1>6. f \in Injection(Slots, SpritesInRange)
  BY <1>3, <1>4, <1>5 DEF Injection, IsInjective
<1>7. IsFiniteSet(SpritesInRange)
  <2>1. NumSprites \in Int
    BY SpriteAssumption DEF NumSlots
  <2>2. IsFiniteSet(0 .. NumSprites - 1)
    BY <2>1, FS_Interval
  <2>. QED
    BY <2>2, FS_Subset DEF SpritesInRange
<1>8. IsFiniteSet(Slots) /\ Cardinality(Slots) = 8
  <2>1. PICK a \in Int, b \in Int : a = 0 /\ b = 7
    OBVIOUS
  <2>2. IsFiniteSet(a .. b) /\ Cardinality(a .. b) = IF a > b THEN 0 ELSE b - a + 1
    BY FS_Interval
  <2>3. Slots = a .. b
    BY <2>1 DEF Slots, NumSlots
  <2>. QED
    BY <2>1, <2>2, <2>3
<1>9. Cardinality(Slots) <= Cardinality(SpritesInRange)
  BY <1>6, <1>7, FS_Injection
<1>. QED
  BY <1>7, <1>8, <1>9, FS_CardinalityType DEF EnoughSprites, NumSlots

-----------------------------------------------------------------------------
(***************************************************************************)
(* One step of the fetches.                                                *)
(***************************************************************************)
LEMMA FetchParts ==
  ASSUME NEW e \in EvalTypes, draw \in [Slots -> -1 .. NumSprites - 1],
         NEW q \in Slots, e.idx = 4 * q, Fetch(e)
  PROVE  /\ ev' \in EvalTypes
         /\ ev'.found = e.found /\ ev'.sec = e.sec
         /\ draw' \in [Slots -> -1 .. NumSprites - 1]
         /\ draw' = [draw EXCEPT ![q] = IF q < e.found THEN e.sec[q].sprite ELSE End]
         /\ q < e.found /\ q < NumSlots - 1 => ev'.idx = 4 * (q + 1)
         /\ q < e.found /\ q = NumSlots - 1 => ev'.idx \in {0, 4 * (q + 1)}
         /\ q >= e.found => ev'.idx = 4 * q
         /\ ev'.idx % 4 = 0
<1>1. /\ e.found \in 0 .. 8 /\ e.idx \in OamBytes /\ e.sec \in [Slots -> Entries]
      /\ q \in 0 .. 7 /\ NumSprites \in Int /\ NumSprites >= 8
  BY SpriteAssumption DEF EvalTypes, Entries, NumSlots, Slots
<1>2. e.idx \div 4 = q
  BY <1>1
<1>3. Wrap(4 * q + 4) = IF 4 * q + 4 < 4 * NumSprites THEN 4 * q + 4
                        ELSE 4 * q + 4 - 4 * NumSprites
  BY <1>1, Wrapping
<1>4. q < 7 => Wrap(4 * q + 4) = 4 * (q + 1)
  BY <1>1, <1>3
<1>5. q = 7 => Wrap(4 * q + 4) \in {0, 32}
  BY <1>1, <1>3
<1>6. Wrap(4 * q + 4) \in OamBytes
  BY <1>1, <1>3 DEF OamBytes
<1>7. e.sec[q].sprite \in 0 .. NumSprites - 1
  BY <1>1 DEF Entries
<1>8. CASE q < e.found
  <2>1. /\ draw' = [draw EXCEPT ![q] = e.sec[q].sprite]
        /\ ev' = [e EXCEPT !.idx = Wrap(4 * q + 4)]
    BY <1>2, <1>8 DEF Fetch
  <2>2. ev' \in EvalTypes
    BY <1>6, <2>1 DEF EvalTypes
  <2>3. ev'.found = e.found /\ ev'.sec = e.sec /\ ev'.idx = Wrap(4 * q + 4)
    BY <2>1 DEF EvalTypes
  <2>4. draw' \in [Slots -> -1 .. NumSprites - 1]
    BY <1>1, <1>7, <2>1
  <2>5. Wrap(4 * q + 4) % 4 = 0
    BY <1>1, <1>4, <1>5
  <2>. QED
    BY <1>1, <1>4, <1>5, <1>8, <2>1, <2>2, <2>3, <2>4, <2>5 DEF NumSlots
<1>9. CASE ~(q < e.found)
  <2>1. draw' = [draw EXCEPT ![q] = End] /\ ev' = e
    BY <1>2, <1>9 DEF Fetch
  <2>2. draw' \in [Slots -> -1 .. NumSprites - 1]
    BY <1>1, <2>1 DEF End
  <2>3. e.idx % 4 = 0
    BY <1>1
  <2>. QED
    BY <1>9, <2>1, <2>2, <2>3
<1>. QED
  BY <1>8, <1>9

-----------------------------------------------------------------------------
(***************************************************************************)
(* The inductive invariant.                                                *)
(***************************************************************************)
\* The steps of the search that have been made, four on each dot from 65 on.
Evaluations == IF dot <= 65 THEN 0 ELSE (dot - 65) \div 2

\* What the search of an unchanging OAM has found so far, and in the end.
SearchGoes ==
  steady /\ line # PreRender /\ ~LastInRange =>
    /\ dot \in 1 .. 257 => Search(ev, Evaluations)
    /\ dot >= 258 => FirstFound(ev)

\* While the slots are fetched the index is that of a slot that exists, even
\* when rendering was off for some of the steps.
FetchIndex ==
  dot \in 258 .. 320 => \E q \in Slots : ev.idx = 4 * q /\ 8 * q <= dot - 257

\* After k fetches the list to draw holds the first k found slots, or all of
\* them and the end marker.
Fetched(k) ==
  /\ \A s \in 0 .. ev.found - 1 : s < k => draw[s] = ev.sec[s].sprite
  /\ ev.found < k => draw[ev.found] = End

\* The fetches of a line that is rendered throughout, one on every eighth dot.
FetchGoes ==
  steady =>
    /\ \A k \in 1 .. 7 :
         dot = 257 + 8 * k => /\ ev.idx = 4 * (IF k < ev.found THEN k ELSE ev.found)
                              /\ Fetched(k)
    /\ dot >= 321 => Fetched(NumSlots)

SpritesInv ==
  /\ SpritesTypeOK
  /\ SlotsComplete(ev)
  /\ steady => rendering
  /\ SearchGoes
  /\ FetchIndex
  /\ FetchGoes

LEMMA SpritesInvInit == SpritesInit => SpritesInv
<1>. SUFFICES ASSUME SpritesInit PROVE SpritesInv
  OBVIOUS
<1>1. /\ NumSprites \in Int /\ NumSprites >= 8 /\ NumSprites <= 64
      /\ Oams \subseteq SUBSET OamBytes /\ MaxWrites \in Nat
  BY SpriteAssumption DEF NumSlots
<1>2. 0 \in OamBytes /\ 0 \in 0 .. NumSprites - 1 /\ 0 \in 0 .. NumSlots
  BY <1>1 DEF OamBytes, NumSlots
<1>3. ev \in EvalTypes
  BY <1>2 DEF SpritesInit, EvalTypes
<1>4. line \in RenderLines /\ dot \in RenderDots
  BY LinesAndDots DEF SpritesInit, RenderDots
<1>5. draw \in [Slots -> -1 .. NumSprites - 1]
  BY <1>1 DEF SpritesInit
<1>6. SpritesTypeOK
  <2>1. oam \in SUBSET OamBytes /\ writes \in 0 .. MaxWrites
    BY <1>1 DEF SpritesInit
  <2>2. rendering \in BOOLEAN /\ steady \in BOOLEAN
    BY DEF SpritesInit
  <2>. QED
    BY <1>3, <1>4, <1>5, <2>1, <2>2 DEF SpritesTypeOK
<1>7. ev.found = 0 /\ ev.idx = 0 /\ dot = 0 /\ ~steady
  BY DEF SpritesInit
<1>8. SlotsComplete(ev)
  BY <1>7 DEF SlotsComplete
<1>. QED
  BY <1>6, <1>7, <1>8 DEF SpritesInv, SearchGoes, FetchIndex, FetchGoes

(* The dots of a render line, as the search and the fetches count them.    *)
LEMMA DotKinds ==
  ASSUME NEW d \in RenderDots
  PROVE  /\ d \in 0 .. 336
         /\ d \in 1 .. 256 => \E j \in 0 .. 31 : d = 1 + 8 * j
         /\ d \in 258 .. 320 => \E k \in 1 .. 7 : d = 257 + 8 * k
         /\ d \in 321 .. 336 => d \in {321, 328, 336}
<1>1. CASE d \in {0, 328, 336}
  BY <1>1
<1>2. CASE \E i \in 0 .. 40 : d = 1 + 8 * i
  <2>1. PICK i \in 0 .. 40 : d = 1 + 8 * i
    BY <1>2
  <2>2. CASE i \in 0 .. 32
    BY <2>1, <2>2
  <2>3. CASE i \in 33 .. 39
    <3>1. d = 257 + 8 * (i - 32) /\ i - 32 \in 1 .. 7
      BY <2>1, <2>3
    <3>. QED
      BY <3>1
  <2>4. CASE i = 40
    BY <2>1, <2>4
  <2>. QED
    BY <2>1, <2>2, <2>3, <2>4
<1>. QED
  BY <1>1, <1>2 DEF RenderDots, LineEnd

(* Every step goes to a dot of the line, or from its last dot to the next. *)
LEMMA Advances ==
  ASSUME SpritesTypeOK, Advance
  PROVE  /\ line' \in RenderLines /\ dot' \in RenderDots
         /\ dot # LineEnd => line' = line /\ dot' = dot + RenderWidth(dot)
         /\ dot = LineEnd => dot' = 0
         /\ UNCHANGED <<rendering, oam, writes>>
<1>1. line \in RenderLines /\ dot \in RenderDots
  BY DEF SpritesTypeOK
<1>2. CASE dot = LineEnd
  <2>1. dot' = 0 /\ dot' \in RenderDots
    BY <1>2 DEF Advance, DotAfter, RenderDots
  <2>2. line' \in RenderLines
    BY <1>1, <1>2, LinesAssumption DEF Advance, RenderLines, PreRender
  <2>. QED
    BY <1>2, <2>1, <2>2 DEF Advance
<1>3. CASE dot # LineEnd
  <2>1. line' = line /\ dot' = dot + RenderWidth(dot)
    BY <1>3 DEF Advance, DotAfter
  <2>. QED
    BY <1>1, <1>3, <2>1, RenderStep DEF Advance
<1>. QED
  BY <1>2, <1>3

LEMMA StartLineKeeps ==
  ASSUME SpritesInv, StartLine
  PROVE  SpritesInv'
<1>1. SpritesTypeOK /\ ev \in EvalTypes /\ dot = 0
  BY DEF SpritesInv, SpritesTypeOK, StartLine
<1>2. Advance /\ ev' = [ev EXCEPT !.idx = 0, !.found = 0, !.done = FALSE]
      /\ steady' = rendering /\ draw' = draw
  BY DEF StartLine
<1>3. dot' = 1 /\ line' \in RenderLines /\ dot' \in RenderDots
      /\ UNCHANGED <<rendering, oam, writes>>
  BY <1>1, <1>2, Advances DEF LineEnd, RenderWidth
<1>4. ev' \in EvalTypes
  <2>1. 0 \in OamBytes /\ 0 \in 0 .. NumSlots
    BY SpriteAssumption DEF OamBytes, NumSlots
  <2>. QED
    BY <1>1, <1>2, <2>1 DEF EvalTypes
<1>5. ev'.idx = 0 /\ ev'.found = 0 /\ ev'.done = FALSE
  BY <1>1, <1>2 DEF EvalTypes
<1>6. SpritesTypeOK'
  BY <1>1, <1>2, <1>3, <1>4 DEF SpritesTypeOK
<1>7. SlotsComplete(ev')
  BY <1>5 DEF SlotsComplete
<1>8. PICK e : e = ev'
  OBVIOUS
<1>9. Search(e, 0)
  BY <1>5, <1>8, SearchStarts
<1>10. SearchGoes'
  <2>1. Evaluations' = 0
    BY <1>3 DEF Evaluations
  <2>. QED
    BY <1>3, <1>8, <1>9, <2>1, SearchKept DEF SearchGoes
<1>. QED
  BY <1>2, <1>3, <1>6, <1>7, <1>10 DEF SpritesInv, FetchIndex, FetchGoes

(* The four steps of the search that one step of the PPU makes.            *)
LEMMA FourEvaluations ==
  ASSUME NEW e \in EvalTypes, SlotsComplete(e), NEW f,
         f = EvalOnce(EvalOnce(EvalOnce(EvalOnce(e))))
  PROVE  /\ f \in EvalTypes /\ SlotsComplete(f)
         /\ f.over => e.over \/ f.found = NumSlots
         /\ ~LastInRange => \A k \in Nat : Search(e, k) => Search(f, k + 4)
<1>1. PICK e1, e2, e3 : e1 = EvalOnce(e) /\ e2 = EvalOnce(e1) /\ e3 = EvalOnce(e2)
  OBVIOUS
<1>2. f = EvalOnce(e3)
  BY <1>1
<1>3. e1 \in EvalTypes /\ e2 \in EvalTypes /\ e3 \in EvalTypes /\ f \in EvalTypes
  BY <1>1, <1>2, EvalOnceType
<1>4. SlotsComplete(f)
  <2>1. SlotsComplete(e1)
    BY <1>1, EvalOnceCompletes
  <2>2. SlotsComplete(e2)
    BY <1>1, <1>3, <2>1, EvalOnceCompletes
  <2>3. SlotsComplete(e3)
    BY <1>1, <1>3, <2>2, EvalOnceCompletes
  <2>. QED
    BY <1>2, <1>3, <2>3, EvalOnceCompletes
<1>5. f.over => e.over \/ f.found = NumSlots
  <2>1. e1.over => e.over \/ e1.found = NumSlots
    BY <1>1, OverflowWhenFull
  <2>2. /\ e2.over => e1.over \/ e2.found = NumSlots
        /\ e1.found = NumSlots => e2.found = NumSlots
    BY <1>1, <1>3, OverflowWhenFull
  <2>3. /\ e3.over => e2.over \/ e3.found = NumSlots
        /\ e2.found = NumSlots => e3.found = NumSlots
    BY <1>1, <1>3, OverflowWhenFull
  <2>4. /\ f.over => e3.over \/ f.found = NumSlots
        /\ e3.found = NumSlots => f.found = NumSlots
    BY <1>2, <1>3, OverflowWhenFull
  <2>. QED
    BY <2>1, <2>2, <2>3, <2>4
<1>6. ASSUME ~LastInRange, NEW k \in Nat, Search(e, k)
      PROVE  Search(f, k + 4)
  <2>1. Search(e1, k + 1)
    BY <1>1, <1>6, SearchStep
  <2>2. Search(e2, (k + 1) + 1)
    BY <1>1, <1>3, <1>6, <2>1, SearchStep
  <2>3. Search(e3, ((k + 1) + 1) + 1)
    BY <1>1, <1>3, <1>6, <2>2, SearchStep
  <2>4. Search(f, (((k + 1) + 1) + 1) + 1)
    BY <1>2, <1>3, <1>6, <2>3, SearchStep
  <2>5. (((k + 1) + 1) + 1) + 1 = k + 4
    OBVIOUS
  <2>. QED
    BY <2>4, <2>5
<1>. QED
  BY <1>3, <1>4, <1>5, <1>6

LEMMA DrawTileKeeps ==
  ASSUME SpritesInv, DrawTile
  PROVE  /\ SpritesInv'
         /\ Overflows /\ ~LastInRange => EnoughSprites
<1>1. SpritesTypeOK /\ ev \in EvalTypes /\ SlotsComplete(ev) /\ dot \in 1 .. 256
  BY DEF SpritesInv, SpritesTypeOK, DrawTile
<1>2. Advance /\ draw' = draw /\ steady' = steady
  BY DEF DrawTile
<1>3. PICK j \in 0 .. 31 : dot = 1 + 8 * j
  BY <1>1, DotKinds DEF SpritesTypeOK
<1>4. /\ line' = line /\ dot' = dot + 8 /\ dot' \in RenderDots /\ line' \in RenderLines
      /\ UNCHANGED <<rendering, oam, writes>>
  BY <1>1, <1>2, Advances DEF LineEnd, RenderWidth
<1>5. PICK e : e = ev'
  OBVIOUS
<1>6. PICK old : old = ev
  OBVIOUS
<1>10. steady => rendering
  BY DEF SpritesInv
<1>7. CASE line = PreRender
  <2>1. ev' = [ev EXCEPT !.over = @ /\ dot # 1]
    BY <1>7 DEF DrawTile
  <2>2. /\ ev' \in EvalTypes /\ ev'.found = ev.found /\ ev'.sec = ev.sec
        /\ ev'.idx = ev.idx /\ (ev'.over => ev.over)
    BY <1>1, <2>1 DEF EvalTypes
  <2>3. SlotsComplete(ev')
    BY <1>1, <2>2 DEF SlotsComplete
  <2>4. SpritesTypeOK'
    BY <1>1, <1>2, <1>4, <2>2 DEF SpritesTypeOK
  <2>. QED
    BY <1>1, <1>10, <1>2, <1>3, <1>4, <1>7, <2>2, <2>3, <2>4
       DEF SpritesInv, SearchGoes, FetchIndex, FetchGoes, Overflows
<1>8. CASE line # PreRender /\ ~(dot >= 65 /\ rendering)
  <2>1. ev' = ev
    BY <1>8 DEF DrawTile
  <2>2. SpritesTypeOK'
    BY <1>1, <1>2, <1>4, <2>1 DEF SpritesTypeOK
  <2>3. SearchGoes'
    <3>1. steady => dot <= 57 /\ Evaluations = 0 /\ Evaluations' = 0
      BY <1>1, <1>10, <1>3, <1>4, <1>8 DEF Evaluations
    <3>2. steady /\ ~LastInRange => Search(old, 0)
      BY <1>1, <1>6, <1>8, <3>1 DEF SpritesInv, SearchGoes
    <3>. QED
      BY <1>2, <1>3, <1>4, <1>6, <2>1, <3>1, <3>2, SearchKept DEF SearchGoes
  <2>. QED
    BY <1>1, <1>10, <1>2, <1>3, <1>4, <2>1, <2>2, <2>3
       DEF SpritesInv, FetchIndex, FetchGoes, Overflows, SlotsComplete
<1>9. CASE line # PreRender /\ dot >= 65 /\ rendering
  <2>1. e = EvalOnce(EvalOnce(EvalOnce(EvalOnce(old))))
    BY <1>5, <1>6, <1>9 DEF DrawTile
  <2>2. /\ e \in EvalTypes /\ SlotsComplete(e)
        /\ e.over => old.over \/ e.found = NumSlots
        /\ ~LastInRange => \A k \in Nat : Search(old, k) => Search(e, k + 4)
    BY <1>1, <1>6, <2>1, FourEvaluations
  <2>3. SpritesTypeOK'
    BY <1>1, <1>2, <1>4, <1>5, <2>2 DEF SpritesTypeOK
  <2>4. Evaluations \in Nat /\ Evaluations' = Evaluations + 4
    BY <1>3, <1>4, <1>9 DEF Evaluations
  <2>5. PICK k \in Nat : k = Evaluations
    BY <2>4
  <2>6. steady /\ ~LastInRange => Search(e, k + 4)
    BY <1>1, <1>6, <1>9, <2>2, <2>5 DEF SpritesInv, SearchGoes
  <2>7. SearchGoes'
    <3>1. ASSUME steady', line' # PreRender, ~LastInRange'
          PROVE  Search(ev, k + 4)'
      BY <1>2, <1>4, <1>5, <2>6, <3>1, SearchKept
    <3>2. dot' <= 257
      BY <1>3, <1>4
    <3>. QED
      BY <1>3, <1>4, <2>4, <2>5, <3>1, <3>2 DEF SearchGoes
  <2>8. Overflows /\ ~LastInRange => EnoughSprites
    <3>1. SUFFICES ASSUME e.over, ~old.over, steady, ~LastInRange
                   PROVE  EnoughSprites
      BY <1>5, <1>6 DEF Overflows
    <3>2. e.found = NumSlots /\ Search(e, k + 4)
      BY <2>2, <2>6, <3>1
    <3>3. FirstFound(e)
      BY <3>2 DEF Search, Searching, NumSlots
    <3>. QED
      BY <2>2, <3>2, <3>3, FullMeansEnough
  <2>. QED
    BY <1>1, <1>10, <1>2, <1>3, <1>4, <1>5, <2>2, <2>3, <2>7, <2>8
       DEF SpritesInv, FetchIndex, FetchGoes, SlotsComplete
<1>. QED
  BY <1>7, <1>8, <1>9

(* A fetch, from the slot of the index, while the PPU renders; k fetches   *)
(* have been made before.                                                  *)
LEMMA FetchKeeps ==
  ASSUME SpritesTypeOK, rendering, NEW e \in EvalTypes, SlotsComplete(e),
         NEW k \in 0 .. 7, dot = 257 + 8 * k, Advance, Fetch(e), steady' = steady,
         e.found = ev.found, e.sec = ev.sec,
         NEW q \in Slots, e.idx = 4 * q, q <= k,
         steady => e.idx = 4 * (IF k < e.found THEN k ELSE e.found) /\ Fetched(k),
         steady /\ line # PreRender /\ ~LastInRange => FirstFound(e)
  PROVE  SpritesInv'
<1>1. /\ line' = line /\ dot' = 257 + 8 * (k + 1) /\ dot' \in RenderDots
      /\ line' \in RenderLines
      /\ UNCHANGED <<rendering, oam, writes>>
  BY Advances DEF LineEnd, RenderWidth
<1>2. PICK f : f = ev'
  OBVIOUS
<1>3. /\ f \in EvalTypes /\ f.found = e.found /\ f.sec = e.sec
      /\ draw' \in [Slots -> -1 .. NumSprites - 1]
      /\ draw' = [draw EXCEPT ![q] = IF q < e.found THEN e.sec[q].sprite ELSE End]
      /\ q < e.found /\ q < NumSlots - 1 => f.idx = 4 * (q + 1)
      /\ q < e.found /\ q = NumSlots - 1 => f.idx \in {0, 4 * (q + 1)}
      /\ q >= e.found => f.idx = 4 * q
      /\ f.idx % 4 = 0
  BY <1>2, FetchParts DEF SpritesTypeOK
<1>4. /\ q \in 0 .. 7 /\ e.found \in 0 .. 8 /\ Slots = 0 .. 7
      /\ draw \in [Slots -> -1 .. NumSprites - 1]
  BY DEF Slots, NumSlots, EvalTypes, SpritesTypeOK
<1>5. SpritesTypeOK'
  BY <1>1, <1>2, <1>3 DEF SpritesTypeOK
<1>6. SlotsComplete(f)
  BY <1>3 DEF SlotsComplete
<1>7. SearchGoes'
  <2>1. steady /\ line # PreRender /\ ~LastInRange => FirstFound(f)
    BY <1>3 DEF FirstFound
  <2>2. dot' >= 258
    BY <1>1
  <2>. QED
    BY <1>1, <1>2, <2>1, <2>2, SearchKept DEF SearchGoes
<1>8. FetchIndex'
  <2>1. SUFFICES ASSUME dot' \in 258 .. 320
                 PROVE  \E p \in Slots : f.idx = 4 * p /\ 8 * p <= dot' - 257
    BY <1>2 DEF FetchIndex
  <2>2. k < 7
    BY <1>1, <2>1
  <2>3. q < e.found => f.idx = 4 * (q + 1) /\ q + 1 \in Slots
    BY <1>3, <1>4, <2>2 DEF NumSlots
  <2>4. q >= e.found => f.idx = 4 * q
    BY <1>3
  <2>5. 8 * (q + 1) <= dot' - 257 /\ 8 * q <= dot' - 257
    BY <1>1, <1>4
  <2>. QED
    BY <1>4, <2>3, <2>4, <2>5
<1>9. ASSUME steady
      PROVE  /\ k < 7 => f.idx = 4 * (IF k + 1 < f.found THEN k + 1 ELSE f.found)
             /\ \A s \in 0 .. f.found - 1 : s < k + 1 => draw'[s] = f.sec[s].sprite
             /\ f.found < k + 1 => draw'[f.found] = End
  <2>1. q = (IF k < e.found THEN k ELSE e.found)
    BY <1>4, <1>9
  <2>2. \A s \in Slots : s # q => draw'[s] = draw[s]
    BY <1>3, <1>4
  <2>3. draw'[q] = IF q < e.found THEN e.sec[q].sprite ELSE End
    BY <1>3, <1>4
  <2>4. /\ \A s \in 0 .. e.found - 1 : s < k => draw[s] = e.sec[s].sprite
        /\ e.found < k => draw[e.found] = End
    BY <1>9 DEF Fetched
  <2>5. CASE k < e.found
    <3>1. \A s \in 0 .. f.found - 1 : s < k + 1 => s \in Slots /\ (s = k \/ s < k)
      BY <1>3, <1>4
    <3>2. q = k
      BY <2>1, <2>5
    <3>3. \A s \in 0 .. f.found - 1 : s < k + 1 => draw'[s] = f.sec[s].sprite
      BY <1>3, <2>2, <2>3, <2>4, <2>5, <3>1, <3>2
    <3>. QED
      BY <1>3, <1>4, <2>5, <3>2, <3>3 DEF NumSlots
  <2>6. CASE ~(k < e.found)
    <3>1. q = e.found
      BY <2>1, <2>6
    <3>2. \A s \in 0 .. f.found - 1 : s \in Slots /\ s # q /\ s < k
      BY <1>3, <1>4, <2>6, <3>1
    <3>3. draw'[f.found] = End
      BY <1>3, <1>4, <2>3, <3>1
    <3>. QED
      BY <1>3, <1>4, <2>2, <2>4, <2>6, <3>1, <3>2, <3>3
  <2>. QED
    BY <2>5, <2>6
<1>10. FetchGoes'
  <2>1. SUFFICES ASSUME steady
        PROVE /\ \A i \in 1 .. 7 :
                   dot' = 257 + 8 * i =>
                     /\ f.idx = 4 * (IF i < f.found THEN i ELSE f.found)
                     /\ Fetched(i)'
              /\ dot' >= 321 => Fetched(NumSlots)'
    BY <1>2 DEF FetchGoes
  <2>2. PICK i : i = k + 1
    OBVIOUS
  <2>3. Fetched(i)'
    BY <1>2, <1>9, <2>1, <2>2 DEF Fetched
  <2>4. \A n \in 1 .. 7 : dot' = 257 + 8 * n => n = i /\ k < 7
    BY <1>1, <2>2
  <2>5. dot' >= 321 => i = NumSlots
    BY <1>1, <2>2 DEF NumSlots
  <2>. QED
    BY <1>9, <2>1, <2>2, <2>3, <2>4, <2>5
<1>. QED
  BY <1>1, <1>2, <1>5, <1>6, <1>7, <1>8, <1>10 DEF SpritesInv

(* A step of the fetch that does nothing, because rendering is off: then   *)
(* nothing is claimed of this line any more.                               *)
LEMMA NoFetchKeeps ==
  ASSUME SpritesTypeOK, ~rendering, NEW e \in EvalTypes, SlotsComplete(e), ~steady,
         NEW k \in 0 .. 7, dot = 257 + 8 * k, Advance, ev' = e, draw' = draw,
         steady' = steady,
         NEW q \in Slots, e.idx = 4 * q, q <= k
  PROVE  SpritesInv'
<1>1. /\ line' = line /\ dot' = 257 + 8 * (k + 1) /\ dot' \in RenderDots
      /\ line' \in RenderLines
      /\ UNCHANGED <<rendering, oam, writes>>
  BY Advances DEF LineEnd, RenderWidth
<1>2. SpritesTypeOK'
  BY <1>1 DEF SpritesTypeOK
<1>3. SlotsComplete(ev')
  OBVIOUS
<1>4. FetchIndex'
  <2>1. 8 * q <= dot' - 257
    BY <1>1 DEF Slots, NumSlots
  <2>. QED
    BY <2>1 DEF FetchIndex
<1>. QED
  BY <1>2, <1>3, <1>4 DEF SpritesInv, SearchGoes, FetchGoes

LEMMA StartFetchKeeps ==
  ASSUME SpritesInv, StartFetch
  PROVE  SpritesInv'
<1>1. /\ SpritesTypeOK /\ ev \in EvalTypes /\ SlotsComplete(ev)
      /\ rendering \in BOOLEAN /\ steady \in BOOLEAN
  BY DEF SpritesInv, SpritesTypeOK
<1>2. dot = 257 + 8 * 0 /\ Advance /\ steady' = steady
  BY DEF StartFetch
<1>3. PICK e : e = [ev EXCEPT !.idx = 0]
  OBVIOUS
<1>4. 0 \in OamBytes
  BY SpriteAssumption DEF OamBytes, NumSlots
<1>5. /\ e \in EvalTypes /\ e.idx = 4 * 0 /\ e.found = ev.found /\ e.sec = ev.sec
      /\ e.idx % 4 = 0
  BY <1>1, <1>3, <1>4 DEF EvalTypes
<1>6. SlotsComplete(e)
  BY <1>1, <1>5 DEF SlotsComplete
<1>7. 0 \in Slots /\ 0 \in 0 .. 7
  BY DEF Slots, NumSlots
<1>8. e.found \in Int /\ 0 <= e.found
  BY <1>5 DEF EvalTypes, NumSlots
<1>9. CASE rendering
  <2>1. Fetch(e)
    BY <1>3, <1>9 DEF StartFetch
  <2>2. e.idx = 4 * (IF 0 < e.found THEN 0 ELSE e.found) /\ Fetched(0)
    BY <1>5, <1>8 DEF Fetched
  <2>3. steady /\ line # PreRender /\ ~LastInRange => FirstFound(e)
    <3>1. SUFFICES ASSUME steady, line # PreRender, ~LastInRange
                   PROVE  FirstFound(e)
      OBVIOUS
    <3>2. PICK old : old = ev
      OBVIOUS
    <3>3. Evaluations = 96
      BY <1>2 DEF Evaluations
    <3>4. Search(old, 96)
      BY <1>2, <3>1, <3>2, <3>3 DEF SpritesInv, SearchGoes
    <3>5. FirstFound(old)
      BY <1>1, <3>2, <3>4, SearchEnds
    <3>. QED
      BY <1>5, <3>2, <3>5 DEF FirstFound
  <2>. QED
    BY <1>1, <1>2, <1>5, <1>6, <1>7, <1>9, <2>1, <2>2, <2>3, FetchKeeps
<1>10. CASE ~rendering
  <2>1. ev' = e /\ draw' = draw
    BY <1>3, <1>10 DEF StartFetch
  <2>2. ~steady
    BY <1>10 DEF SpritesInv
  <2>. QED
    BY <1>1, <1>2, <1>5, <1>6, <1>7, <1>10, <2>1, <2>2, NoFetchKeeps
<1>. QED
  BY <1>9, <1>10

LEMMA FetchNextKeeps ==
  ASSUME SpritesInv, FetchNext
  PROVE  SpritesInv'
<1>1. /\ SpritesTypeOK /\ ev \in EvalTypes /\ SlotsComplete(ev)
      /\ rendering \in BOOLEAN /\ steady \in BOOLEAN
  BY DEF SpritesInv, SpritesTypeOK
<1>2. dot \in 258 .. 320 /\ Advance /\ steady' = steady
  BY DEF FetchNext
<1>3. PICK k \in 1 .. 7 : dot = 257 + 8 * k
  BY <1>1, <1>2, DotKinds DEF SpritesTypeOK
<1>4. PICK q \in Slots : ev.idx = 4 * q /\ 8 * q <= dot - 257
  BY <1>2 DEF SpritesInv, FetchIndex
<1>5. q <= k /\ k \in 0 .. 7
  BY <1>3, <1>4 DEF Slots, NumSlots
<1>6. PICK e : e = ev
  OBVIOUS
<1>7. e \in EvalTypes /\ SlotsComplete(e) /\ e.found = ev.found /\ e.sec = ev.sec
      /\ e.idx = 4 * q
  BY <1>1, <1>4, <1>6
<1>8. CASE rendering
  <2>1. Fetch(e)
    BY <1>6, <1>8 DEF FetchNext
  <2>2. steady => e.idx = 4 * (IF k < e.found THEN k ELSE e.found) /\ Fetched(k)
    BY <1>3, <1>6 DEF SpritesInv, FetchGoes
  <2>3. steady /\ line # PreRender /\ ~LastInRange => FirstFound(e)
    BY <1>2, <1>6 DEF SpritesInv, SearchGoes
  <2>. QED
    BY <1>1, <1>2, <1>3, <1>5, <1>7, <1>8, <2>1, <2>2, <2>3, FetchKeeps
<1>9. CASE ~rendering
  <2>1. ev' = e /\ draw' = draw
    BY <1>6, <1>9 DEF FetchNext
  <2>2. ~steady
    BY <1>9 DEF SpritesInv
  <2>. QED
    BY <1>1, <1>2, <1>3, <1>5, <1>7, <1>9, <2>1, <2>2, NoFetchKeeps
<1>. QED
  BY <1>8, <1>9

LEMMA EndLineKeeps ==
  ASSUME SpritesInv, EndLine
  PROVE  SpritesInv'
<1>1. SpritesTypeOK /\ SlotsComplete(ev)
  BY DEF SpritesInv
<1>2. dot \in 321 .. 336 /\ Advance /\ UNCHANGED <<ev, draw, steady>>
  BY DEF EndLine, LineEnd
<1>3. dot \in {321, 328, 336}
  BY <1>1, <1>2, DotKinds DEF SpritesTypeOK
<1>4. /\ line' \in RenderLines /\ dot' \in RenderDots
      /\ dot' = 0 \/ (line' = line /\ dot' \in 322 .. 336)
      /\ UNCHANGED <<rendering, oam, writes>>
  BY <1>1, <1>2, <1>3, Advances DEF LineEnd, RenderWidth
<1>5. SpritesTypeOK'
  BY <1>1, <1>2, <1>4 DEF SpritesTypeOK
<1>6. SearchGoes'
  <2>1. PICK e : e = ev
    OBVIOUS
  <2>2. steady /\ line # PreRender /\ ~LastInRange => FirstFound(e)
    BY <1>3, <2>1 DEF SpritesInv, SearchGoes
  <2>3. dot' \notin 1 .. 257 /\ (dot' >= 258 => line' = line)
    BY <1>4
  <2>. QED
    BY <1>2, <1>4, <2>1, <2>2, <2>3, SearchKept DEF SearchGoes
<1>7. FetchIndex'
  BY <1>4 DEF FetchIndex
<1>8. FetchGoes'
  <2>1. steady => Fetched(NumSlots)
    BY <1>3 DEF SpritesInv, FetchGoes
  <2>2. steady => Fetched(NumSlots)'
    BY <1>2, <2>1 DEF Fetched
  <2>3. \A k \in 1 .. 7 : dot' # 257 + 8 * k
    BY <1>4
  <2>. QED
    BY <1>2, <2>2, <2>3 DEF FetchGoes
<1>9. SlotsComplete(ev')
  BY <1>1, <1>2
<1>10. steady' => rendering'
  BY <1>2, <1>4 DEF SpritesInv
<1>. QED
  BY <1>5, <1>6, <1>7, <1>8, <1>9, <1>10 DEF SpritesInv

(* The program's writes end what is claimed of the line.                   *)
LEMMA ProgramKeeps ==
  ASSUME SpritesInv, SetRendering \/ ChangeOam
  PROVE  SpritesInv'
<1>1. SpritesTypeOK /\ SlotsComplete(ev) /\ FetchIndex
  BY DEF SpritesInv
<1>2. UNCHANGED <<line, dot, ev, draw>> /\ steady' = FALSE
  BY DEF SetRendering, ChangeOam
<1>3. writes' \in 0 .. MaxWrites /\ oam' \in SUBSET OamBytes
  <2>1. writes \in 0 .. MaxWrites /\ writes < MaxWrites /\ writes' = writes + 1
    BY <1>1 DEF SpritesTypeOK, SetRendering, ChangeOam
  <2>2. MaxWrites \in Nat /\ Oams \subseteq SUBSET OamBytes
    BY SpriteAssumption
  <2>3. oam' = oam \/ oam' \in Oams
    BY DEF SetRendering, ChangeOam
  <2>. QED
    BY <1>1, <2>1, <2>2, <2>3 DEF SpritesTypeOK
<1>4. rendering' \in BOOLEAN
  BY <1>1 DEF SpritesTypeOK, SetRendering, ChangeOam
<1>5. SpritesTypeOK'
  BY <1>1, <1>2, <1>3, <1>4 DEF SpritesTypeOK
<1>. QED
  BY <1>1, <1>2, <1>5 DEF SpritesInv, SlotsComplete, SearchGoes, FetchIndex, FetchGoes

LEMMA SpritesInvNext == SpritesInv /\ [SpritesNext]_spriteVars => SpritesInv'
<1>1. ASSUME SpritesInv, UNCHANGED spriteVars PROVE SpritesInv'
  BY <1>1 DEF SpritesInv, spriteVars, SpritesTypeOK, SlotsComplete, SearchGoes, FetchIndex, FetchGoes,
       Fetched, Evaluations, Search, Searching, UpTo, FirstFound, SpritesInRange,
       LastInRange
<1>. QED
  BY <1>1, StartLineKeeps, DrawTileKeeps, StartFetchKeeps, FetchNextKeeps,
     EndLineKeeps, ProgramKeeps DEF SpritesNext, SpritesStep

LEMMA SpritesInvariance == SpritesSpec => []SpritesInv
  BY SpritesInvInit, SpritesInvNext, PTL DEF SpritesSpec

-----------------------------------------------------------------------------
(* No index leaves its array, whenever rendering is switched off and on,   *)
(* and every slot that is fetched was completed with a sprite that was in  *)
(* range, so that the row within the sprite cannot underflow.              *)
THEOREM IndicesStayInside == SpritesSpec => []SlotsInBounds
<1>1. SpritesInv => SlotsInBounds
  <2>1. SUFFICES ASSUME SpritesInv PROVE SlotsInBounds
    OBVIOUS
  <2>2. SpritesTypeOK /\ FoundInRange
    BY <2>1 DEF SpritesInv, SlotsComplete, FoundInRange
  <2>3. FetchInBounds
    <3>1. SUFFICES ASSUME dot \in 258 .. 320
                   PROVE  ev.idx \div 4 \in Slots
      BY DEF FetchInBounds
    <3>2. PICK q \in Slots : ev.idx = 4 * q
      BY <2>1, <3>1 DEF SpritesInv, FetchIndex
    <3>3. (4 * q) \div 4 = q
      BY DEF Slots, NumSlots
    <3>. QED
      BY <3>2, <3>3
  <2>. QED
    BY <2>2, <2>3 DEF SlotsInBounds
<1>. QED
  BY <1>1, SpritesInvariance, PTL

(* The search of an OAM that does not change ends within the dots that it  *)
(* has, with the first sprites in range in the slots.                      *)
THEOREM SearchFindsFirst == SpritesSpec => []FirstSpritesFound
<1>1. SpritesInv => FirstSpritesFound
  <2>1. SUFFICES ASSUME SpritesInv, Evaluated, ~LastInRange PROVE FirstFound(ev)
    BY DEF FirstSpritesFound, FirstFound
  <2>2. ev \in EvalTypes /\ dot \in RenderDots
    BY <2>1 DEF SpritesInv, SpritesTypeOK
  <2>3. dot \in 257 .. 336
    BY <2>1, <2>2, DotKinds DEF Evaluated
  <2>4. PICK e : e = ev
    OBVIOUS
  <2>5. CASE dot = 257
    <3>1. Evaluations = 96
      BY <2>5 DEF Evaluations
    <3>2. Search(e, 96)
      BY <2>1, <2>4, <2>5, <3>1 DEF SpritesInv, SearchGoes, Evaluated
    <3>. QED
      BY <2>2, <2>4, <3>2, SearchEnds
  <2>6. CASE dot >= 258
    BY <2>1, <2>6 DEF SpritesInv, SearchGoes, Evaluated
  <2>. QED
    BY <2>3, <2>5, <2>6
<1>. QED
  BY <1>1, SpritesInvariance, PTL

(* After a line that was rendered throughout, the list to draw is what the *)
(* search has found, and ends there.                                       *)
THEOREM ListIsWhatWasFound == SpritesSpec => []DrawListIsFound
<1>1. SpritesInv => DrawListIsFound
  <2>1. SUFFICES ASSUME SpritesInv, dot >= 321, steady
                 PROVE  /\ \A s \in 0 .. ev.found - 1 : draw[s] = ev.sec[s].sprite
                        /\ ev.found < NumSlots => draw[ev.found] = End
    BY DEF DrawListIsFound
  <2>2. Fetched(NumSlots)
    BY <2>1 DEF SpritesInv, FetchGoes
  <2>3. ev.found \in 0 .. 8
    BY <2>1 DEF SpritesInv, SpritesTypeOK, EvalTypes, NumSlots
  <2>. QED
    BY <2>2, <2>3 DEF Fetched, NumSlots
<1>. QED
  BY <1>1, SpritesInvariance, PTL

(* The overflow flag is raised by the search of an OAM that does not       *)
(* change only when there are as many sprites in range as slots, if the    *)
(* last sprite is not in range.                                            *)
THEOREM OverflowMeansEnough == SpritesSpec => OverflowUnlessLast
<1>1. ASSUME SpritesInv, [SpritesNext]_spriteVars
      PROVE  Overflows /\ ~LastInRange => EnoughSprites
  <2>1. SUFFICES ASSUME Overflows, ~LastInRange PROVE EnoughSprites
    OBVIOUS
  <2>2. ev'.over /\ ~ev.over
    BY <2>1 DEF Overflows
  <2>3. ev \in EvalTypes
    BY <1>1 DEF SpritesInv, SpritesTypeOK
  <2>4. CASE DrawTile
    BY <1>1, <2>1, <2>4, DrawTileKeeps
  <2>5. CASE StartLine
    <3>1. ev'.over = ev.over
      BY <2>3, <2>5 DEF StartLine, EvalTypes
    <3>. QED
      BY <2>2, <3>1
  <2>6. CASE StartFetch \/ FetchNext
    <3>1. ev'.over = ev.over
      <4>1. ASSUME NEW e \in EvalTypes, Fetch(e) PROVE ev'.over = e.over
        BY <4>1 DEF Fetch, EvalTypes
      <4>2. PICK e : e = [ev EXCEPT !.idx = 0]
        OBVIOUS
      <4>3. e \in EvalTypes /\ e.over = ev.over
        <5>1. 0 \in OamBytes
          BY SpriteAssumption DEF OamBytes, NumSlots
        <5>. QED
          BY <2>3, <4>2, <5>1 DEF EvalTypes
      <4>4. StartFetch => ev'.over = ev.over
        BY <4>1, <4>2, <4>3 DEF StartFetch
      <4>5. PICK old : old = ev
        OBVIOUS
      <4>6. FetchNext => ev'.over = ev.over
        BY <2>3, <4>1, <4>5 DEF FetchNext
      <4>. QED
        BY <2>6, <4>4, <4>6
    <3>. QED
      BY <2>2, <3>1
  <2>7. CASE EndLine \/ SetRendering \/ ChangeOam \/ UNCHANGED spriteVars
    <3>1. ev' = ev
      BY <2>7 DEF EndLine, SetRendering, ChangeOam, spriteVars
    <3>. QED
      BY <2>2, <3>1
  <2>. QED
    BY <1>1, <2>4, <2>5, <2>6, <2>7 DEF SpritesNext, SpritesStep
<1>. QED
  BY <1>1, SpritesInvariance, PTL DEF SpritesSpec, OverflowUnlessLast

-----------------------------------------------------------------------------
(***************************************************************************)
(* The register and its parts.                                             *)
(***************************************************************************)
\* The values that the five parts of the register can take.
FineRows == 0 .. 7
Tables   == 0 .. 1
Tiles    == 0 .. 31

(* The parts of a register are within their widths, and are all of it.     *)
LEMMA Parts ==
  ASSUME NEW a \in Registers
  PROVE  /\ FineY(a) \in FineRows /\ NtY(a) \in Tables /\ NtX(a) \in Tables
         /\ CoarseY(a) \in Tiles /\ CoarseX(a) \in Tiles
         /\ a = Register(FineY(a), NtY(a), NtX(a), CoarseY(a), CoarseX(a))
<1>1. a \in Int /\ 0 <= a /\ a < 32768
  BY DEF Registers
<1>2. PICK q, x : q = a \div 32 /\ x = a % 32
  OBVIOUS
<1>3. q \in Int /\ 0 <= q /\ q < 1024 /\ a = 32 * q + x /\ x \in 0 .. 31
  BY <1>1, <1>2
<1>4. PICK n, y : n = q \div 32 /\ y = q % 32
  OBVIOUS
<1>5. n \in 0 .. 31 /\ q = 32 * n + y /\ y \in 0 .. 31
  BY <1>3, <1>4
<1>6. PICK m, i : m = n \div 2 /\ i = n % 2
  OBVIOUS
<1>7. m \in 0 .. 15 /\ n = 2 * m + i /\ i \in 0 .. 1
  BY <1>5, <1>6
<1>8. PICK f, j : f = m \div 2 /\ j = m % 2
  OBVIOUS
<1>9. f \in 0 .. 7 /\ m = 2 * f + j /\ j \in 0 .. 1 /\ f % 8 = f
  BY <1>7, <1>8
<1>10. a \div 1024 = n
  BY <1>1, <1>3, <1>5
<1>11. a \div 2048 = m
  BY <1>1, <1>3, <1>5, <1>7
<1>12. a \div 4096 = f
  BY <1>1, <1>3, <1>5, <1>7, <1>9
<1>13. FineY(a) = f /\ NtY(a) = j /\ NtX(a) = i /\ CoarseY(a) = y /\ CoarseX(a) = x
  BY <1>2, <1>4, <1>6, <1>8, <1>9, <1>10, <1>11, <1>12
     DEF FineY, NtY, NtX, CoarseY, CoarseX
<1>14. a = 4096 * f + 2048 * j + 1024 * i + 32 * y + x
  BY <1>3, <1>5, <1>7, <1>9
<1>15. a = Register(f, j, i, y, x)
  BY <1>14 DEF Register
<1>16. f \in FineRows /\ j \in Tables /\ i \in Tables /\ y \in Tiles /\ x \in Tiles
  BY <1>3, <1>5, <1>7, <1>9 DEF FineRows, Tables, Tiles
<1>. QED
  BY <1>13, <1>15, <1>16

(* A register composed of parts has these parts.                           *)
LEMMA Composed ==
  ASSUME NEW f \in FineRows, NEW m \in Tables, NEW n \in Tables,
         NEW y \in Tiles, NEW x \in Tiles, NEW r,
         r = Register(f, m, n, y, x)
  PROVE  /\ r \in Registers
         /\ FineY(r) = f /\ NtY(r) = m /\ NtX(r) = n
         /\ CoarseY(r) = y /\ CoarseX(r) = x
<1>1. r \in Registers
  <2>1. /\ f \in Int /\ 0 <= f /\ f <= 7
        /\ m \in Int /\ 0 <= m /\ m <= 1
        /\ n \in Int /\ 0 <= n /\ n <= 1
        /\ y \in Int /\ 0 <= y /\ y <= 31
        /\ x \in Int /\ 0 <= x /\ x <= 31
    BY DEF FineRows, Tables, Tiles
  <2>2. r = 4096 * f + 2048 * m + 1024 * n + 32 * y + x
    BY DEF Register
  <2>3. r \in Int /\ 0 <= r /\ r < 32768
    BY <2>1, <2>2
  <2>. QED
    BY <2>3 DEF Registers
<1>2. FineY(r) = f
  BY DEF FineY, Register, FineRows, Tables, Tiles
<1>3. NtY(r) = m
  BY DEF NtY, Register, FineRows, Tables, Tiles
<1>4. NtX(r) = n
  BY DEF NtX, Register, FineRows, Tables, Tiles
<1>5. CoarseY(r) = y
  BY DEF CoarseY, Register, FineRows, Tables, Tiles
<1>6. CoarseX(r) = x
  BY DEF CoarseX, Register, FineRows, Tables, Tiles
<1>. QED
  BY <1>1, <1>2, <1>3, <1>4, <1>5, <1>6

\* What tells apart two registers that fetch from the same row of pixels: the
\* nametables above each other, and the row within one.
Row(a) == <<NtY(a), 8 * CoarseY(a) + FineY(a)>>

(* A step to the next tile is one column to the right, in a ring of two    *)
(* nametables, and stays in the row (increment_vram_addr_coarse_x).        *)
LEMMA NextTileMoves ==
  ASSUME NEW a \in Registers
  PROVE  /\ NextTile(a) \in Registers
         /\ Column(NextTile(a)) = (Column(a) + 1) % 64
         /\ Row(NextTile(a)) = Row(a)
<1>. DEFINE f == FineY(a)
            m == NtY(a)
            n == NtX(a)
            y == CoarseY(a)
            x == CoarseX(a)
<1>1. /\ f \in FineRows /\ m \in Tables /\ n \in Tables /\ y \in Tiles /\ x \in Tiles
      /\ a = Register(f, m, n, y, x)
  BY Parts
<1>2. CASE x = 31
  <2>1. NextTile(a) = Register(f, m, 1 - n, y, 0)
    BY <1>2 DEF NextTile
  <2>2. 1 - n \in Tables /\ 0 \in Tiles
    BY <1>1 DEF Tables, Tiles
  <2>. HIDE DEF f, m, n, y, x
  <2>3. /\ NextTile(a) \in Registers
        /\ FineY(NextTile(a)) = f /\ NtY(NextTile(a)) = m
        /\ NtX(NextTile(a)) = 1 - n /\ CoarseY(NextTile(a)) = y
        /\ CoarseX(NextTile(a)) = 0
    BY <1>1, <2>1, <2>2, Composed
  <2>4. (32 * n + x + 1) % 64 = 32 * (1 - n) + 0
    BY <1>1, <1>2 DEF Tables
  <2>5. Column(a) = 32 * n + x /\ Row(a) = <<m, 8 * y + f>>
    BY DEF Column, Row, f, m, n, y, x
  <2>. QED
    BY <2>3, <2>4, <2>5 DEF Column, Row
<1>3. CASE x # 31
  <2>1. NextTile(a) = a + 1
    BY <1>3 DEF NextTile
  <2>. HIDE DEF f, m, n, y, x
  <2>2. x + 1 \in Tiles
    BY <1>1, <1>3 DEF Tiles
  <2>3. NextTile(a) = Register(f, m, n, y, x + 1)
    BY <1>1, <2>1 DEF Register, FineRows, Tables, Tiles
  <2>4. /\ NextTile(a) \in Registers
        /\ FineY(NextTile(a)) = f /\ NtY(NextTile(a)) = m
        /\ NtX(NextTile(a)) = n /\ CoarseY(NextTile(a)) = y
        /\ CoarseX(NextTile(a)) = x + 1
    BY <1>1, <2>2, <2>3, Composed
  <2>5. (32 * n + x + 1) % 64 = 32 * n + x + 1
    BY <1>1, <2>2 DEF Tables, Tiles
  <2>. QED
    BY <1>1, <2>4, <2>5 DEF Column, Row, f, m, n, y, x, Tables, Tiles
<1>. QED
  BY <1>2, <1>3

\* The row under row <<m, r>>: under the last of a nametable lies the first of
\* the other, under the last of the attribute table the first of the same.
RowAfter(row) ==
  IF row[2] = 239 THEN <<1 - row[1], 0>>
  ELSE IF row[2] = 255 THEN <<row[1], 0>>
  ELSE <<row[1], row[2] + 1>>

(* A step to the next row stays in the column (increment_vram_addr_y).     *)
LEMMA NextRowMoves ==
  ASSUME NEW a \in Registers
  PROVE  /\ NextRow(a) \in Registers
         /\ Column(NextRow(a)) = Column(a)
         /\ Row(NextRow(a)) = RowAfter(Row(a))
<1>. DEFINE f == FineY(a)
            m == NtY(a)
            n == NtX(a)
            y == CoarseY(a)
            x == CoarseX(a)
            r == 8 * y + f
<1>1. /\ f \in FineRows /\ m \in Tables /\ n \in Tables /\ y \in Tiles /\ x \in Tiles
      /\ a = Register(f, m, n, y, x)
  BY Parts
<1>2. /\ f \in Int /\ 0 <= f /\ f <= 7
      /\ y \in Int /\ 0 <= y /\ y <= 31
  BY <1>1 DEF FineRows, Tiles
<1>3. Row(a) = <<m, r>> /\ Column(a) = 32 * n + x
  BY DEF Row, Column
<1>4. ASSUME NEW g \in FineRows, NEW k \in Tables, NEW z \in Tiles,
             NextRow(a) = Register(g, k, n, z, x)
      PROVE  /\ NextRow(a) \in Registers
             /\ Column(NextRow(a)) = Column(a)
             /\ Row(NextRow(a)) = <<k, 8 * z + g>>
  <2>. HIDE DEF f, m, n, y, x
  <2>1. /\ NextRow(a) \in Registers
        /\ FineY(NextRow(a)) = g /\ NtY(NextRow(a)) = k
        /\ NtX(NextRow(a)) = n /\ CoarseY(NextRow(a)) = z
        /\ CoarseX(NextRow(a)) = x
    BY <1>1, <1>4, Composed
  <2>. QED
    BY <1>3, <2>1 DEF Column, Row
<1>5. CASE f < 7
  <2>1. NextRow(a) = a + 4096
    BY <1>5 DEF NextRow
  <2>. HIDE DEF f, m, n, y, x
  <2>2. f + 1 \in FineRows
    BY <1>2, <1>5 DEF FineRows
  <2>3. NextRow(a) = Register(f + 1, m, n, y, x)
    BY <1>1, <2>1 DEF Register, FineRows, Tables, Tiles
  <2>4. r # 239 /\ r # 255
    BY <1>2, <1>5
  <2>5. RowAfter(Row(a)) = <<m, 8 * y + (f + 1)>>
    BY <1>2, <1>3, <2>4 DEF RowAfter
  <2>. QED
    BY <1>1, <1>4, <2>2, <2>3, <2>5
<1>6. CASE f = 7 /\ y = 29
  <2>1. NextRow(a) = Register(0, 1 - m, n, 0, x)
    BY <1>6 DEF NextRow
  <2>. HIDE DEF f, m, n, y, x
  <2>2. 1 - m \in Tables /\ 0 \in FineRows /\ 0 \in Tiles
    BY <1>1 DEF FineRows, Tables, Tiles
  <2>3. r = 239
    BY <1>6
  <2>4. RowAfter(Row(a)) = <<1 - m, 8 * 0 + 0>>
    BY <1>3, <2>3 DEF RowAfter
  <2>. QED
    BY <1>4, <2>1, <2>2, <2>4
<1>7. CASE f = 7 /\ y # 29
  <2>1. NextRow(a) = Register(0, m, n, (y + 1) % 32, x)
    BY <1>7 DEF NextRow
  <2>. HIDE DEF f, m, n, y, x
  <2>2. (y + 1) % 32 = IF y = 31 THEN 0 ELSE y + 1
    BY <1>2
  <2>3. (y + 1) % 32 \in Tiles /\ 0 \in FineRows
    BY <1>2, <2>2 DEF FineRows, Tiles
  <2>4. r # 239 /\ (r = 255 <=> y = 31)
    BY <1>2, <1>7
  <2>5. RowAfter(Row(a)) = <<m, 8 * ((y + 1) % 32) + 0>>
    BY <1>2, <1>3, <1>7, <2>2, <2>4 DEF RowAfter
  <2>. QED
    BY <1>1, <1>4, <2>1, <2>3, <2>5
<1>. QED
  BY <1>2, <1>5, <1>6, <1>7

(* The reload of x takes the column of t, the reload of y its row          *)
(* (transfer_temp_horizontal_bits, transfer_temp_vert_bits); a write to    *)
(* ppuctrl replaces the nametable.                                         *)
LEMMA Reloads ==
  ASSUME NEW a \in Registers, NEW t \in Registers
  PROVE  /\ WithHorizontal(a, t) \in Registers
         /\ Column(WithHorizontal(a, t)) = Column(t)
         /\ Row(WithHorizontal(a, t)) = Row(a)
         /\ WithVertical(a, t) \in Registers
         /\ Column(WithVertical(a, t)) = Column(a)
         /\ Row(WithVertical(a, t)) = Row(t)
<1>1. /\ FineY(a) \in FineRows /\ NtY(a) \in Tables /\ NtX(a) \in Tables
      /\ CoarseY(a) \in Tiles /\ CoarseX(a) \in Tiles
  BY Parts
<1>2. /\ FineY(t) \in FineRows /\ NtY(t) \in Tables /\ NtX(t) \in Tables
      /\ CoarseY(t) \in Tiles /\ CoarseX(t) \in Tiles
  BY Parts
<1>3. PICK h : h = WithHorizontal(a, t)
  OBVIOUS
<1>4. /\ h \in Registers /\ FineY(h) = FineY(a) /\ NtY(h) = NtY(a)
      /\ NtX(h) = NtX(t) /\ CoarseY(h) = CoarseY(a) /\ CoarseX(h) = CoarseX(t)
  BY <1>1, <1>2, <1>3, Composed DEF WithHorizontal
<1>5. PICK w : w = WithVertical(a, t)
  OBVIOUS
<1>6. /\ w \in Registers /\ FineY(w) = FineY(t) /\ NtY(w) = NtY(t)
      /\ NtX(w) = NtX(a) /\ CoarseY(w) = CoarseY(t) /\ CoarseX(w) = CoarseX(a)
  BY <1>1, <1>2, <1>5, Composed DEF WithVertical
<1>. QED
  BY <1>3, <1>4, <1>5, <1>6 DEF Column, Row

LEMMA SetNametableType ==
  ASSUME NEW a \in Registers, NEW nt \in 0 .. 3
  PROVE  SetNametable(a, nt) \in Registers
<1>1. /\ FineY(a) \in FineRows /\ CoarseY(a) \in Tiles /\ CoarseX(a) \in Tiles
  BY Parts
<1>2. nt \div 2 \in Tables /\ nt % 2 \in Tables
  BY DEF Tables
<1>. QED
  BY <1>1, <1>2, Composed DEF SetNametable

(* What the program's writes make of temp_vram_addr: a write to ppuscroll  *)
(* a register, the high half of an address the six bits of it with the old *)
(* low byte, the low half the old high byte with the new low one.          *)
LEMMA ScrollHalves ==
  ASSUME NEW t \in Registers, NEW b \in Bytes
  PROVE  /\ Register(b % 8, NtY(t), NtX(t), b \div 8, CoarseX(t)) \in Registers
         /\ t - CoarseX(t) + b \div 8 \in Registers
<1>1. /\ FineY(t) \in FineRows /\ NtY(t) \in Tables /\ NtX(t) \in Tables
      /\ CoarseY(t) \in Tiles /\ CoarseX(t) \in Tiles
      /\ t = Register(FineY(t), NtY(t), NtX(t), CoarseY(t), CoarseX(t))
  BY Parts
<1>2. b % 8 \in FineRows /\ b \div 8 \in Tiles
  BY DEF Bytes, FineRows, Tiles
<1>3. t - CoarseX(t) + b \div 8
        = Register(FineY(t), NtY(t), NtX(t), CoarseY(t), b \div 8)
  BY <1>1, <1>2 DEF Register, FineRows, Tables, Tiles
<1>4. Register(FineY(t), NtY(t), NtX(t), CoarseY(t), b \div 8) \in Registers
  BY <1>1, <1>2, Composed
<1>. QED
  BY <1>1, <1>2, <1>3, <1>4, Composed

LEMMA AddressHalves ==
  ASSUME NEW t \in Registers, NEW b \in Bytes
  PROVE  /\ 256 * (b % 64) + (t % 256) \in Registers
         /\ (256 * (b % 64) + (t % 256)) \div 256 = b % 64
         /\ t - (t % 256) + b \in Registers
         /\ t - (t % 256) + b = 256 * (t \div 256) + b
<1>1. t \in Int /\ 0 <= t /\ t < 32768 /\ b \in Int /\ 0 <= b /\ b <= 255
  BY DEF Registers, Bytes
<1>2. PICK h, l : h = t \div 256 /\ l = t % 256
  OBVIOUS
<1>3. h \in 0 .. 127 /\ l \in 0 .. 255 /\ t = 256 * h + l
  BY <1>1, <1>2
<1>4. PICK c : c = b % 64
  OBVIOUS
<1>5. c \in 0 .. 63
  BY <1>1, <1>4
<1>6. 256 * c + l \in Registers /\ (256 * c + l) \div 256 = c
  BY <1>3, <1>5 DEF Registers
<1>7. t - l + b = 256 * h + b /\ t - l + b \in Registers
  BY <1>1, <1>3 DEF Registers
<1>. QED
  BY <1>2, <1>4, <1>6, <1>7

(* The row n below that of a register, as ScrollRow counts it, is reached  *)
(* row by row, through all the rows of a frame.                            *)
LEMMA RowsBelow ==
  ASSUME NEW a \in Registers
  PROVE  /\ RowBelow(a, 0) = Row(a)
         /\ \A n \in 0 .. 239 : RowBelow(a, n + 1) = RowAfter(RowBelow(a, n))
<1>1. PICK m, r : m = NtY(a) /\ r = 8 * CoarseY(a) + FineY(a)
  OBVIOUS
<1>2. r \in Int /\ 0 <= r /\ r < 256 /\ m \in 0 .. 1
  BY <1>1, Parts DEF FineRows, Tiles, Tables
<1>3. \A n : RowBelow(a, n) =
        CASE r < 240 /\ r + n < 240   -> <<m, r + n>>
          [] r < 240 /\ r + n >= 240  -> <<1 - m, r + n - 240>>
          [] r >= 240 /\ r + n < 256  -> <<m, r + n>>
          [] r >= 240 /\ r + n >= 256 -> <<m, r + n - 256>>
  BY <1>1 DEF RowBelow
<1>4. RowBelow(a, 0) = <<m, r>>
  BY <1>2, <1>3
<1>5. ASSUME NEW n \in 0 .. 239
      PROVE  RowBelow(a, n + 1) = RowAfter(RowBelow(a, n))
  <2>1. CASE r < 240 /\ r + n < 239
    <3>1. RowBelow(a, n) = <<m, r + n>> /\ RowBelow(a, n + 1) = <<m, r + (n + 1)>>
      BY <1>2, <1>3, <2>1
    <3>. QED
      BY <1>2, <2>1, <3>1 DEF RowAfter
  <2>2. CASE r < 240 /\ r + n = 239
    <3>1. RowBelow(a, n) = <<m, r + n>> /\ RowBelow(a, n + 1) = <<1 - m, r + (n + 1) - 240>>
      BY <1>2, <1>3, <2>2
    <3>. QED
      BY <1>2, <2>2, <3>1 DEF RowAfter
  <2>3. CASE r < 240 /\ r + n > 239
    <3>1. /\ RowBelow(a, n) = <<1 - m, r + n - 240>>
          /\ RowBelow(a, n + 1) = <<1 - m, r + (n + 1) - 240>>
      BY <1>2, <1>3, <2>3
    <3>. QED
      BY <1>2, <2>3, <3>1 DEF RowAfter
  <2>4. CASE r >= 240 /\ r + n < 255
    <3>1. RowBelow(a, n) = <<m, r + n>> /\ RowBelow(a, n + 1) = <<m, r + (n + 1)>>
      BY <1>2, <1>3, <2>4
    <3>. QED
      BY <1>2, <2>4, <3>1 DEF RowAfter
  <2>5. CASE r >= 240 /\ r + n = 255
    <3>1. RowBelow(a, n) = <<m, r + n>> /\ RowBelow(a, n + 1) = <<m, r + (n + 1) - 256>>
      BY <1>2, <1>3, <2>5
    <3>. QED
      BY <1>2, <2>5, <3>1 DEF RowAfter
  <2>6. CASE r >= 240 /\ r + n > 255
    <3>1. /\ RowBelow(a, n) = <<m, r + n - 256>>
          /\ RowBelow(a, n + 1) = <<m, r + (n + 1) - 256>>
      BY <1>2, <1>3, <2>6
    <3>. QED
      BY <1>2, <2>6, <3>1 DEF RowAfter
  <2>. QED
    BY <1>2, <2>1, <2>2, <2>3, <2>4, <2>5, <2>6
<1>. QED
  BY <1>1, <1>4, <1>5 DEF Row

-----------------------------------------------------------------------------
(***************************************************************************)
(* The inductive invariant.                                                *)
(***************************************************************************)
\* The program's view of ppuaddr agrees with the toggle, and a high half that
\* it has written is in temp_vram_addr.
HalvesAgree ==
  /\ half = Fresh => ~toggle
  /\ half \in Bytes => toggle /\ temp \div 256 = half % 64

\* A scroll position is in force only while the PPU renders.
OnlyRendering == (left # None => rendering) /\ (top # None => rendering)

\* On the pre-render line the rows start anew: no vertical position is in force
\* before the reload of y, which is a part of the step from dot 281.
NoRowYet == line = PreRender /\ dot \in 1 .. 281 => top = None

AddrInv ==
  /\ TypeOK
  /\ NoRowYet
  /\ HalvesAgree
  /\ OnlyRendering
  /\ AddressKept
  /\ ScrollColumn
  /\ ScrollRow

(* The first state satisfies it.                                           *)
LEMMA AddrInvInit == Init => AddrInv
<1>. SUFFICES ASSUME Init PROVE AddrInv
  OBVIOUS
<1>1. line \in Lines /\ dot \in DotsOf(line)
  BY LinesAndDots DEF Init, VblankLines, Lines
<1>2. TypeOK
  <2>1. temp \in Registers /\ v \in Registers /\ buffer \in Addrs
    BY VramAssumption DEF Init, Registers, Addrs
  <2>2. accesses \in 0 .. MaxAccesses
    BY VramAssumption DEF Init
  <2>. QED
    BY <1>1, <2>1, <2>2 DEF Init, TypeOK, None, Fresh
<1>3. HalvesAgree /\ OnlyRendering /\ AddressKept /\ ScrollColumn /\ ScrollRow
        /\ NoRowYet
  BY DEF Init, HalvesAgree, OnlyRendering, AddressKept, ScrollColumn, ScrollRow,
         NoRowYet, Fresh, Bytes
<1>. QED
  BY <1>2, <1>3 DEF AddrInv

(* What a step of the PPU does to its position, line kind by line kind.    *)
LEMMA Positions ==
  ASSUME line \in Lines, dot \in DotsOf(line), NEW w, NextDot(w),
         line \in RenderLines => w = RenderWidth(dot),
         line \notin RenderLines =>
           w = IF line = Idle THEN IdleWidth(dot) ELSE VblankWidth(dot)
  PROVE  line' \in Lines /\ dot' \in DotsOf(line')
<1>1. CASE dot = LineEnd
  <2>1. line' \in Lines
    BY <1>1, LinesAssumption DEF NextDot, Lines, PreRender
  <2>. QED
    BY <1>1, <2>1, LinesAndDots DEF NextDot, DotAfter
<1>2. CASE dot # LineEnd
  <2>1. line' = line /\ dot' = dot + w
    BY <1>2 DEF NextDot, DotAfter
  <2>2. CASE line \in RenderLines
    BY <1>2, <2>1, <2>2, LinesAndDots, RenderStep
  <2>3. CASE line = Idle
    <3>1. line \notin RenderLines
      BY <2>3, LinesAssumption DEF RenderLines, Idle
    <3>2. dot \in IdleDots /\ w = IdleWidth(dot)
      BY <2>3, <3>1, LinesAndDots
    <3>3. dot + w \in IdleDots
      BY <1>2, <3>2, IdleStep
    <3>. QED
      BY <2>1, <2>3, <3>3, LinesAndDots
  <2>4. CASE line \in VblankLines
    <3>1. line \notin RenderLines /\ line # Idle
      BY <2>4, LinesAssumption DEF RenderLines, Idle, VblankLines, FirstVblank
    <3>. QED
      BY <1>2, <2>1, <2>4, <3>1, LinesAndDots, VblankStep
  <2>. QED
    BY <2>2, <2>3, <2>4, LinesAndDots
<1>. QED
  BY <1>1, <1>2

(* The widths that the actions give are those of the dots on which they    *)
(* are enabled, so every step of the PPU keeps its position a legal one.   *)
LEMMA StepPosition ==
  ASSUME line \in Lines, dot \in DotsOf(line), Step
  PROVE  line' \in Lines /\ dot' \in DotsOf(line')
<1>1. CASE StepStart
  <2>1. NextDot(RenderWidth(dot)) /\ line \in RenderLines
    BY <1>1 DEF StepStart, RenderWidth
  <2>. QED
    BY <2>1, Positions
<1>2. CASE StepTile \/ StepReloadX \/ StepSprites
  <2>1. line \in RenderLines /\ NextDot(8) /\ dot \in 1 .. 320
    BY <1>2 DEF StepTile, StepReloadX, StepSprites
  <2>2. RenderWidth(dot) = 8
    BY <2>1 DEF RenderWidth
  <2>. QED
    BY <2>1, <2>2, Positions
<1>3. CASE StepGap
  <2>1. NextDot(RenderWidth(dot)) /\ line \in RenderLines
    BY <1>3 DEF StepGap, RenderWidth, LineEnd
  <2>. QED
    BY <2>1, Positions
<1>4. CASE StepPrefetch
  <2>1. NextDot(RenderWidth(dot)) /\ line \in RenderLines
    BY <1>4 DEF StepPrefetch
  <2>. QED
    BY <2>1, Positions
<1>5. CASE StepNotRendered
  BY <1>5, Positions DEF StepNotRendered
<1>. QED
  BY <1>1, <1>2, <1>3, <1>4, <1>5 DEF Step

(* What a step of the PPU can do to the register.                          *)
LEMMA StepWalks ==
  ASSUME AddrInv, Step
  PROVE  /\ v' \in Registers
         /\ v' = v \/ (rendering /\ pointed' = None)
         /\ pointed' = pointed \/ pointed' = None
         /\ top' \in {top, None} \/ (top' = temp /\ rendering)
         /\ left' = left \/ (left' = temp /\ rendering)
         /\ UNCHANGED <<rendering, by32, temp, toggle, buffer, accesses, half>>
<1>. USE DEF Walk, StepUntouched
<1>1. v \in Registers /\ temp \in Registers /\ rendering \in BOOLEAN
  BY DEF AddrInv, TypeOK
<1>2. CASE StepStart
  BY <1>1, <1>2 DEF StepStart
<1>3. CASE StepTile
  BY <1>1, <1>3, NextTileMoves, NextRowMoves DEF StepTile
<1>4. CASE StepReloadX
  BY <1>1, <1>4, Reloads DEF StepReloadX
<1>5. CASE StepSprites
  BY <1>1, <1>5, Reloads DEF StepSprites
<1>6. CASE StepGap
  BY <1>1, <1>6 DEF StepGap
<1>7. CASE StepPrefetch
  BY <1>1, <1>7, NextTileMoves DEF StepPrefetch
<1>8. CASE StepNotRendered
  BY <1>1, <1>8 DEF StepNotRendered
<1>. QED
  BY <1>2, <1>3, <1>4, <1>5, <1>6, <1>7, <1>8 DEF Step

(* A step of the PPU preserves what is known of the program's view.        *)
LEMMA StepKeepsView ==
  ASSUME AddrInv, Step
  PROVE  TypeOK' /\ HalvesAgree' /\ OnlyRendering' /\ AddressKept'
<1>1. TypeOK /\ HalvesAgree /\ OnlyRendering /\ AddressKept
  BY DEF AddrInv
<1>2. TypeOK'
  <2>1. line' \in Lines /\ dot' \in DotsOf(line')
    BY <1>1, StepPosition DEF TypeOK
  <2>2. /\ top' = None \/ top' \in Registers
        /\ left' = None \/ left' \in Registers
        /\ pointed' = None \/ pointed' \in Addrs
    BY <1>1, StepWalks DEF TypeOK
  <2>. QED
    BY <1>1, <2>1, <2>2, StepWalks DEF TypeOK
<1>3. HalvesAgree'
  BY <1>1, StepWalks DEF HalvesAgree
<1>4. OnlyRendering'
  BY <1>1, StepWalks DEF OnlyRendering
<1>5. AddressKept'
  <2>1. v' = v \/ pointed' = None
    BY StepWalks
  <2>2. pointed' = pointed \/ pointed' = None
    BY StepWalks
  <2>. QED
    BY <1>1, <2>1, <2>2 DEF AddressKept
<1>. QED
  BY <1>2, <1>3, <1>4, <1>5

(* Dots that a render line has: what the numbers of TilesFetched and       *)
(* RowsDone rest on.                                                       *)
LEMMA TileDots ==
  ASSUME NEW d \in RenderDots
  PROVE  /\ d \in 1 .. 256 => \E k \in 0 .. 31 : d = 1 + 8 * k
         /\ d \in 258 .. 320 => d \in 265 .. 313
         /\ d \in 321 .. 327 => d = 321
BY DEF RenderDots, LineEnd

(* The column of v follows the tiles that have been fetched.               *)
LEMMA StepKeepsColumn ==
  ASSUME AddrInv, Step, left' # None
  PROVE  Column(v') = (Column(left') + TilesFetched') % 64
<1>1. /\ v \in Registers /\ temp \in Registers /\ left \in Registers \cup {None}
      /\ line \in Lines /\ dot \in DotsOf(line)
      /\ left # None => rendering
      /\ left # None => Column(v) = (Column(left) + TilesFetched) % 64
  BY DEF AddrInv, TypeOK, OnlyRendering, ScrollColumn
<1>2. \A a \in Registers : Column(a) \in 0 .. 63
  BY Parts DEF Column, Tables, Tiles
<1>3. /\ line \in Int /\ dot \in 0 .. LineEnd
      /\ line \in RenderLines => dot \in RenderDots
  BY <1>1, PositionKinds
<1>4. ASSUME left' = left, NEW k \in 0 .. 40, TilesFetched = k,
             \/ v' = v /\ TilesFetched' = k
             \/ v' = NextTile(v) /\ TilesFetched' = k + 1
             \/ v' = NextRow(v) /\ TilesFetched' = k
      PROVE  Column(v') = (Column(left') + TilesFetched') % 64
  <2>1. left \in Registers /\ Column(v) = (Column(left) + k) % 64
    BY <1>1, <1>4
  <2>2. PICK c : c = Column(left)
    OBVIOUS
  <2>3. c \in 0 .. 63
    BY <1>2, <2>1, <2>2
  <2>4. (((c + k) % 64) + 1) % 64 = (c + (k + 1)) % 64
    BY <2>3
  <2>. QED
    BY <1>1, <1>4, <2>1, <2>2, <2>4, NextTileMoves, NextRowMoves
<1>5. CASE StepStart
  <2>1. line \in RenderLines /\ dot = 0 /\ dot' = 1 /\ line' = line
    BY <1>5 DEF StepStart, NextDot, DotAfter, LineEnd
  <2>2. TilesFetched = 2 /\ TilesFetched' = 2
    BY <2>1 DEF TilesFetched
  <2>. QED
    BY <1>4, <1>5, <2>2 DEF StepStart
<1>6. CASE StepTile
  <2>1. /\ line \in RenderLines /\ dot \in 1 .. 256 /\ dot' = dot + 8 /\ line' = line
        /\ left' = left
    BY <1>6 DEF StepTile, NextDot, DotAfter, LineEnd
  <2>2. PICK k \in 0 .. 31 : dot = 1 + 8 * k
    BY <1>3, <2>1, TileDots
  <2>3. TilesFetched = 2 + k
    BY <2>1, <2>2 DEF TilesFetched
  <2>4. rendering
    BY <1>1, <2>1
  <2>5. CASE k = 31
    <3>1. v' = NextRow(v) /\ TilesFetched' = 33
      BY <1>6, <2>1, <2>2, <2>4, <2>5 DEF StepTile, Walk, TilesFetched
    <3>. QED
      BY <1>4, <2>1, <2>3, <2>5, <3>1
  <2>6. CASE k # 31
    <3>1. v' = NextTile(v)
      BY <1>6, <2>1, <2>2, <2>4, <2>6 DEF StepTile, Walk
    <3>2. dot' = 1 + 8 * (k + 1) /\ dot' <= 249 /\ dot' # 0 /\ (dot' - 1) \div 8 = k + 1
      BY <2>1, <2>2, <2>6
    <3>3. TilesFetched' = 2 + k + 1
      BY <2>1, <3>2 DEF TilesFetched
    <3>. QED
      BY <1>4, <2>1, <2>2, <2>3, <3>1, <3>3
  <2>. QED
    BY <2>5, <2>6
<1>7. CASE StepReloadX
  <2>1. line' = line /\ dot' = 265 /\ line \in RenderLines
    BY <1>7 DEF StepReloadX, NextDot, DotAfter, LineEnd
  <2>2. TilesFetched' = 0
    BY <2>1 DEF TilesFetched, LineEnd
  <2>3. rendering
    BY <1>1, <1>7 DEF StepReloadX
  <2>4. left' = temp /\ v' = WithHorizontal(v, temp)
    BY <1>7, <2>3 DEF StepReloadX, Walk
  <2>5. Column(v') = Column(temp) /\ Column(temp) \in 0 .. 63
    BY <1>1, <1>2, <2>4, Reloads
  <2>. QED
    BY <2>2, <2>4, <2>5
<1>8. CASE StepSprites
  <2>1. /\ line \in RenderLines /\ dot \in 265 .. 313
        /\ line' = line /\ dot' = dot + 8 /\ left' = left
    BY <1>3, <1>8, TileDots DEF StepSprites, NextDot, DotAfter, LineEnd
  <2>2. TilesFetched = 0 /\ TilesFetched' = 0
    BY <2>1 DEF TilesFetched, LineEnd
  <2>3. Column(v') = Column(v)
    BY <1>1, <1>8, Reloads DEF StepSprites, Walk
  <2>. QED
    BY <1>1, <2>1, <2>2, <2>3
<1>9. CASE StepGap
  <2>1. /\ line \in RenderLines /\ dot = 321
        /\ line' = line /\ dot' = 328 /\ left' = left /\ v' = v
    BY <1>3, <1>9, TileDots DEF StepGap, NextDot, DotAfter, LineEnd
  <2>2. TilesFetched = 0 /\ TilesFetched' = 0
    BY <2>1 DEF TilesFetched, LineEnd
  <2>. QED
    BY <1>4, <2>1, <2>2
<1>10. CASE StepPrefetch
  <2>1. line \in RenderLines /\ left' = left /\ rendering /\ v' = NextTile(v)
    BY <1>1, <1>10 DEF StepPrefetch, Walk
  <2>2. CASE dot = 328
    <3>1. line' = line /\ dot' = 336
      BY <1>10, <2>2 DEF StepPrefetch, NextDot, DotAfter, LineEnd, RenderWidth
    <3>2. TilesFetched = 0 /\ TilesFetched' = 1
      BY <2>1, <2>2, <3>1 DEF TilesFetched, LineEnd
    <3>. QED
      BY <1>4, <2>1, <3>2
  <2>3. CASE dot = LineEnd
    <3>1. dot' = 0
      BY <1>10, <2>3 DEF StepPrefetch, NextDot, DotAfter
    <3>2. TilesFetched = 1 /\ TilesFetched' = 2
      BY <2>1, <2>3, <3>1 DEF TilesFetched, LineEnd
    <3>. QED
      BY <1>4, <2>1, <3>2
  <2>. QED
    BY <1>10, <2>2, <2>3 DEF StepPrefetch
<1>11. CASE StepNotRendered
  <2>1. line \notin RenderLines /\ left' = left /\ v' = v
    BY <1>11 DEF StepNotRendered
  <2>2. line' \notin RenderLines \/ dot' = 0
    BY <1>11, <2>1, LinesAndDots, LinesAssumption
       DEF StepNotRendered, NextDot, DotAfter
  <2>3. TilesFetched = 2 /\ TilesFetched' = 2
    BY <2>1, <2>2 DEF TilesFetched
  <2>. QED
    BY <1>4, <2>1, <2>3
<1>. QED
  BY <1>5, <1>6, <1>7, <1>8, <1>9, <1>10, <1>11 DEF Step

(* The row of v follows the rows that have been finished.                  *)
LEMMA StepKeepsRow ==
  ASSUME AddrInv, Step, top' # None
  PROVE  RowBelow(v', 0) = RowBelow(top', RowsDone')
<1>1. /\ v \in Registers /\ temp \in Registers /\ top \in Registers \cup {None}
      /\ line \in Lines /\ dot \in DotsOf(line)
      /\ top # None => rendering
      /\ top # None => RowBelow(v, 0) = RowBelow(top, RowsDone)
      /\ line = PreRender /\ dot \in 1 .. 281 => top = None
  BY DEF AddrInv, TypeOK, OnlyRendering, ScrollRow, NoRowYet
<1>2. /\ line \in Int /\ dot \in 0 .. LineEnd
      /\ line \in RenderLines => dot \in RenderDots
  BY <1>1, PositionKinds
<1>3. LastVisible \in Nat /\ LastVisible <= 239 /\ LastVblank \in Nat
      /\ LastVblank >= LastVisible + 2
  BY LinesAssumption, VramAssumption
<1>4. ASSUME top' = top, top # None, Row(v') = Row(v), v' \in Registers,
             RowsDone' = RowsDone
      PROVE  RowBelow(v', 0) = RowBelow(top', RowsDone')
  BY <1>1, <1>4, RowsBelow
<1>5. CASE StepStart
  <2>1. /\ line \in RenderLines /\ dot = 0 /\ dot' = 1 /\ line' = line
        /\ v' = v /\ top' = top /\ line # PreRender
    BY <1>5 DEF StepStart, NextDot, DotAfter, LineEnd
  <2>2. RowsDone' = RowsDone
    BY <2>1 DEF RowsDone
  <2>. QED
    BY <1>1, <1>4, <2>1, <2>2
<1>6. CASE StepTile
  <2>1. /\ line \in RenderLines /\ dot \in 1 .. 256 /\ dot' = dot + 8 /\ line' = line
        /\ top' = top
    BY <1>6 DEF StepTile, NextDot, DotAfter, LineEnd
  <2>2. rendering
    BY <1>1, <2>1
  <2>3. CASE dot = 249 /\ line # PreRender
    <3>1. v' = NextRow(v)
      BY <1>6, <2>2, <2>3 DEF StepTile, Walk
    <3>2. line \in 0 .. 239
      BY <1>2, <1>3, <2>1, <2>3 DEF RenderLines, PreRender
    <3>3. RowsDone = line /\ RowsDone' = line + 1
      BY <2>1, <2>3 DEF RowsDone
    <3>4. RowBelow(top, line + 1) = RowAfter(RowBelow(top, line))
      BY <1>1, <2>1, <3>2, RowsBelow
    <3>5. Row(v) = RowBelow(top, line)
      BY <1>1, <2>1, <3>3, RowsBelow
    <3>6. v' \in Registers /\ Row(v') = RowAfter(Row(v))
      BY <1>1, <3>1, NextRowMoves
    <3>. QED
      BY <2>1, <3>3, <3>4, <3>5, <3>6, RowsBelow
  <2>4. CASE dot = 249 /\ line = PreRender
    BY <1>1, <2>1, <2>4
  <2>5. CASE dot # 249
    <3>1. v' = NextTile(v) /\ v' \in Registers /\ Row(v') = Row(v)
      BY <1>1, <1>2, <1>6, <2>1, <2>2, <2>5, NextTileMoves DEF StepTile, Walk
    <3>2. dot' <= 249 <=> dot <= 249
      BY <1>2, <2>1, <2>5, TileDots
    <3>3. RowsDone' = RowsDone
      BY <2>1, <3>2 DEF RowsDone
    <3>. QED
      BY <1>1, <1>4, <2>1, <3>1, <3>3
  <2>. QED
    BY <2>3, <2>4, <2>5
<1>7. CASE StepReloadX
  <2>1. /\ line \in RenderLines /\ dot = 257 /\ line' = line /\ dot' = 265
        /\ top' = top /\ rendering
    BY <1>1, <1>7 DEF StepReloadX, NextDot, DotAfter, LineEnd
  <2>2. RowsDone' = RowsDone
    BY <2>1 DEF RowsDone
  <2>3. v' \in Registers /\ Row(v') = Row(v)
    BY <1>1, <1>7, <2>1, Reloads DEF StepReloadX, Walk
  <2>. QED
    BY <1>4, <2>1, <2>2, <2>3
<1>8. CASE StepSprites
  <2>1. /\ line \in RenderLines /\ dot \in 258 .. 320
        /\ line' = line /\ dot' = dot + 8
    BY <1>8 DEF StepSprites, NextDot, DotAfter, LineEnd
  <2>2. CASE line = PreRender /\ dot = 281
    <3>1. top' = temp /\ v' = WithVertical(v, temp)
      BY <1>1, <1>8, <2>2 DEF StepSprites, Walk
    <3>2. RowsDone' = 0
      BY <2>1, <2>2 DEF RowsDone
    <3>. QED
      BY <1>1, <3>1, <3>2, Reloads, RowsBelow
  <2>3. CASE ~(line = PreRender /\ dot = 281)
    <3>1. v' = v /\ top' = top
      BY <1>8, <2>3 DEF StepSprites
    <3>2. RowsDone' = RowsDone
      BY <2>1 DEF RowsDone
    <3>. QED
      BY <1>1, <1>4, <3>1, <3>2
  <2>. QED
    BY <2>2, <2>3
<1>9. CASE StepGap
  <2>1. /\ line \in RenderLines /\ dot \in 321 .. 327
        /\ line' = line /\ dot' = dot + 7 /\ top' = top /\ v' = v
    BY <1>9 DEF StepGap, NextDot, DotAfter, LineEnd
  <2>2. RowsDone' = RowsDone
    BY <2>1 DEF RowsDone
  <2>. QED
    BY <1>1, <1>4, <2>1, <2>2
<1>10. CASE StepPrefetch
  <2>1. line \in RenderLines /\ top' = top /\ rendering /\ v' = NextTile(v)
    BY <1>1, <1>10 DEF StepPrefetch, Walk
  <2>2. v' \in Registers /\ Row(v') = Row(v)
    BY <1>1, <2>1, NextTileMoves
  <2>3. CASE dot = 328
    <3>1. line' = line /\ dot' = 336
      BY <1>10, <2>3 DEF StepPrefetch, NextDot, DotAfter, LineEnd, RenderWidth
    <3>2. RowsDone' = RowsDone
      BY <2>1, <2>3, <3>1 DEF RowsDone
    <3>. QED
      BY <1>4, <2>1, <2>2, <3>2
  <2>4. CASE dot = LineEnd
    <3>1. dot' = 0 /\ line' = line + 1
      BY <1>2, <1>3, <1>10, <2>1, <2>4
         DEF StepPrefetch, NextDot, DotAfter, RenderLines
    <3>2. RowsDone = IF line = PreRender THEN 0 ELSE line + 1
      BY <2>1, <2>4 DEF RowsDone, LineEnd
    <3>3. line + 1 # PreRender /\ (line + 1 \notin RenderLines => line = LastVisible)
      BY <1>2, <1>3, <2>1 DEF RenderLines, PreRender
    <3>4. RowsDone' = RowsDone
      BY <1>3, <3>1, <3>2, <3>3 DEF RowsDone, PreRender
    <3>. QED
      BY <1>4, <2>1, <2>2, <3>4
  <2>. QED
    BY <1>10, <2>3, <2>4 DEF StepPrefetch
<1>11. CASE StepNotRendered
  <2>1. line \notin RenderLines /\ top' = top /\ v' = v
    BY <1>11 DEF StepNotRendered
  <2>2. line' \notin RenderLines \/ (line' = PreRender /\ dot' = 0)
    BY <1>1, <1>3, <1>11, <2>1
       DEF StepNotRendered, NextDot, DotAfter, RenderLines, Lines, PreRender
  <2>3. RowsDone' = RowsDone
    BY <2>1, <2>2 DEF RowsDone
  <2>. QED
    BY <1>1, <1>4, <2>1, <2>3
<1>. QED
  BY <1>5, <1>6, <1>7, <1>8, <1>9, <1>10, <1>11 DEF Step

(* On the pre-render line no step but the one from dot 281 loads a row.    *)
LEMMA StepKeepsNoRow ==
  ASSUME AddrInv, Step
  PROVE  NoRowYet'
<1>1. /\ line \in Lines /\ dot \in DotsOf(line)
      /\ line = PreRender /\ dot \in 1 .. 281 => top = None
  BY DEF AddrInv, TypeOK, NoRowYet
<1>2. /\ line \in Int /\ dot \in 0 .. LineEnd
      /\ line \in RenderLines => dot \in RenderDots
  BY <1>1, PositionKinds
<1>3. SUFFICES ASSUME line' = PreRender, dot' \in 1 .. 281
               PROVE  top' = None
  BY DEF NoRowYet
<1>4. PreRender \in RenderLines
  BY LinesAndDots
<1>5. CASE StepStart
  <2>1. line' = line
    BY <1>5 DEF StepStart, NextDot, LineEnd
  <2>. QED
    BY <1>3, <1>5, <2>1 DEF StepStart
<1>6. CASE StepTile \/ StepReloadX \/ StepSprites
  <2>1. line' = line /\ dot' = dot + 8 /\ dot \in 1 .. 320
    BY <1>6 DEF StepTile, StepReloadX, StepSprites, NextDot, DotAfter, LineEnd
  <2>2. dot \in 1 .. 273
    BY <1>3, <2>1
  <2>3. top = None
    BY <1>1, <1>3, <2>1, <2>2
  <2>4. CASE StepTile
    BY <2>3, <2>4 DEF StepTile
  <2>5. CASE StepReloadX
    BY <2>3, <2>5 DEF StepReloadX
  <2>6. CASE StepSprites
    BY <2>2, <2>3, <2>6 DEF StepSprites
  <2>. QED
    BY <1>6, <2>4, <2>5, <2>6
<1>7. CASE StepGap \/ StepPrefetch
  BY <1>3, <1>7
     DEF StepGap, StepPrefetch, NextDot, DotAfter, LineEnd, RenderWidth
<1>8. CASE StepNotRendered
  <2>1. line' = line \/ dot' = 0
    BY <1>8 DEF StepNotRendered, NextDot, DotAfter
  <2>. QED
    BY <1>3, <1>4, <1>8, <2>1 DEF StepNotRendered
<1>. QED
  BY <1>5, <1>6, <1>7, <1>8 DEF Step

(* The program's accesses leave the position alone, and every one of them  *)
(* that changes v or switches rendering ends the scroll positions.         *)
LEMMA AccessKeepsScroll ==
  ASSUME AddrInv, Program
  PROVE  /\ UNCHANGED ppu
         /\ accesses' \in 0 .. MaxAccesses
         /\ v' = v \/ (top' = None /\ left' = None)
         /\ rendering' = rendering \/ (top' = None /\ left' = None)
         /\ (top' = top /\ left' = left) \/ (top' = None /\ left' = None)
<1>1. accesses \in 0 .. MaxAccesses /\ MaxAccesses \in Nat
  BY VramAssumption DEF AddrInv, TypeOK
<1>2. Access
  BY DEF Program, WriteCtrl, WriteMask, ReadStatus, WriteScroll, WriteAddrHigh,
         WriteAddrLow, ReadData, WriteData
<1>3. UNCHANGED ppu /\ accesses' \in 0 .. MaxAccesses
  BY <1>1, <1>2 DEF Access
<1>4. ASSUME NEW c \in Ctrls, WriteCtrl(c)
      PROVE  v' = v /\ rendering' = rendering /\ top' = top /\ left' = left
  BY <1>4 DEF WriteCtrl
<1>5. CASE WriteMask
  BY <1>3, <1>5 DEF WriteMask
<1>6. CASE ReadStatus
  BY <1>3, <1>6 DEF ReadStatus
<1>7. ASSUME NEW b \in Scrolls, WriteScroll(b)
      PROVE  v' = v /\ rendering' = rendering /\ top' = top /\ left' = left
  BY <1>7 DEF WriteScroll
<1>8. ASSUME NEW b \in AddrBytes, WriteAddrHigh(b) \/ WriteAddrLow(b)
      PROVE  /\ v' = v \/ (top' = None /\ left' = None)
             /\ rendering' = rendering
             /\ (top' = top /\ left' = left) \/ (top' = None /\ left' = None)
  BY <1>8 DEF WriteAddrHigh, WriteAddrLow
<1>9. CASE ReadData \/ WriteData
  BY <1>3, <1>9 DEF ReadData, WriteData, MoveOn
<1>. QED
  BY <1>3, <1>4, <1>5, <1>6, <1>7, <1>8, <1>9 DEF Program

(* What an access to ppudata does to an address: as the program counts.    *)
LEMMA NextAddrType ==
  ASSUME NEW a \in Registers, by32 \in BOOLEAN
  PROVE  /\ NextAddr(a) \in Registers
         /\ Addr(NextAddr(a)) = Addr(Addr(a) + (IF by32 THEN 32 ELSE 1))
         /\ Addr(a) \in Addrs
<1>1. PICK k : k = IF by32 THEN 32 ELSE 1
  OBVIOUS
<1>2. k \in 1 .. 32
  BY <1>1
<1>3. a \in Int /\ 0 <= a /\ a < 32768
  BY DEF Registers
<1>4. PICK h, l : h = a \div 16384 /\ l = a % 16384
  OBVIOUS
<1>5. h \in 0 .. 1 /\ l \in Int /\ 0 <= l /\ l < 16384 /\ a = 16384 * h + l
  BY <1>3, <1>4
<1>6. (a + k) % 16384 = (l + k) % 16384
  BY <1>2, <1>5
<1>7. PICK r : r = (l + k) % 16384
  OBVIOUS
<1>8. r \in Int /\ 0 <= r /\ r < 16384 /\ r % 16384 = r
  BY <1>2, <1>5, <1>7
<1>9. NextAddr(a) = r
  BY <1>1, <1>6, <1>7 DEF NextAddr
<1>10. Addr(r) = r /\ Addr(a) = l
  BY <1>4, <1>8 DEF Addr
<1>11. Addr(l + k) = r
  BY <1>7 DEF Addr
<1>. QED
  BY <1>1, <1>5, <1>8, <1>9, <1>10, <1>11 DEF Registers, Addrs

(* Each access of the program keeps the types, the agreement between the   *)
(* toggle and the program's view of it, and the address pointed at.        *)
LEMMA AccessKeepsView ==
  ASSUME AddrInv, Program
  PROVE  TypeOK' /\ HalvesAgree' /\ AddressKept'
<1>1. TypeOK /\ HalvesAgree /\ AddressKept
  BY DEF AddrInv
<1>2. /\ line' \in Lines /\ dot' \in DotsOf(line') /\ accesses' \in 0 .. MaxAccesses
      /\ top' = None \/ top' \in Registers
      /\ left' = None \/ left' \in Registers
  BY <1>1, AccessKeepsScroll DEF TypeOK, ppu
<1>3. /\ v \in Registers /\ temp \in Registers /\ buffer \in Addrs
      /\ toggle \in BOOLEAN /\ by32 \in BOOLEAN /\ rendering \in BOOLEAN
      /\ half \in {None, Fresh} \cup Bytes
      /\ pointed = None \/ pointed \in Addrs
  BY <1>1 DEF TypeOK
<1>4. /\ None \notin Bytes /\ Fresh \notin Bytes /\ None # Fresh /\ None \notin Addrs
  BY DEF None, Fresh, Bytes, Addrs
<1>5. ASSUME NEW c \in Ctrls, WriteCtrl(c)
      PROVE  TypeOK' /\ HalvesAgree' /\ AddressKept'
  <2>1. c.nt \in 0 .. 3 /\ c.by32 \in BOOLEAN
    BY VramAssumption
  <2>2. /\ temp' \in Registers /\ by32' \in BOOLEAN
        /\ half' = IF half \in Bytes THEN None ELSE half
        /\ UNCHANGED <<rendering, v, toggle, buffer, pointed>>
    BY <1>3, <1>5, <2>1, SetNametableType DEF WriteCtrl
  <2>3. TypeOK'
    BY <1>1, <1>2, <2>2 DEF TypeOK
  <2>. QED
    BY <1>1, <1>4, <2>2, <2>3 DEF HalvesAgree, AddressKept
<1>6. CASE WriteMask
  <2>1. TypeOK'
    BY <1>1, <1>2, <1>6 DEF WriteMask, TypeOK
  <2>. QED
    BY <1>1, <1>6, <2>1 DEF WriteMask, HalvesAgree, AddressKept
<1>7. CASE ReadStatus
  <2>1. TypeOK'
    BY <1>1, <1>2, <1>7 DEF ReadStatus, TypeOK
  <2>. QED
    BY <1>1, <1>4, <1>7, <2>1 DEF ReadStatus, HalvesAgree, AddressKept
<1>8. ASSUME NEW b \in Scrolls, WriteScroll(b)
      PROVE  TypeOK' /\ HalvesAgree' /\ AddressKept'
  <2>1. b \in Bytes
    BY VramAssumption
  <2>2. temp' \in Registers
    BY <1>3, <1>8, <2>1, ScrollHalves DEF WriteScroll
  <2>3. TypeOK'
    BY <1>1, <1>2, <1>8, <2>2 DEF WriteScroll, TypeOK
  <2>. QED
    BY <1>1, <1>4, <1>8, <2>3 DEF WriteScroll, HalvesAgree, AddressKept
<1>9. ASSUME NEW b \in AddrBytes, WriteAddrHigh(b)
      PROVE  TypeOK' /\ HalvesAgree' /\ AddressKept'
  <2>1. b \in Bytes
    BY VramAssumption
  <2>2. temp' \in Registers /\ temp' \div 256 = b % 64
    BY <1>3, <1>9, <2>1, AddressHalves DEF WriteAddrHigh
  <2>3. ~toggle /\ toggle' /\ v' = v /\ toggle' = TRUE
    BY <1>9 DEF WriteAddrHigh
  <2>4. half \in {None, Fresh}
    BY <1>1, <1>3, <2>3 DEF HalvesAgree
  <2>5. /\ half' = IF half = Fresh THEN b ELSE None
        /\ pointed' = IF half = Fresh THEN pointed ELSE None
    BY <1>4, <1>9, <2>4 DEF WriteAddrHigh, PointAt
  <2>6. TypeOK'
    BY <1>1, <1>2, <1>9, <2>1, <2>2, <2>5 DEF WriteAddrHigh, TypeOK
  <2>7. HalvesAgree'
    BY <1>4, <2>1, <2>2, <2>3, <2>5 DEF HalvesAgree
  <2>8. AddressKept'
    BY <1>1, <2>3, <2>5 DEF AddressKept
  <2>. QED
    BY <2>6, <2>7, <2>8
<1>10. ASSUME NEW b \in AddrBytes, WriteAddrLow(b)
       PROVE  TypeOK' /\ HalvesAgree' /\ AddressKept'
  <2>1. b \in Bytes
    BY VramAssumption
  <2>2. temp' \in Registers /\ v' = temp' /\ temp' = 256 * (temp \div 256) + b
    BY <1>3, <1>10, <2>1, AddressHalves DEF WriteAddrLow
  <2>3. toggle /\ toggle' = FALSE
    BY <1>10 DEF WriteAddrLow
  <2>4. half \in {None} \cup Bytes
    BY <1>1, <1>3, <2>3 DEF HalvesAgree
  <2>5. /\ half' = IF half \in Bytes THEN Fresh ELSE None
        /\ pointed' = IF half \in Bytes THEN Addr(256 * half + b) ELSE None
    BY <1>4, <1>10, <2>4 DEF WriteAddrLow, PointAt
  <2>6. ASSUME half \in Bytes
        PROVE  Addr(256 * half + b) = Addr(v') /\ Addr(v') \in Addrs
    <3>1. temp \div 256 = half % 64
      BY <1>1, <2>6 DEF HalvesAgree
    <3>2. v' = 256 * (half % 64) + b
      BY <2>2, <3>1
    <3>3. (256 * half + b) % 16384 = 256 * (half % 64) + b
      BY <2>1, <2>6 DEF Bytes
    <3>4. /\ (256 * (half % 64) + b) % 16384 = 256 * (half % 64) + b
          /\ 256 * (half % 64) + b \in Addrs
      BY <2>1, <2>6 DEF Bytes, Addrs
    <3>. QED
      BY <3>2, <3>3, <3>4 DEF Addr
  <2>7. TypeOK'
    <3>1. pointed' = None \/ pointed' \in Addrs
      BY <2>5, <2>6
    <3>. QED
      BY <1>1, <1>2, <1>10, <2>2, <2>5, <3>1 DEF WriteAddrLow, TypeOK
  <2>8. HalvesAgree'
    BY <1>4, <2>3, <2>5 DEF HalvesAgree
  <2>9. AddressKept'
    BY <2>5, <2>6 DEF AddressKept
  <2>. QED
    BY <2>7, <2>8, <2>9
<1>11. CASE ReadData \/ WriteData
  <2>1. MoveOn
    BY <1>11 DEF ReadData, WriteData
  <2>2. v' \in Registers
    BY <1>3, <2>1, NextTileMoves, NextRowMoves, NextAddrType DEF MoveOn
  <2>3. buffer' \in Addrs
    <3>1. v \in Int /\ 0 <= v /\ v < 32768
      BY <1>3 DEF Registers
    <3>2. ReadsPalette => Addr(v) = v /\ v >= 16128
      BY <3>1 DEF ReadsPalette, Addr
    <3>3. Addr(v) \in Addrs
      BY <1>3, NextAddrType
    <3>4. ReadsPalette => Addr(v) - 4096 \in Addrs
      BY <3>1, <3>2, <3>3 DEF Addrs
    <3>. QED
      BY <1>3, <1>11, <3>3, <3>4 DEF ReadData, WriteData
  <2>4. ASSUME pointed' # None
        PROVE  pointed' = Addr(v') /\ pointed' \in Addrs
    <3>1. pointed # None /\ ~(rendering /\ line <= Idle)
      BY <2>1, <2>4 DEF MoveOn
    <3>2. pointed' = Addr(pointed + (IF by32 THEN 32 ELSE 1))
      BY <2>1, <3>1 DEF MoveOn
    <3>3. line \in Int
      BY <1>1, PositionKinds DEF TypeOK
    <3>4. ~CurrentlyRendering
      BY <3>1, <3>3, LinesAssumption DEF CurrentlyRendering, Idle, FirstVblank
    <3>5. v' = NextAddr(v)
      BY <2>1, <3>4 DEF MoveOn
    <3>6. Addr(v) = pointed
      BY <1>1, <3>1 DEF AddressKept
    <3>. QED
      BY <1>3, <2>2, <3>2, <3>5, <3>6, NextAddrType
  <2>5. TypeOK'
    BY <1>1, <1>2, <2>1, <2>2, <2>3, <2>4 DEF MoveOn, TypeOK
  <2>6. HalvesAgree'
    BY <1>1, <2>1 DEF MoveOn, HalvesAgree
  <2>. QED
    BY <2>4, <2>5, <2>6 DEF AddressKept
<1>. QED
  BY <1>5, <1>6, <1>7, <1>8, <1>9, <1>10, <1>11 DEF Program

(* Every step keeps the whole invariant.                                   *)
LEMMA AddrInvNext == AddrInv /\ [Next]_vars => AddrInv'
<1>1. ASSUME AddrInv, Step PROVE AddrInv'
  <2>1. ScrollColumn'
    BY <1>1, StepKeepsColumn DEF ScrollColumn
  <2>2. ScrollRow'
    BY <1>1, StepKeepsRow DEF ScrollRow
  <2>. QED
    BY <1>1, <2>1, <2>2, StepKeepsView, StepKeepsNoRow DEF AddrInv
<1>2. ASSUME AddrInv, Program PROVE AddrInv'
  <2>1. /\ UNCHANGED <<line, dot>>
        /\ v' = v \/ (top' = None /\ left' = None)
        /\ rendering' = rendering \/ (top' = None /\ left' = None)
        /\ (top' = top /\ left' = left) \/ (top' = None /\ left' = None)
    BY <1>2, AccessKeepsScroll DEF ppu
  <2>2. OnlyRendering' /\ NoRowYet'
    BY <1>2, <2>1 DEF AddrInv, OnlyRendering, NoRowYet
  <2>3. TilesFetched' = TilesFetched /\ RowsDone' = RowsDone
    BY <2>1 DEF TilesFetched, RowsDone
  <2>4. ScrollColumn'
    BY <1>2, <2>1, <2>3 DEF AddrInv, ScrollColumn
  <2>5. ScrollRow'
    BY <1>2, <2>1, <2>3 DEF AddrInv, ScrollRow
  <2>. QED
    BY <1>2, <2>2, <2>4, <2>5, AccessKeepsView DEF AddrInv
<1>3. ASSUME AddrInv, UNCHANGED vars PROVE AddrInv'
  BY <1>3 DEF AddrInv, vars, TypeOK, HalvesAgree, OnlyRendering, NoRowYet,
       AddressKept, ScrollColumn, ScrollRow, TilesFetched, RowsDone
<1>. QED
  BY <1>1, <1>2, <1>3 DEF Next

LEMMA AddrInvariance == Spec => []AddrInv
  BY AddrInvInit, AddrInvNext, PTL DEF Spec

-----------------------------------------------------------------------------
(* Every register, address and position stays within its width.            *)
THEOREM AddrTypeCorrect == Spec => []TypeOK
<1>1. AddrInv => TypeOK
  BY DEF AddrInv
<1>. QED
  BY <1>1, AddrInvariance, PTL

(* A program that has written both halves of an address keeps pointing at  *)
(* it until the PPU renders, however its accesses and the steps of the PPU *)
(* interleave and whatever it writes to the other registers in between.    *)
THEOREM PointerIsKept == Spec => []AddressKept
<1>1. AddrInv => AddressKept
  BY DEF AddrInv
<1>. QED
  BY <1>1, AddrInvariance, PTL

(* Every tile is fetched from where the scroll position that was in force  *)
(* when its line, and its frame, began says, across and down, whatever the *)
(* program writes in the middle of a line or of a frame.                   *)
THEOREM ScrollIsFollowed == Spec => []ScrollPosition
<1>1. AddrInv => ScrollPosition
  BY DEF AddrInv, ScrollPosition
<1>. QED
  BY <1>1, AddrInvariance, PTL

-----------------------------------------------------------------------------
(***************************************************************************)
(* Pixels: the line on the screen is the picture.                          *)
(***************************************************************************)
\* A step of the line draws at dot 8 * n + 1, n = 0 .. 31.
Steps == 0 .. 31
Dots == {328, 336, 0, 257} \cup {8 * n + 1 : n \in Steps}

PixelsTypeOK ==
  /\ screenDot \in Dots
  /\ regs \in DrawRegisters
  /\ held \in TileRows \X TileRows
  /\ fetched \in Nat
  /\ zeroHit \in BOOLEAN
  /\ interrupted \in BOOLEAN

\* The register holds the two tiles that the step at dot 8 * n + 1 draws from.
Aligned ==
  ~interrupted =>
    /\ screenDot = 328 => fetched = 0
    /\ screenDot = 336 => fetched = 1 /\ held[2] = Strip[0]
    /\ screenDot = 0 => fetched = 2 /\ held = <<Strip[0], Strip[1]>>
    /\ \A n \in Steps : screenDot = 8 * n + 1 =>
         fetched = n + 2 /\ held = <<Strip[n], Strip[n + 1]>>

ZeroHitAt(x, r) ==
  x # 255 /\ BgAt(x, r) # 0 /\ MarkShown(x, r)

-----------------------------------------------------------------------------
(***************************************************************************)
(* Dots and columns.                                                       *)
(***************************************************************************)
LEMMA WrapsOnce ==
  ASSUME NEW d \in Int, -256 < d, d < 256
  PROVE  d % 65536 = IF d >= 0 THEN d ELSE d + 65536
  BY SMT

\* The dot of a column lies within a sprite, modulo 2^16, just when the
\* sprite covers the column.
LEMMA OffsetInSprite ==
  ASSUME PixelsAssumption, NEW k \in Places, NEW x \in ScreenX
  PROVE  /\ (Sprites[k].x < 249 /\ SpriteOffset(k, x + 1) < 8) <=> Covers(k, x)
         /\ Covers(k, x) => SpriteOffset(k, x + 1) = x - Sprites[k].x
  <1>1. Sprites[k].x \in Int /\ 0 <= Sprites[k].x /\ Sprites[k].x <= 255
    BY DEF PixelsAssumption, SpriteRows
  <1>2. x \in Int /\ 0 <= x /\ x <= 255
    BY DEF ScreenX
  <1>3. PICK d \in Int : d = x - Sprites[k].x
    BY <1>1, <1>2
  <1>4. SpriteOffset(k, x + 1) = d % 65536
    BY <1>1, <1>2, <1>3 DEF SpriteOffset
  <1>5. d % 65536 = IF d >= 0 THEN d ELSE d + 65536
    BY <1>1, <1>2, <1>3, WrapsOnce
  <1>. QED
    BY <1>1, <1>2, <1>3, <1>4, <1>5 DEF Covers

LEMMA SameSprites ==
  ASSUME PixelsAssumption, NEW x \in ScreenX
  PROVE  /\ Opaque(x + 1) = {k \in Listed : Covers(k, x) /\ OwnColour(k, x) # 0}
         /\ \A k \in Opaque(x + 1) : SpriteColour(k, SpriteOffset(k, x + 1)) = OwnColour(k, x)
  <1>1. ASSUME NEW k \in Places, Covers(k, x)
        PROVE  SpriteColour(k, SpriteOffset(k, x + 1)) = OwnColour(k, x)
    <2>1. SpriteOffset(k, x + 1) = x - Sprites[k].x
      BY <1>1, OffsetInSprite
    <2>2. Sprites[k].x \in Int /\ x \in Int
      BY DEF PixelsAssumption, SpriteRows, ScreenX
    <2>3. 7 - (x - Sprites[k].x) = Sprites[k].x + 7 - x
      BY <2>2
    <2>. QED
      BY <2>1, <2>3 DEF SpriteColour, OwnColour
  <1>2. Listed \subseteq Places
    BY DEF Listed
  <1>3. ASSUME NEW k \in Places
        PROVE  (/\ Sprites[k].x < 249 /\ SpriteOffset(k, x + 1) < 8
                /\ SpriteColour(k, SpriteOffset(k, x + 1)) # 0)
               <=> Covers(k, x) /\ OwnColour(k, x) # 0
    BY <1>1, OffsetInSprite
  <1>4. Opaque(x + 1) = {k \in Listed : Covers(k, x) /\ OwnColour(k, x) # 0}
    BY <1>2, <1>3 DEF Opaque
  <1>. QED
    BY <1>1, <1>2, <1>4

LEMMA FirstIsLeast ==
  ASSUME NEW S \in SUBSET Places, S # {}
  PROVE  First(S) \in S /\ \A j \in S : First(S) <= j
  <1>1. \E k \in S : \A j \in S : k <= j
    <2>1. S \subseteq {1, 2, 3, 4, 5, 6, 7, 8}
      BY DEF Places
    <2>2. SUFFICES ASSUME \A k \in S : \E j \in S : j < k
                   PROVE  FALSE
      BY <2>1
    <2>3. 1 \notin S /\ 2 \notin S /\ 3 \notin S /\ 4 \notin S
      BY <2>1, <2>2
    <2>4. 5 \notin S /\ 6 \notin S /\ 7 \notin S /\ 8 \notin S
      BY <2>1, <2>2, <2>3
    <2>. QED
      BY <2>1, <2>3, <2>4
  <1>. QED
    BY <1>1 DEF First

LEMMA TileColumn ==
  ASSUME NEW m \in Int, NEW r \in Int, 0 <= r, r < 8
  PROVE  (8 * m + r) \div 8 = m /\ (8 * m + r) % 8 = r
  BY SMT

\* One pixel of the step at dot 8 * n + 1.
LEMMA PixelIsPicture ==
  ASSUME PixelsAssumption, NEW n \in Steps, NEW i \in Columns, NEW x \in ScreenX,
         x = 8 * n + i, screenDot = 8 * n + 1, regs \in DrawRegisters,
         held = <<Strip[n], Strip[n + 1]>>
  PROVE  /\ Pixel(i) = PictureAt(x, regs)
         /\ HitsZero(i) <=> ZeroHitAt(x, regs)
  <1>1. n \in Int /\ 0 <= n /\ i \in Int /\ 0 <= i /\ i <= 7 /\ x \in Int
    BY DEF Steps, Columns, ScreenX
  <1>2. PICK f \in Int : f = regs.fineX /\ 0 <= f /\ f <= 7
    BY DEF DrawRegisters
  <1>3. screenDot + i = x + 1 /\ (screenDot + i \in 1 .. 8 <=> InLeft(x))
    BY <1>1 DEF InLeft
  \* The tile that the scrolled column belongs to.
  <1>4. PICK t \in {n, n + 1}, c \in Columns :
          /\ (x + f) \div 8 = t /\ (x + f) % 8 = c
          /\ i + f > 7 => t = n + 1 /\ c = i + f - 8
          /\ ~(i + f > 7) => t = n /\ c = i + f
    <2>1. CASE i + f > 7
      <3>1. i + f - 8 \in 0 .. 7 /\ x + f = 8 * (n + 1) + (i + f - 8)
        BY <1>1, <1>2, <2>1
      <3>2. (x + f) \div 8 = n + 1 /\ (x + f) % 8 = i + f - 8
        BY <1>1, <1>2, <3>1, TileColumn
      <3>. QED
        BY <2>1, <3>1, <3>2 DEF Columns
    <2>2. CASE ~(i + f > 7)
      <3>1. i + f \in 0 .. 7 /\ x + f = 8 * n + (i + f)
        BY <1>1, <1>2, <2>2
      <3>2. (x + f) \div 8 = n /\ (x + f) % 8 = i + f
        <4>1. PICK r \in Int : r = i + f /\ 0 <= r /\ r < 8
          BY <1>1, <1>2, <3>1
        <4>2. (8 * n + r) \div 8 = n /\ (8 * n + r) % 8 = r
          BY <1>1, <4>1, TileColumn
        <4>. QED
          BY <3>1, <4>1, <4>2
      <3>. QED
        BY <2>2, <3>1, <3>2 DEF Columns
    <2>. QED
      BY <2>1, <2>2
  <1>5. held[1] = Strip[n] /\ held[2] = Strip[n + 1]
    OBVIOUS
  <1>6. BgPalette(i) = Strip[t].palette
    BY <1>2, <1>4, <1>5 DEF BgPalette
  <1>7. BgColour(i) = BgAt(x, regs)
    <2>1. HeldColour(i + f) = Strip[t].colour[c]
      <3>1. CASE i + f > 7
        <4>1. HeldColour(i + f) = held[2].colour[i + f - 8]
          BY <1>1, <1>2, <3>1 DEF HeldColour
        <4>2. held[2] = Strip[t] /\ i + f - 8 = c
          BY <1>4, <1>5, <3>1
        <4>. QED
          BY <4>1, <4>2
      <3>2. CASE ~(i + f > 7)
        <4>1. HeldColour(i + f) = held[1].colour[i + f]
          BY <3>2 DEF HeldColour
        <4>2. held[1] = Strip[t] /\ i + f = c
          BY <1>4, <1>5, <3>2
        <4>. QED
          BY <4>1, <4>2
      <3>. QED
        BY <3>1, <3>2
    <2>2. Shown(regs.bg, regs.bgLeft, screenDot + i) <=> regs.bg /\ (InLeft(x) => regs.bgLeft)
      BY <1>3 DEF Shown
    <2>3. BgColour(i) = IF regs.bg /\ (InLeft(x) => regs.bgLeft)
                        THEN Strip[t].colour[c] ELSE 0
      BY <1>2, <2>1, <2>2 DEF BgColour
    <2>4. BgAt(x, regs) = IF regs.bg /\ (InLeft(x) => regs.bgLeft)
                          THEN Strip[t].colour[c] ELSE 0
      BY <1>2, <1>4 DEF BgAt
    <2>. QED
      BY <2>3, <2>4
  <1>8. SpritesAt(i) = OpaqueAt(x, regs)
    BY <1>3, SameSprites DEF SpritesAt, OpaqueAt, Shown
  <1>9. OpaqueAt(x, regs) \subseteq Opaque(x + 1) /\ OpaqueAt(x, regs) \subseteq Places
    BY SameSprites DEF OpaqueAt, Listed
  <1>10. ASSUME OpaqueAt(x, regs) # {}
         PROVE  /\ First(OpaqueAt(x, regs)) \in OpaqueAt(x, regs)
                /\ \A j \in OpaqueAt(x, regs) : First(OpaqueAt(x, regs)) <= j
    BY <1>9, <1>10, FirstIsLeast
  <1>11. Pixel(i) = PictureAt(x, regs)
    <2> DEFINE k == First(OpaqueAt(x, regs))
    <2>1. CASE OpaqueAt(x, regs) # {}
      <3>1. SpriteColour(k, SpriteOffset(k, screenDot + i)) = OwnColour(k, x)
        BY <1>3, <1>9, <1>10, <2>1, SameSprites
      <3>2. (x + regs.fineX) \div 8 = t
        BY <1>2, <1>4
      <3> HIDE DEF k
      <3>3. Pixel(i) = IF Sprites[k].front \/ BgAt(x, regs) = 0
                       THEN ColourIndex(Sprites[k].palette + 4, OwnColour(k, x))
                       ELSE ColourIndex(Strip[t].palette, BgAt(x, regs))
        BY <1>6, <1>7, <1>8, <2>1, <3>1 DEF Pixel, k
      <3>4. PictureAt(x, regs) = IF Sprites[k].front \/ BgAt(x, regs) = 0
                                 THEN ColourIndex(Sprites[k].palette + 4, OwnColour(k, x))
                                 ELSE ColourIndex(Strip[t].palette, BgAt(x, regs))
        BY <2>1, <3>2 DEF PictureAt, k
      <3>. QED
        BY <3>3, <3>4
    <2>2. CASE OpaqueAt(x, regs) = {}
      BY <1>2, <1>4, <1>6, <1>7, <1>8, <2>2 DEF Pixel, PictureAt
    <2>. QED
      BY <2>1, <2>2
  <1>12. HitsZero(i) <=> ZeroHitAt(x, regs)
    <2>1. screenDot + i - 1 # 255 <=> x # 255
      BY <1>1, <1>3
    <2>. QED
      BY <1>7, <1>8, <2>1 DEF HitsZero, ZeroHitAt, MarkShown
  <1>. QED
    BY <1>11, <1>12

-----------------------------------------------------------------------------
(***************************************************************************)
(* The invariant.                                                          *)
(***************************************************************************)
LEMMA FetchAligns ==
  ASSUME PixelsAssumption, PixelsTypeOK, ShiftAndFetch
  PROVE  /\ held' \in TileRows \X TileRows /\ fetched' \in Nat
         /\ Rendering => fetched' = fetched + 1 /\ held' = <<held[2], Strip[fetched]>>
  <1>1. CASE Rendering
    BY <1>1 DEF ShiftAndFetch, PixelsAssumption, PixelsTypeOK
  <1>2. CASE ~Rendering
    BY <1>2 DEF ShiftAndFetch, PixelsTypeOK
  <1>. QED
    BY <1>1, <1>2

(* The types of the line's state (Ppu, BgDrawState).                       *)
THEOREM PixelTypes ==
  ASSUME PixelsAssumption
  PROVE  PixelsSpec => []PixelsTypeOK
  <1>1. PixelsInit => PixelsTypeOK
    <2>1. 328 \in Dots /\ FALSE \in BOOLEAN /\ 0 \in Nat
      BY DEF Dots
    <2>. QED
      BY <2>1 DEF PixelsInit, PixelsTypeOK
  <1>2. PixelsTypeOK /\ [PixelsNext]_pixelVars => PixelsTypeOK'
    <2> SUFFICES ASSUME PixelsTypeOK, [PixelsNext]_pixelVars PROVE PixelsTypeOK'
      OBVIOUS
    <2>1. CASE Prefetch
      BY <2>1, FetchAligns DEF Prefetch, Noted, PixelsTypeOK, Dots
    <2>2. CASE Start
      <3>1. 1 \in Dots
        BY 1 = 8 * 0 + 1 DEF Dots, Steps
      <3>. QED
        BY <2>2, <3>1 DEF Start, PixelsTypeOK
    <2>3. CASE DrawEight
      <3>1. PICK n \in Steps : screenDot = 8 * n + 1
        BY <2>3 DEF DrawEight, PixelsTypeOK, Dots, Steps
      <3>2. screenDot' \in Dots
        <4>1. CASE n = 31
          BY <2>3, <3>1, <4>1 DEF DrawEight, Dots
        <4>2. CASE n # 31
          <5>1. n + 1 \in Steps /\ screenDot' = 8 * (n + 1) + 1
            BY <2>3, <3>1, <4>2 DEF DrawEight, Steps
          <5>. QED
            BY <5>1 DEF Dots
        <4>. QED
          BY <4>1, <4>2
      <3>3. held' \in TileRows \X TileRows /\ fetched' \in Nat
        BY <2>3, FetchAligns DEF DrawEight, PixelsTypeOK
      <3>4. zeroHit' \in BOOLEAN /\ interrupted' \in BOOLEAN /\ regs' = regs
        BY <2>3 DEF DrawEight, Noted, PixelsTypeOK
      <3>. QED
        BY <3>2, <3>3, <3>4 DEF PixelsTypeOK
    <2>4. CASE WriteRegisters
      BY <2>4 DEF WriteRegisters, PixelsTypeOK
    <2>5. CASE UNCHANGED pixelVars
      BY <2>5 DEF pixelVars, PixelsTypeOK
    <2>. QED
      BY <2>1, <2>2, <2>3, <2>4, <2>5 DEF PixelsNext
  <1>. QED
    BY <1>1, <1>2, PTL DEF PixelsSpec

(* The step at dot 8 * n + 1 finds the tiles n and n + 1 of the line in    *)
(* the shift register, if rendering was on in every step before it         *)
(* (the two fetches at 328 and 336, and 31 of the 32 steps).               *)
THEOREM RegisterAligned ==
  ASSUME PixelsAssumption
  PROVE  PixelsSpec => []Aligned
  <1>1. PixelsInit => Aligned
    BY DEF PixelsInit, Aligned, Steps
  <1>2. PixelsTypeOK /\ Aligned /\ [PixelsNext]_pixelVars => Aligned'
    <2> SUFFICES ASSUME PixelsTypeOK, Aligned, [PixelsNext]_pixelVars PROVE Aligned'
      OBVIOUS
    <2> SUFFICES ASSUME ~interrupted' PROVE Aligned'
      BY DEF Aligned
    <2>1. CASE Prefetch
      <3>1. Rendering /\ ~interrupted
        BY <2>1 DEF Prefetch, Noted, PixelsTypeOK
      <3>2. fetched' = fetched + 1 /\ held' = <<held[2], Strip[fetched]>>
        BY <2>1, <3>1, FetchAligns DEF Prefetch
      <3>3. CASE screenDot = 328
        BY <2>1, <3>1, <3>2, <3>3 DEF Prefetch, Aligned, Steps
      <3>4. CASE screenDot = 336
        BY <2>1, <3>1, <3>2, <3>4 DEF Prefetch, Aligned, Steps
      <3>. QED
        BY <2>1, <3>3, <3>4 DEF Prefetch
    <2>2. CASE Start
      <3>1. ~interrupted /\ screenDot = 0 /\ screenDot' = 1 /\ fetched' = fetched /\ held' = held
        BY <2>2 DEF Start
      <3>2. fetched' = 0 + 2 /\ held' = <<Strip[0], Strip[0 + 1]>>
        BY <3>1 DEF Aligned
      <3>3. \A n \in Steps : screenDot' = 8 * n + 1 => n = 0
        BY <3>1 DEF Steps
      <3>. QED
        BY <3>1, <3>2, <3>3 DEF Aligned
    <2>3. CASE DrawEight
      <3>1. PICK n \in Steps : screenDot = 8 * n + 1
        BY <2>3 DEF DrawEight, PixelsTypeOK, Dots, Steps
      <3>2. Rendering /\ ~interrupted
        BY <2>3 DEF DrawEight, Noted, PixelsTypeOK
      <3>3. fetched = n + 2 /\ held = <<Strip[n], Strip[n + 1]>>
        BY <3>1, <3>2 DEF Aligned
      <3>4. screenDot' = 8 * (n + 1) + 1 /\ n \in 0 .. 31
        BY <2>3, <3>1 DEF DrawEight, Steps
      <3>5. CASE n = 31
        <4>1. screenDot' = 257
          BY <3>4, <3>5
        <4>2. \A m \in Steps : screenDot' # 8 * m + 1
          BY <4>1 DEF Steps
        <4>. QED
          BY <4>1, <4>2 DEF Aligned
      <3>6. CASE n # 31
        <4>1. fetched' = n + 3 /\ held' = <<Strip[n + 1], Strip[n + 2]>>
          <5>1. ShiftAndFetch
            BY <2>3, <3>1, <3>4, <3>6 DEF DrawEight
          <5>. QED
            BY <3>2, <3>3, <3>4, <5>1, FetchAligns
        <4>2. \A m \in Steps : screenDot' = 8 * m + 1 => m = n + 1
          BY <3>4 DEF Steps
        <4>3. screenDot' \notin {328, 336, 0}
          BY <3>4, <3>6
        <4>4. n + 3 = (n + 1) + 2 /\ n + 2 = (n + 1) + 1
          BY <3>4
        <4>. QED
          BY <4>1, <4>2, <4>3, <4>4 DEF Aligned
      <3>. QED
        BY <3>5, <3>6
    <2>4. CASE WriteRegisters
      BY <2>4 DEF WriteRegisters, Aligned
    <2>5. CASE UNCHANGED pixelVars
      BY <2>5 DEF pixelVars, Aligned
    <2>. QED
      BY <2>1, <2>2, <2>3, <2>4, <2>5 DEF PixelsNext
  <1>3. PixelsSpec => []PixelsTypeOK
    BY PixelTypes
  <1>. QED
    BY <1>1, <1>2, <1>3, PTL DEF PixelsSpec

-----------------------------------------------------------------------------
LEMMA StepDraws ==
  ASSUME PixelsAssumption, PixelsTypeOK, Aligned, DrawEight, ~interrupted', NEW x \in ScreenX
  PROVE  /\ x \in Drawn' <=> x \in Drawn \/ x \in Eight
         /\ x \in Eight => /\ screen'[x] = PictureAt(x, regs)
                           /\ drawnWith'[x] = regs
                           /\ HitsZero(x - (screenDot - 1)) <=> ZeroHitAt(x, regs)
                           /\ x - (screenDot - 1) \in Columns
         /\ x \notin Eight => screen'[x] = screen[x] /\ drawnWith'[x] = drawnWith[x]
         /\ x \in Drawn => x \notin Eight
  <1>1. PICK n \in Steps : screenDot = 8 * n + 1
    BY DEF DrawEight, PixelsTypeOK, Dots, Steps
  <1>2. /\ Rendering /\ ~interrupted
        /\ held = <<Strip[n], Strip[n + 1]>>
    <2>1. Rendering /\ ~interrupted
      BY DEF DrawEight, Noted, PixelsTypeOK
    <2>. QED
      BY <1>1, <2>1 DEF Aligned
  <1>3. n \in 0 .. 31 /\ x \in 0 .. 255
    BY DEF Steps, ScreenX
  <1>4. /\ screenDot' = screenDot + 8
        /\ screen'[x] = IF x \in Eight THEN Pixel(x - (screenDot - 1)) ELSE screen[x]
        /\ drawnWith'[x] = IF x \in Eight THEN regs ELSE drawnWith[x]
    BY <1>2 DEF DrawEight
  <1>5. ASSUME x \in Eight
        PROVE  /\ x - (screenDot - 1) \in Columns
               /\ Pixel(x - (screenDot - 1)) = PictureAt(x, regs)
               /\ HitsZero(x - (screenDot - 1)) <=> ZeroHitAt(x, regs)
    <2>1. PICK i \in Columns : i = x - (screenDot - 1) /\ x = 8 * n + i
      BY <1>1, <1>3, <1>5 DEF Eight, Columns
    <2>2. regs \in DrawRegisters
      BY DEF PixelsTypeOK
    <2>. QED
      BY <1>1, <1>2, <2>1, <2>2, PixelIsPicture
  <1>6. /\ x \in Drawn' <=> x \in Drawn \/ x \in Eight
        /\ x \in Drawn => x \notin Eight
    BY <1>1, <1>3, <1>4 DEF Drawn, Eight, ScreenX
  <1>. QED
    BY <1>4, <1>5, <1>6

(* While rendering stays on, every pixel of the line is the picture's      *)
(* pixel of its own column under the registers of the step that drew it:   *)
(* the shift register, loaded a tile ahead and never shifted by the fine   *)
(* scroll, scrolls the line as a pixel-wise one would.                     *)
THEOREM LineIsPicture ==
  ASSUME PixelsAssumption
  PROVE  PixelsSpec => []PictureShown
  <1>1. PixelsInit => PictureShown
    BY DEF PixelsInit, PictureShown, Drawn
  <1>2. PixelsTypeOK /\ Aligned /\ PictureShown /\ [PixelsNext]_pixelVars => PictureShown'
    <2> SUFFICES ASSUME PixelsTypeOK, Aligned, PictureShown, [PixelsNext]_pixelVars, ~interrupted',
                        NEW x \in ScreenX, x \in Drawn'
                 PROVE  screen'[x] = PictureAt(x, drawnWith'[x])
      BY DEF PictureShown, Drawn
    <2>1. CASE Prefetch
      BY <2>1 DEF Prefetch, Drawn
    <2>2. CASE Start
      BY <2>2 DEF Start, Drawn, ScreenX
    <2>3. CASE DrawEight
      <3>1. ~interrupted
        BY <2>3 DEF DrawEight, Noted, PixelsTypeOK
      <3>. QED
        BY <2>3, <3>1, StepDraws DEF PictureShown
    <2>4. CASE WriteRegisters
      BY <2>4 DEF WriteRegisters, Drawn, PictureShown
    <2>5. CASE UNCHANGED pixelVars
      BY <2>5 DEF pixelVars, Drawn, PictureShown
    <2>. QED
      BY <2>1, <2>2, <2>3, <2>4, <2>5 DEF PixelsNext
  <1>3. PixelsSpec => []PixelsTypeOK
    BY PixelTypes
  <1>4. PixelsSpec => []Aligned
    BY RegisterAligned
  <1>. QED
    BY <1>1, <1>2, <1>3, <1>4, PTL DEF PixelsSpec

(* A hit is reported just when, in a drawn column other than the last, an  *)
(* opaque pixel of the background meets the frontmost opaque sprite and    *)
(* that sprite is marked as sprite zero, with the left columns as the mask *)
(* had them then, whether the sprite is in front of the background or      *)
(* behind, and wherever in the list the marked sprites stand.              *)
THEOREM ZeroHitIsExact ==
  ASSUME PixelsAssumption
  PROVE  PixelsSpec => []ZeroHitExact
  <1>0. ZeroHitExact <=>
          (~interrupted => (zeroHit <=> \E x \in Drawn : ZeroHitAt(x, drawnWith[x])))
    BY DEF ZeroHitExact, ZeroHitAt
  <1>1. PixelsInit => ZeroHitExact
    BY DEF PixelsInit, ZeroHitExact, Drawn
  <1>2. PixelsTypeOK /\ Aligned /\ ZeroHitExact /\ [PixelsNext]_pixelVars => ZeroHitExact'
    <2> SUFFICES ASSUME PixelsTypeOK, Aligned, ZeroHitExact, [PixelsNext]_pixelVars, ~interrupted'
                 PROVE  zeroHit' <=> \E x \in Drawn' : ZeroHitAt(x, drawnWith'[x])
      BY DEF ZeroHitExact, ZeroHitAt, MarkShown, BgAt, OpaqueAt, Covers, OwnColour, InLeft, Listed
    <2>1. CASE Prefetch
      <3>1. Drawn = {} /\ Drawn' = {} /\ zeroHit' = zeroHit /\ ~interrupted
        BY <2>1 DEF Prefetch, Drawn, Noted, PixelsTypeOK
      <3>. QED
        BY <1>0, <3>1
    <2>2. CASE Start
      <3>1. Drawn = {} /\ Drawn' = {} /\ zeroHit' = zeroHit /\ ~interrupted
        BY <2>2 DEF Start, Drawn, ScreenX
      <3>. QED
        BY <1>0, <3>1
    <2>3. CASE DrawEight
      <3>1. ~interrupted /\ Rendering
        BY <2>3 DEF DrawEight, Noted, PixelsTypeOK
      <3>2. zeroHit <=> \E x \in Drawn : ZeroHitAt(x, drawnWith[x])
        BY <1>0, <3>1
      <3>3. zeroHit' <=> zeroHit \/ \E i \in Columns : HitsZero(i)
        BY <2>3, <3>1 DEF DrawEight
      <3>4. (\E i \in Columns : HitsZero(i))
              <=> \E x \in ScreenX : x \in Eight /\ ZeroHitAt(x, regs)
        <4>1. ASSUME NEW i \in Columns
              PROVE  \E x \in ScreenX : x \in Eight /\ i = x - (screenDot - 1)
          <5>1. PICK n \in Steps : screenDot = 8 * n + 1
            BY <2>3 DEF DrawEight, PixelsTypeOK, Dots, Steps
          <5>2. 8 * n + i \in ScreenX /\ 8 * n + i \in Eight /\ i = (8 * n + i) - (screenDot - 1)
            BY <5>1 DEF ScreenX, Eight, Steps, Columns
          <5>. QED
            BY <5>2
        <4>. QED
          BY <2>3, <4>1, StepDraws
      <3>5. (\E x \in Drawn' : ZeroHitAt(x, drawnWith'[x])) <=>
              \/ \E x \in Drawn : ZeroHitAt(x, drawnWith[x])
              \/ \E x \in ScreenX : x \in Eight /\ ZeroHitAt(x, regs)
        <4>1. Drawn \subseteq ScreenX /\ Drawn' \subseteq ScreenX
          BY DEF Drawn
        <4>. QED
          BY <2>3, <4>1, StepDraws
      <3>. QED
        BY <3>2, <3>3, <3>4, <3>5
    <2>4. CASE WriteRegisters
      <3>1. Drawn' = Drawn /\ zeroHit' = zeroHit /\ drawnWith' = drawnWith /\ ~interrupted
        BY <2>4 DEF WriteRegisters, Drawn
      <3>. QED
        BY <1>0, <3>1
    <2>5. CASE UNCHANGED pixelVars
      <3>1. Drawn' = Drawn /\ zeroHit' = zeroHit /\ drawnWith' = drawnWith /\ ~interrupted
        BY <2>5 DEF pixelVars, Drawn
      <3>. QED
        BY <1>0, <3>1
    <2>. QED
      BY <2>1, <2>2, <2>3, <2>4, <2>5 DEF PixelsNext
  <1>3. PixelsSpec => []PixelsTypeOK
    BY PixelTypes
  <1>4. PixelsSpec => []Aligned
    BY RegisterAligned
  <1>. QED
    BY <1>1, <1>2, <1>3, <1>4, PTL DEF PixelsSpec

(* Where the first of the list is marked and opaque with the background,   *)
(* there is a hit, whatever else the list holds; and if nothing else in it *)
(* is marked, there is no other hit.                                       *)
COROLLARY FirstHitIsSeen ==
  ASSUME PixelsAssumption
  PROVE  PixelsSpec => []FirstIsNeverHidden
<1>1. ASSUME NEW x \in ScreenX, NEW r
      PROVE  /\ FirstMeetsBg(x, r) => ZeroHitAt(x, r)
             /\ ZeroHitAt(x, r) /\ (\A k \in Listed : Sprites[k].zero => k = 1) => FirstMeetsBg(x, r)
  <2>1. OpaqueAt(x, r) \subseteq Listed /\ OpaqueAt(x, r) \subseteq Places
    BY DEF OpaqueAt, Listed
  <2>2. ASSUME OpaqueAt(x, r) # {}
        PROVE  /\ First(OpaqueAt(x, r)) \in OpaqueAt(x, r)
               /\ \A j \in OpaqueAt(x, r) : First(OpaqueAt(x, r)) <= j
    BY <2>1, <2>2, FirstIsLeast
  <2>3. ASSUME 1 \in OpaqueAt(x, r) PROVE First(OpaqueAt(x, r)) = 1
    <3>1. First(OpaqueAt(x, r)) \in Places /\ First(OpaqueAt(x, r)) <= 1
      BY <2>1, <2>2, <2>3
    <3>. QED
      BY <3>1 DEF Places
  <2>4. FirstMeetsBg(x, r) => ZeroHitAt(x, r)
    BY <2>3 DEF FirstMeetsBg, ZeroHitAt, MarkShown
  <2>5. ASSUME ZeroHitAt(x, r), \A k \in Listed : Sprites[k].zero => k = 1
        PROVE  FirstMeetsBg(x, r)
    <3>1. First(OpaqueAt(x, r)) = 1 /\ 1 \in OpaqueAt(x, r) /\ Sprites[1].zero
      BY <2>1, <2>2, <2>5 DEF ZeroHitAt, MarkShown
    <3>. QED
      BY <2>5, <3>1 DEF FirstMeetsBg, ZeroHitAt
  <2>. QED
    BY <2>4, <2>5
<1>2. ZeroHitExact => FirstIsNeverHidden
  <2>1. Drawn \subseteq ScreenX
    BY DEF Drawn
  <2>2. ZeroHitExact =>
          (~interrupted => (zeroHit <=> \E x \in Drawn : ZeroHitAt(x, drawnWith[x])))
    BY DEF ZeroHitExact, ZeroHitAt
  <2>. QED
    BY <1>1, <2>1, <2>2 DEF FirstIsNeverHidden
<1>. QED
  BY <1>2, ZeroHitIsExact, PTL
=============================================================================
