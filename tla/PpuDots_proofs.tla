--------------------------- MODULE PpuDots_proofs ---------------------------
(***************************************************************************)
(* The lemmas about raster positions that the proofs about everything that *)
(* follows the PPU share, for any number of scanlines.                     *)
(***************************************************************************)
EXTENDS PpuDots, TLAPS

-----------------------------------------------------------------------------
(***************************************************************************)
(* One step of the PPU, line kind by line kind: the dots it can land on.   *)
(***************************************************************************)
(* A step of a render line moves 1 to 8 dots and lands on a dot on which   *)
(* the next step is defined; only the step from dot 336 ends the line.     *)
LEMMA RenderStep ==
  ASSUME NEW d \in RenderDots
  PROVE  /\ RenderWidth(d) \in 1 .. 8
         /\ d = LineEnd => RenderWidth(d) = 5
         /\ d = 0 => RenderWidth(d) = 1
         /\ d # LineEnd => d + RenderWidth(d) \in RenderDots
<1>1. CASE d = 0
  <2>1. RenderWidth(d) = 1
    BY <1>1 DEF RenderWidth
  <2>2. 1 \in RenderDots
    BY 1 = 1 + 8 * 0 DEF RenderDots
  <2>. QED
    BY <1>1, <2>1, <2>2 DEF LineEnd
<1>2. CASE d \in {328, LineEnd}
  BY <1>2 DEF RenderWidth, RenderDots, LineEnd
<1>3. CASE \E k \in 0 .. 40 : d = 1 + 8 * k
  <2>1. PICK k \in 0 .. 40 : d = 1 + 8 * k
    BY <1>3
  <2>2. CASE k = 40
    BY <2>1, <2>2 DEF RenderWidth, RenderDots, LineEnd
  <2>3. CASE k < 40
    <3>1. d \in 1 .. 320 /\ RenderWidth(d) = 8
      BY <2>1, <2>3 DEF RenderWidth
    <3>2. k + 1 \in 0 .. 40 /\ d + 8 = 1 + 8 * (k + 1)
      BY <2>1, <2>3
    <3>3. d + 8 \in RenderDots
      BY <3>2 DEF RenderDots
    <3>. QED
      BY <3>1, <3>3 DEF LineEnd
  <2>. QED
    BY <2>1, <2>2, <2>3
<1>. QED
  BY <1>1, <1>2, <1>3 DEF RenderDots

(* A step of the idle line moves 168 dots, or 5 at the end of the line.    *)
LEMMA IdleStep ==
  ASSUME NEW d \in IdleDots
  PROVE  /\ IdleWidth(d) = IF d = LineEnd THEN 5 ELSE 168
         /\ d # LineEnd => d + IdleWidth(d) \in IdleDots
BY DEF IdleDots, IdleWidth, LineEnd

(* A step of a vblank line moves 1 to 8 dots and lands on a dot on which   *)
(* the next step is defined.                                               *)
LEMMA VblankStep ==
  ASSUME NEW d \in VblankDots
  PROVE  /\ VblankWidth(d) \in 1 .. 8
         /\ d = LineEnd => VblankWidth(d) = 5
         /\ d # LineEnd => d + VblankWidth(d) \in VblankDots
<1>1. CASE d \in 0 .. 3
  <2>1. CASE d = 3
    <3>1. 8 \in VblankDots
      BY 8 = 8 * 1 DEF VblankDots
    <3>. QED
      BY <2>1, <3>1 DEF VblankWidth, LineEnd
  <2>2. CASE d \in 0 .. 2
    BY <2>2 DEF VblankWidth, LineEnd, VblankDots
  <2>. QED
    BY <1>1, <2>1, <2>2
<1>2. CASE \E k \in 1 .. 42 : d = 8 * k
  <2>1. PICK k \in 1 .. 42 : d = 8 * k
    BY <1>2
  <2>2. CASE k = 42
    BY <2>1, <2>2 DEF VblankWidth, LineEnd
  <2>3. CASE k < 42
    <3>1. d \notin 0 .. 2 /\ d # 3 /\ d # LineEnd
      BY <2>1, <2>3 DEF LineEnd
    <3>2. VblankWidth(d) = 8
      BY <3>1 DEF VblankWidth
    <3>3. k + 1 \in 1 .. 42 /\ d + 8 = 8 * (k + 1)
      BY <2>1, <2>3
    <3>4. d + 8 \in VblankDots
      BY <3>3 DEF VblankDots
    <3>. QED
      BY <3>1, <3>2, <3>4
  <2>. QED
    BY <2>1, <2>2, <2>3
<1>. QED
  BY <1>1, <1>2 DEF VblankDots

(* The three kinds of lines partition the scanlines, dot 0 starts each of  *)
(* them, and every dot is within a line.                                   *)
LEMMA LinesAndDots ==
  /\ Lines = RenderLines \cup {Idle} \cup VblankLines
  /\ Lines \subseteq Int
  /\ \A l \in RenderLines : l + 1 \in RenderLines \cup {Idle}
  /\ \A l \in VblankLines : l # LastVblank => l + 1 \in VblankLines
  /\ Idle \in Lines /\ PreRender \in RenderLines /\ FirstVblank \in VblankLines
  /\ RenderDots \subseteq 0 .. LineEnd
  /\ IdleDots \subseteq 0 .. LineEnd
  /\ VblankDots \subseteq 0 .. LineEnd
  /\ \A l \in Lines : /\ 0 \in DotsOf(l)
                      /\ l \in RenderLines => DotsOf(l) = RenderDots
                      /\ l = Idle => DotsOf(l) = IdleDots
                      /\ l \in VblankLines => DotsOf(l) = VblankDots
<1>. USE LinesAssumption DEF Lines, RenderLines, VblankLines, PreRender,
         FirstVblank, Idle, LineEnd
<1>1. RenderDots \subseteq 0 .. LineEnd /\ 0 \in RenderDots
  BY DEF RenderDots
<1>2. IdleDots \subseteq 0 .. LineEnd /\ 0 \in IdleDots
  BY DEF IdleDots
<1>3. VblankDots \subseteq 0 .. LineEnd /\ 0 \in VblankDots
  BY DEF VblankDots
<1>4. \A l \in Lines : /\ 0 \in DotsOf(l)
                       /\ l \in RenderLines => DotsOf(l) = RenderDots
                       /\ l = Idle => DotsOf(l) = IdleDots
                       /\ l \in VblankLines => DotsOf(l) = VblankDots
  BY <1>1, <1>2, <1>3 DEF DotsOf
<1>. QED
  BY <1>1, <1>2, <1>3, <1>4

(* What is known of a raster position: the line is one of the frame, the   *)
(* dot one on which a step of that kind of line starts.                    *)
LEMMA PositionKinds ==
  ASSUME NEW l \in Lines, NEW d \in DotsOf(l)
  PROVE  /\ l \in Int /\ l \in PreRender .. LastVblank
         /\ d \in 0 .. LineEnd
         /\ l \in RenderLines => d \in RenderDots
         /\ l = Idle => d \in IdleDots
         /\ l \in VblankLines => d \in VblankDots
<1>1. l \in Int /\ l \in PreRender .. LastVblank
  BY LinesAssumption DEF Lines, PreRender
<1>2. l \in RenderLines \/ l = Idle \/ l \in VblankLines
  BY LinesAndDots
<1>3. /\ l \in RenderLines => d \in RenderDots
      /\ l = Idle => d \in IdleDots
      /\ l \in VblankLines => d \in VblankDots
  BY LinesAndDots
<1>. QED
  BY <1>1, <1>2, <1>3, LinesAndDots DEF LineEnd
=============================================================================
