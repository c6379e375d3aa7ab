--------------------------- MODULE MainLoop_proofs ---------------------------
(***************************************************************************)
(* Proofs about MainLoop and the two modules that it composes, for any     *)
(* keys, register, save lengths and sessions: what the game reads          *)
(* (Controller), which keys it takes to be down, and what a start finds in *)
(* the save file (SaveFile).                                               *)
(***************************************************************************)
EXTENDS MainLoop, SequenceTheorems, TLAPS

-----------------------------------------------------------------------------
(***************************************************************************)
(* The controller.                                                         *)
(***************************************************************************)
(* After n reads the register holds the bitmap of the last strobe, shifted *)
(* by n, and ones behind it.                                               *)
Shifted ==
  shiftEnable =>
    shiftReg = {b \in Bits : b + Len(report) \in latched \/ b + Len(report) >= Width}

ControllerInv == ControllerTypeOK /\ Shifted /\ ReportIsSnapshot

LEMMA ReadKeeps == ControllerInv /\ ReadPort => ControllerInv'
<1>. SUFFICES ASSUME ControllerInv, ReadPort PROVE ControllerInv'
  OBVIOUS
<1>. USE ControllerAssumption DEF ControllerInv, ControllerTypeOK, Bits
<1>. DEFINE n == Len(report)
<1>1. CASE ~shiftEnable
  BY <1>1 DEF ReadPort, Shifted, ReportIsSnapshot
<1>2. CASE shiftEnable
  <2>1. n \in 0 .. Width + 1
    OBVIOUS
  <2>2. shiftReg = {b \in Bits : b + n \in latched \/ b + n >= Width}
    BY <1>2 DEF Shifted
  <2>3. shiftReg' = {b - 1 : b \in shiftReg \ {0}} \cup {Width - 1}
    BY <1>2 DEF ReadPort
  <2>4. shiftReg' = {b \in Bits : b + (n + 1) \in latched \/ b + (n + 1) >= Width}
    <3>1. ASSUME NEW b \in Bits
          PROVE  b \in shiftReg' <=> b + (n + 1) \in latched \/ b + (n + 1) >= Width
      <4>1. CASE b = Width - 1
        BY <2>1, <2>3, <4>1
      <4>2. CASE b # Width - 1
        <5>1. b + 1 \in Bits /\ b + 1 # 0
          BY <4>2
        <5>2. b \in shiftReg' <=> b + 1 \in shiftReg
          <6>1. b \in shiftReg' => b + 1 \in shiftReg
            <7>1. ASSUME NEW d \in shiftReg \ {0}, b = d - 1
                  PROVE  b + 1 = d
              BY <7>1
            <7>. QED
              BY <2>3, <4>2, <7>1
          <6>2. b + 1 \in shiftReg => b \in shiftReg'
            <7>1. b = (b + 1) - 1
              OBVIOUS
            <7>. QED
              BY <2>3, <5>1, <7>1
          <6>. QED
            BY <6>1, <6>2
        <5>. QED
          BY <2>1, <2>2, <5>1, <5>2
      <4>. QED
        BY <4>1, <4>2
    <3>2. shiftReg' \subseteq Bits
      BY <2>3
    <3>. QED
      BY <3>1, <3>2
  <2>5. CASE n <= Width
    <3>1. report' = Append(report, 0 \in shiftReg)
      BY <1>2, <2>5 DEF ReadPort
    <3>2. /\ report' \in Seq(BOOLEAN) /\ Len(report') = n + 1
          /\ \A i \in 1 .. n : report'[i] = report[i]
          /\ report'[n + 1] = (0 \in shiftReg)
      <4>1. (0 \in shiftReg) \in BOOLEAN
        OBVIOUS
      <4>. QED
        BY <3>1, <4>1, AppendProperties
    <3>3. 0 \in shiftReg <=> n \in latched \/ n >= Width
      BY <2>1, <2>2
    <3>4. (0 \in shiftReg) = (n + 1 > Width \/ (n + 1) - 1 \in latched)
      <4>1. (n + 1 > Width <=> n >= Width) /\ (n + 1) - 1 = n
        BY <2>1
      <4>. QED
        BY <3>3, <4>1
    <3>5. ReportIsSnapshot'
      <4>1. ASSUME NEW i \in 1 .. n + 1
            PROVE  report'[i] = (i > Width \/ i - 1 \in latched)
        <5>1. CASE i = n + 1
          BY <3>2, <3>4, <5>1
        <5>2. CASE i # n + 1
          <6>1. i \in 1 .. n /\ i \in DOMAIN report
            BY <2>1, <5>2, LenProperties
          <6>. QED
            BY <1>2, <3>2, <6>1 DEF ReportIsSnapshot
        <5>. QED
          BY <5>1, <5>2
      <4>2. DOMAIN report' = 1 .. n + 1 /\ latched' = latched
        BY <3>2, LenProperties DEF ReadPort
      <4>. QED
        BY <4>1, <4>2 DEF ReportIsSnapshot
    <3>6. Shifted'
      BY <2>4, <3>2 DEF ReadPort, Shifted
    <3>. QED
      BY <2>1, <2>4, <2>5, <3>2, <3>5, <3>6 DEF ReadPort
  <2>6. CASE n = Width + 1
    <3>1. report' = report
      BY <1>2, <2>6 DEF ReadPort
    <3>2. shiftReg' = {b \in Bits : b + n \in latched \/ b + n >= Width}
      BY <2>4, <2>6
    <3>. QED
      BY <3>1, <3>2 DEF ReadPort, Shifted, ReportIsSnapshot
  <2>. QED
    BY <2>1, <2>5, <2>6
<1>. QED
  BY <1>1, <1>2

LEMMA WriteKeeps ==
  ASSUME NEW one \in BOOLEAN, ControllerInv, WritePort(one)
  PROVE  ControllerInv'
<1>. USE ControllerAssumption DEF ControllerInv, ControllerTypeOK, Bits
<1>1. CASE ~one /\ strobeEnable
  <2>1. /\ shiftReg' = bitmap /\ latched' = bitmap /\ report' = <<>>
        /\ bitmap' = bitmap /\ strobeEnable' = FALSE /\ shiftEnable' = TRUE
    BY <1>1 DEF WritePort
  <2>2. report' \in Seq(BOOLEAN) /\ Len(report') = 0 /\ DOMAIN report' = {}
    BY <2>1, EmptySeq, LenProperties
  <2>3. Shifted'
    <3>1. bitmap = {b \in Bits : b + 0 \in bitmap \/ b + 0 >= Width}
      <4>1. ASSUME NEW b \in Bits PROVE b + 0 = b /\ ~(b >= Width)
        OBVIOUS
      <4>. QED
        BY <4>1
    <3>. QED
      BY <2>1, <2>2, <3>1 DEF Shifted
  <2>4. ReportIsSnapshot'
    BY <2>2 DEF ReportIsSnapshot
  <2>5. ControllerTypeOK'
    <3>1. /\ (bitmap \subseteq Bits /\ shiftReg \subseteq Bits /\ latched \subseteq Bits)'
          /\ (strobeEnable \in BOOLEAN /\ shiftEnable \in BOOLEAN)'
      BY <2>1
    <3>2. (Len(report) <= Width + 1)'
      BY <2>2
    <3>. QED
      BY <2>2, <3>1, <3>2
  <2>. QED
    BY <2>3, <2>4, <2>5
<1>2. CASE ~(~one /\ strobeEnable)
  <2>1. /\ UNCHANGED <<shiftReg, latched, report, bitmap>>
        /\ strobeEnable' \in BOOLEAN /\ shiftEnable' \in BOOLEAN
        /\ shiftEnable' => shiftEnable
    BY <1>2 DEF WritePort
  <2>. QED
    BY <2>1 DEF Shifted, ReportIsSnapshot
<1>. QED
  BY <1>1, <1>2

LEMMA KeysKeep ==
  ASSUME NEW k, ControllerInv, SetKey(k) \/ UnsetKey(k)
  PROVE  ControllerInv'
<1>1. bitmap' \subseteq Bits
  <2>1. bitmap \subseteq Bits
    BY DEF ControllerInv, ControllerTypeOK
  <2>2. IsButton(k) => ButtonBit[k] \in Bits
    BY ControllerAssumption DEF Bits, IsButton
  <2>. QED
    BY <2>1, <2>2 DEF SetKey, UnsetKey
<1>2. UNCHANGED portVars
  BY DEF SetKey, UnsetKey
<1>. QED
  BY <1>1, <1>2
     DEF ControllerInv, ControllerTypeOK, Shifted, ReportIsSnapshot, portVars

(* The controller is used through its methods, and new in every start.     *)
LEMMA ControllerSteps ==
  ASSUME [Next]_vars
  PROVE  \/ UNCHANGED controllerVars
         \/ \E k : SetKey(k) \/ UnsetKey(k)
         \/ ReadPort
         \/ \E one \in BOOLEAN : WritePort(one)
         \/ Blank
<1>1. CASE UNCHANGED vars
  BY <1>1 DEF vars
<1>2. CASE Loop
  BY <1>2 DEF Loop, Poll, HandleEvent, HandleEsc, HandleP, HandlePress, HandleRepeat, HandleRelease,
    HandleExpose, Quit, Exit, Pause, PauseQuit, PauseDiscard, Resume, Save, SavePiece, SaveDone,
    EndFrame
<1>3. CASE GamePolls
  BY <1>3 DEF GamePolls
<1>4. CASE SaveFails \/ Start \/ StartRefused \/ Kill
  BY <1>4 DEF SaveFails, Start, StartRefused, Starting, Kill, Exit
<1>5. CASE User
  BY <1>5 DEF User, KeyDown, KeyUp, Autorepeat, Send, CloseWindow, ExposeWindow, Kill, Exit
<1>6. CASE Over
  BY <1>6 DEF Over, vars
<1>. QED
  BY <1>1, <1>2, <1>3, <1>4, <1>5, <1>6 DEF Next

LEMMA ControllerStep == ControllerInv /\ [Next]_vars => ControllerInv'
<1>. SUFFICES ASSUME ControllerInv, [Next]_vars PROVE ControllerInv'
  OBVIOUS
<1>1. CASE UNCHANGED controllerVars
  BY <1>1 DEF controllerVars, portVars, ControllerInv, ControllerTypeOK, Shifted, ReportIsSnapshot
<1>2. CASE Blank
  <2>1. report' \in Seq(BOOLEAN) /\ Len(report') = 0
    BY <1>2, EmptySeq DEF Blank
  <2>2. ControllerTypeOK'
    <3>1. /\ (bitmap \subseteq Bits /\ shiftReg \subseteq Bits /\ latched \subseteq Bits)'
          /\ (strobeEnable \in BOOLEAN /\ shiftEnable \in BOOLEAN)'
      BY <1>2 DEF Blank
    <3>2. (Len(report) <= Width + 1)'
      BY <2>1, ControllerAssumption
    <3>. QED
      BY <2>1, <3>1, <3>2 DEF ControllerTypeOK
  <2>3. (Shifted /\ ReportIsSnapshot)'
    BY <1>2 DEF Blank, Shifted, ReportIsSnapshot
  <2>. QED
    BY <2>2, <2>3 DEF ControllerInv
<1>. QED
  BY <1>1, <1>2, ControllerSteps, ReadKeeps, WriteKeeps, KeysKeep

-----------------------------------------------------------------------------
(***************************************************************************)
(* Events.  A key is where its last event has put it; the events under way *)
(* of each key take it from one position to the other in turn.             *)
(***************************************************************************)
Positions == {"press", "release"}
Position(down) == IF down THEN "press" ELSE "release"
IsKeyEvent(e, k) == e.type \in Positions /\ e.key = k

\* The events of q bring k from one position to another: at[i] after i events.
Bring(q, k, from, to) ==
  \E at \in [0 .. Len(q) -> Positions] :
    /\ at[0] = from /\ at[Len(q)] = to
    /\ \A i \in 1 .. Len(q) :
         IF IsKeyEvent(q[i], k) THEN at[i] = q[i].type /\ at[i - 1] # at[i]
         ELSE at[i] = at[i - 1]

\* An event that was sent.
Sent == [type : {"press", "release", "close", "expose"}, key : Keys, same : BOOLEAN]

EventInv ==
  /\ pc \in Places
  /\ pending \in Seq(Sent) /\ queued \in 0 .. Len(pending)
  /\ current \in Events /\ (pc = "handle" => current \in Sent)

InputInv ==
  /\ EventInv
  /\ session \in Session /\ rom \in Roms
  /\ held \subseteq Keys /\ missed \subseteq Keys /\ closing \in BOOLEAN

(* The events under way bring each button from where the controller takes  *)
(* it to be, unless one was missed, to where it is.                        *)
Agree ==
  Running =>
    \A k \in DOMAIN ButtonBit :
      \E from \in Positions :
        /\ Bring(Unhandled, k, from, Position(k \in held))
        /\ k \notin missed => from = Position(ButtonBit[k] \in bitmap)

LEMMA PositionType == \A down : Position(down) \in Positions
  BY DEF Position, Positions

LEMMA BringNothing ==
  ASSUME NEW q, Len(q) = 0, NEW k, NEW from \in Positions, NEW to
  PROVE  Bring(q, k, from, to) <=> from = to
<1>1. ASSUME Bring(q, k, from, to) PROVE from = to
  BY <1>1 DEF Bring
<1>2. ASSUME from = to PROVE Bring(q, k, from, to)
  <2>. DEFINE at == [i \in 0 .. Len(q) |-> from]
  <2>1. at \in [0 .. Len(q) -> Positions] /\ at[0] = from /\ at[Len(q)] = to
    BY <1>2
  <2>2. 1 .. Len(q) = {}
    OBVIOUS
  <2>. HIDE DEF at
  <2>. QED
    BY <2>1, <2>2 DEF Bring
<1>. QED
  BY <1>1, <1>2

LEMMA BringTail ==
  ASSUME NEW q \in Seq(Sent), q # <<>>, NEW k, NEW from, NEW to, Bring(q, k, from, to)
  PROVE  IF IsKeyEvent(q[1], k)
         THEN q[1].type # from /\ Bring(Tail(q), k, q[1].type, to)
         ELSE Bring(Tail(q), k, from, to)
<1>. DEFINE n == Len(q)
<1>1. PICK at \in [0 .. n -> Positions] :
        /\ at[0] = from /\ at[n] = to
        /\ \A i \in 1 .. n :
             IF IsKeyEvent(q[i], k) THEN at[i] = q[i].type /\ at[i - 1] # at[i]
             ELSE at[i] = at[i - 1]
  BY DEF Bring
<1>2. /\ n \in Nat \ {0} /\ Tail(q) \in Seq(Sent) /\ Len(Tail(q)) = n - 1
      /\ \A i \in 1 .. n - 1 : Tail(q)[i] = q[i + 1]
  BY EmptySeq, HeadTailProperties
<1>. DEFINE rest == [i \in 0 .. n - 1 |-> at[i + 1]]
<1>3. /\ rest \in [0 .. n - 1 -> Positions]
      /\ rest[0] = at[1] /\ rest[n - 1] = to
  BY <1>1, <1>2
<1>4. ASSUME NEW i \in 1 .. n - 1
      PROVE  IF IsKeyEvent(Tail(q)[i], k)
             THEN rest[i] = Tail(q)[i].type /\ rest[i - 1] # rest[i]
             ELSE rest[i] = rest[i - 1]
  <2>1. i + 1 \in 1 .. n /\ rest[i] = at[i + 1] /\ rest[i - 1] = at[i] /\ (i + 1) - 1 = i
    BY <1>2
  <2>2. Tail(q)[i] = q[i + 1]
    BY <1>2
  <2>. QED
    BY <1>1, <2>1, <2>2
<1>5. Bring(Tail(q), k, at[1], to)
  BY <1>2, <1>3, <1>4 DEF Bring
<1>6. IF IsKeyEvent(q[1], k) THEN at[1] = q[1].type /\ from # at[1] ELSE at[1] = from
  <2>1. 1 \in 1 .. n /\ 1 - 1 = 0
    BY <1>2
  <2>. QED
    BY <1>1, <2>1
<1>. QED
  BY <1>5, <1>6

LEMMA BringAppend ==
  ASSUME NEW q \in Seq(Sent), NEW e \in Sent, NEW k, NEW from, NEW to, NEW next,
         Bring(q, k, from, to),
         IF IsKeyEvent(e, k) THEN next = e.type /\ next # to ELSE next = to
  PROVE  Bring(Append(q, e), k, from, next)
<1>. DEFINE n == Len(q)
            more == Append(q, e)
<1>1. PICK at \in [0 .. n -> Positions] :
        /\ at[0] = from /\ at[n] = to
        /\ \A i \in 1 .. n :
             IF IsKeyEvent(q[i], k) THEN at[i] = q[i].type /\ at[i - 1] # at[i]
             ELSE at[i] = at[i - 1]
  BY DEF Bring
<1>2. /\ n \in Nat /\ Len(more) = n + 1
      /\ \A i \in 1 .. n : more[i] = q[i]
      /\ more[n + 1] = e
  BY LenProperties, AppendProperties
<1>3. next \in Positions
  <2>1. to \in Positions
    BY <1>1, <1>2
  <2>. QED
    BY <2>1 DEF IsKeyEvent
<1>. DEFINE ext == [i \in 0 .. n + 1 |-> IF i <= n THEN at[i] ELSE next]
<1>4. ext \in [0 .. n + 1 -> Positions] /\ ext[0] = from /\ ext[n + 1] = next
  BY <1>1, <1>2, <1>3
<1>5. ASSUME NEW i \in 1 .. n + 1
      PROVE  IF IsKeyEvent(more[i], k) THEN ext[i] = more[i].type /\ ext[i - 1] # ext[i]
             ELSE ext[i] = ext[i - 1]
  <2>1. CASE i <= n
    <3>1. i \in 1 .. n /\ ext[i] = at[i] /\ ext[i - 1] = at[i - 1] /\ more[i] = q[i]
      BY <1>2, <2>1
    <3>. QED
      BY <1>1, <3>1
  <2>2. CASE i = n + 1
    <3>1. ext[i] = next /\ ext[i - 1] = to /\ more[i] = e
      BY <1>1, <1>2, <2>2
    <3>. QED
      BY <3>1
  <2>. QED
    BY <1>2, <2>1, <2>2
<1>. HIDE DEF more, ext
<1>6. Bring(more, k, from, next)
  BY <1>2, <1>4, <1>5 DEF Bring
<1>. QED
  BY <1>6 DEF more

(***************************************************************************)
(* How the events under way change: the first is handled, or some follow.  *)
(***************************************************************************)
LEMMA Cons ==
  ASSUME NEW S, NEW e \in S, NEW s \in Seq(S)
  PROVE  /\ <<e>> \o s \in Seq(S) /\ <<e>> \o s # <<>>
         /\ (<<e>> \o s)[1] = e /\ Tail(<<e>> \o s) = s
<1>1. <<e>> \in Seq(S) /\ Len(<<e>>) = 1 /\ <<e>>[1] = e
  OBVIOUS
<1>. DEFINE t == <<e>> \o s
<1>2. /\ t \in Seq(S) /\ Len(s) \in Nat /\ Len(t) = 1 + Len(s)
      /\ \A i \in 1 .. Len(t) : t[i] = IF i <= 1 THEN <<e>>[i] ELSE s[i - 1]
  BY <1>1, ConcatProperties, LenProperties
<1>. HIDE DEF t
<1>3. t # <<>> /\ t[1] = e
  <2>1. 1 \in 1 .. Len(t) /\ Len(t) # 0
    BY <1>2
  <2>. QED
    BY <1>1, <1>2, <2>1, EmptySeq
<1>4. Tail(t) = s
  <2>1. /\ Tail(t) \in Seq(S) /\ Len(Tail(t)) = Len(s)
        /\ \A i \in 1 .. Len(Tail(t)) : Tail(t)[i] = t[i + 1]
    BY <1>2, <1>3, HeadTailProperties
  <2>2. ASSUME NEW i \in 1 .. Len(Tail(t)) PROVE Tail(t)[i] = s[i]
    <3>1. i + 1 \in 1 .. Len(t) /\ ~(i + 1 <= 1) /\ (i + 1) - 1 = i
      BY <1>2, <2>1
    <3>. QED
      BY <1>2, <2>1, <3>1
  <2>. QED
    BY <2>1, <2>2, SeqEqual
<1>. QED
  BY <1>2, <1>3, <1>4 DEF t

LEMMA HeadAndTail ==
  ASSUME NEW S, NEW s \in Seq(S), s # <<>>
  PROVE  <<Head(s)>> \o Tail(s) = s /\ Head(s) = s[1]
<1>1. /\ Head(s) \in S /\ Tail(s) \in Seq(S) /\ Len(Tail(s)) = Len(s) - 1
      /\ Len(s) \in Nat \ {0}
      /\ \A i \in 1 .. Len(s) - 1 : Tail(s)[i] = s[i + 1]
  BY HeadTailProperties, EmptySeq
<1>2. Head(s) = s[1]
  OBVIOUS
<1>3. <<Head(s)>> \in Seq(S) /\ Len(<<Head(s)>>) = 1 /\ <<Head(s)>>[1] = s[1]
  BY <1>1, <1>2
<1>. DEFINE h == <<Head(s)>>
            t == h \o Tail(s)
<1>. HIDE DEF h
<1>4. /\ t \in Seq(S) /\ Len(t) = Len(s)
      /\ \A i \in 1 .. Len(t) : t[i] = IF i <= 1 THEN h[i] ELSE Tail(s)[i - 1]
  BY <1>1, <1>3, ConcatProperties DEF h
<1>. HIDE DEF t
<1>5. ASSUME NEW i \in 1 .. Len(t) PROVE t[i] = s[i]
  <2>1. CASE i = 1
    BY <1>3, <1>4, <2>1 DEF h
  <2>2. CASE i # 1
    <3>1. i - 1 \in 1 .. Len(s) - 1 /\ (i - 1) + 1 = i /\ ~(i <= 1)
      BY <1>1, <1>4, <2>2
    <3>. QED
      BY <1>1, <1>4, <3>1
  <2>. QED
    BY <2>1, <2>2
<1>6. t = s
  BY <1>4, <1>5, SeqEqual
<1>. QED
  BY <1>2, <1>6 DEF h, t

LEMMA EventTypes ==
  /\ NoEvent \in Events /\ NoEvent \notin Sent /\ Sent \subseteq Events
  /\ Close \in Sent /\ Expose \in Sent
  /\ \A k \in Keys, same \in BOOLEAN :
       Event("press", k, same) \in Sent /\ Event("release", k, same) \in Sent
  BY DEF NoEvent, Event, Events, Sent, Close, Expose, Keys

LEMMA UnhandledType ==
  ASSUME InputInv
  PROVE  /\ Unhandled \in Seq(Sent)
         /\ pc # "handle" => Unhandled = pending
         /\ pc = "handle" => /\ Unhandled # <<>> /\ Unhandled[1] = current
                            /\ Tail(Unhandled) = pending
<1>1. pending \in Seq(Sent) /\ (pc = "handle" => current \in Sent)
  BY DEF InputInv, EventInv
<1>2. CASE pc = "handle"
  BY <1>1, <1>2, Cons DEF Unhandled
<1>3. CASE pc # "handle"
  BY <1>1, <1>3 DEF Unhandled
<1>. QED
  BY <1>2, <1>3

\* The loop goes on to the first event of rest, or to the frame.
LEMMA GoesOn ==
  ASSUME NEW rest \in Seq(Sent),
         \/ rest # <<>> /\ current' = Head(rest) /\ pending' = Tail(rest) /\ pc' = "handle"
         \/ current' = NoEvent /\ pending' = rest /\ pc' # "handle"
  PROVE  /\ Unhandled' = rest
         /\ queued' \in 0 .. Len(pending') /\ pc' \in Places => EventInv'
<1>. USE DEF EventInv
<1>1. CASE rest # <<>> /\ current' = Head(rest) /\ pending' = Tail(rest) /\ pc' = "handle"
  <2>1. Head(rest) \in Sent /\ Tail(rest) \in Seq(Sent) /\ <<Head(rest)>> \o Tail(rest) = rest
    BY <1>1, HeadTailProperties, HeadAndTail
  <2>. QED
    BY <1>1, <2>1, EventTypes DEF Unhandled
<1>2. CASE current' = NoEvent /\ pending' = rest /\ pc' # "handle"
  BY <1>2, EventTypes DEF Unhandled
<1>. QED
  BY <1>1, <1>2

LEMMA NothingHandled ==
  ASSUME Agree, Running, Unhandled' = Unhandled, UNCHANGED <<held, missed, bitmap>>
  PROVE  Agree'
  BY DEF Agree

(* The first event is counted, discarded, or not one of the button's.      *)
LEMMA FirstHandled ==
  ASSUME InputInv, Agree, Running, Unhandled # <<>>, Unhandled' = Tail(Unhandled),
         held' = held,
         \A k \in DOMAIN ButtonBit :
           IF IsKeyEvent(Unhandled[1], k)
           THEN k \in missed' \/ Position(ButtonBit[k] \in bitmap') = Unhandled[1].type
           ELSE /\ k \notin missed' => k \notin missed
                /\ ButtonBit[k] \in bitmap' <=> ButtonBit[k] \in bitmap
  PROVE  Agree'
<1>. SUFFICES ASSUME NEW k \in DOMAIN ButtonBit
              PROVE  \E from \in Positions :
                       /\ Bring(Unhandled', k, from, Position(k \in held'))
                       /\ k \notin missed' => from = Position(ButtonBit[k] \in bitmap')
  BY DEF Agree
<1>1. PICK from \in Positions :
        /\ Bring(Unhandled, k, from, Position(k \in held))
        /\ k \notin missed => from = Position(ButtonBit[k] \in bitmap)
  BY DEF Agree
<1>2. IF IsKeyEvent(Unhandled[1], k)
      THEN Bring(Unhandled', k, Unhandled[1].type, Position(k \in held'))
      ELSE Bring(Unhandled', k, from, Position(k \in held'))
  BY <1>1, UnhandledType, BringTail
<1>3. CASE IsKeyEvent(Unhandled[1], k)
  <2>1. Unhandled[1].type \in Positions
    BY <1>3 DEF IsKeyEvent
  <2>. QED
    BY <1>2, <1>3, <2>1
<1>4. CASE ~IsKeyEvent(Unhandled[1], k)
  <2>1. Position(ButtonBit[k] \in bitmap') = Position(ButtonBit[k] \in bitmap)
    BY <1>4 DEF Position
  <2>. QED
    BY <1>1, <1>2, <1>4, <2>1
<1>. QED
  BY <1>3, <1>4

(* The user moves a key, or something else is sent.                        *)
LEMMA OneFollows ==
  ASSUME InputInv, Agree, Running, NEW e \in Sent, Unhandled' = Append(Unhandled, e),
         UNCHANGED <<missed, bitmap>>,
         \A k \in DOMAIN ButtonBit :
           IF IsKeyEvent(e, k)
           THEN Position(k \in held') = e.type /\ Position(k \in held) # e.type
           ELSE k \in held' <=> k \in held
  PROVE  Agree'
<1>. SUFFICES ASSUME NEW k \in DOMAIN ButtonBit
              PROVE  \E from \in Positions :
                       /\ Bring(Unhandled', k, from, Position(k \in held'))
                       /\ k \notin missed' => from = Position(ButtonBit[k] \in bitmap')
  BY DEF Agree
<1>1. PICK from \in Positions :
        /\ Bring(Unhandled, k, from, Position(k \in held))
        /\ k \notin missed => from = Position(ButtonBit[k] \in bitmap)
  BY DEF Agree
<1>2. IF IsKeyEvent(e, k)
      THEN Position(k \in held') = e.type /\ Position(k \in held') # Position(k \in held)
      ELSE Position(k \in held') = Position(k \in held)
  BY DEF Position
<1>3. Bring(Unhandled', k, from, Position(k \in held'))
  BY <1>1, <1>2, UnhandledType, BringAppend
<1>. QED
  BY <1>1, <1>3

-----------------------------------------------------------------------------
(***************************************************************************)
(* The loop.                                                               *)
(***************************************************************************)
LEMMA Queue ==
  ASSUME InputInv
  PROVE  /\ pending \in Seq(Sent) /\ Len(pending) \in Nat /\ queued \in 0 .. Len(pending)
         /\ pending = <<>> => Len(pending) = 0
         /\ pending # <<>> => /\ Len(pending) \in Nat \ {0} /\ Head(pending) = pending[1]
                             /\ Tail(pending) \in Seq(Sent)
                             /\ Len(Tail(pending)) = Len(pending) - 1
  BY EmptySeq, LenProperties, HeadTailProperties, HeadAndTail DEF InputInv, EventInv

LEMMA TakeGoesOn ==
  ASSUME InputInv, Take, pc' = "handle"
  PROVE  Unhandled' = pending /\ EventInv'
<1>1. queued' \in 0 .. Len(pending')
  BY Queue DEF Take
<1>. QED
  BY <1>1, Queue, GoesOn DEF Take, Places

LEMMA PollQueuedGoesOn ==
  ASSUME InputInv, PollQueued
  PROVE  Unhandled' = pending /\ EventInv'
<1>1. CASE queued > 0 /\ Take /\ pc' = "handle"
  BY <1>1, TakeGoesOn
<1>2. CASE queued = 0 /\ NoMore
  BY <1>2, Queue, GoesOn DEF NoMore, Places
<1>. QED
  BY <1>1, <1>2 DEF PollQueued

\* The event after the first one of pending is in turn.
LEMMA SecondGoesOn ==
  ASSUME InputInv, pending # <<>>, NEW n \in 1 .. Len(pending),
         \/ /\ n > 1
            /\ current' = pending[2] /\ pending' = Tail(Tail(pending)) /\ queued' = n - 2
            /\ pc' = "handle"
         \/ /\ n = 1
            /\ current' = NoEvent /\ pending' = Tail(pending) /\ queued' = 0
            /\ pc' = "frame"
  PROVE  Unhandled' = Tail(pending) /\ EventInv'
<1>1. Tail(pending) \in Seq(Sent) /\ Len(Tail(pending)) = Len(pending) - 1
  BY Queue
<1>2. CASE n > 1
  <2>1. /\ Tail(pending) # <<>> /\ Len(Tail(Tail(pending))) = Len(pending) - 2
        /\ Head(Tail(pending)) = Tail(pending)[1]
    BY <1>1, <1>2, EmptySeq, HeadTailProperties, HeadAndTail
  <2>2. Tail(pending)[1] = pending[2]
    <3>1. 1 \in 1 .. Len(Tail(pending)) /\ 1 + 1 = 2
      BY <1>1, <1>2, Queue
    <3>. QED
      BY <3>1, Queue, HeadTailProperties
  <2>3. queued' \in 0 .. Len(pending')
    BY <1>2, <2>1, Queue
  <2>. QED
    BY <1>1, <1>2, <2>1, <2>2, <2>3, GoesOn DEF Places
<1>3. CASE n = 1
  BY <1>1, <1>3, Queue, GoesOn DEF Places
<1>. QED
  BY <1>2, <1>3

LEMMA Handling ==
  ASSUME InputInv, NEW type, Handle(type)
  PROVE  /\ Running /\ Unhandled # <<>> /\ Unhandled[1] = current /\ Tail(Unhandled) = pending
         /\ current \in Sent /\ current.type = type
  BY UnhandledType DEF Handle, Running, InputInv, EventInv

LEMMA Buttons ==
  ASSUME NEW k \in DOMAIN ButtonBit
  PROVE  k \in Keys /\ k \notin {Esc, P, CtrlQ}
  BY MainLoopAssumption DEF Keys

LEMMA PollPasses ==
  ASSUME InputInv, Poll
  PROVE  Running /\ Unhandled = pending /\ Unhandled' = pending /\ EventInv'
<1>1. Unhandled = pending /\ Running
  BY UnhandledType DEF Poll, Running
<1>2. CASE pending # <<>> /\ Take /\ pc' = "handle"
  BY <1>1, <1>2, TakeGoesOn
<1>3. CASE pending = <<>> /\ NoMore
  BY <1>1, <1>3, Queue, GoesOn DEF NoMore, Places
<1>. QED
  BY <1>2, <1>3 DEF Poll

LEMMA PollAgrees == InputInv /\ Agree /\ Poll => (InputInv /\ Agree)'
<1>. SUFFICES ASSUME InputInv, Agree, Poll PROVE (InputInv /\ Agree)'
  OBVIOUS
<1>. QED
  BY PollPasses, NothingHandled DEF Poll, InputInv, userVars, controllerVars

LEMMA IgnoredPasses ==
  ASSUME InputInv, HandleEsc \/ HandleP \/ HandleExpose
  PROVE  Unhandled' = pending /\ EventInv'
<1>1. CASE HandleEsc
  BY <1>1, Queue, GoesOn DEF HandleEsc, Places
<1>2. CASE HandleP /\ session.save
  BY <1>2, Queue DEF HandleP, inputVars, Unhandled, InputInv, EventInv, Places
<1>3. CASE HandleExpose \/ (HandleP /\ ~session.save)
  BY <1>3, PollQueuedGoesOn DEF HandleP, HandleExpose
<1>. QED
  BY <1>1, <1>2, <1>3

LEMMA IgnoredAgrees ==
  InputInv /\ Agree /\ (HandleEsc \/ HandleP \/ HandleExpose) => (InputInv /\ Agree)'
<1>. SUFFICES ASSUME InputInv, Agree, HandleEsc \/ HandleP \/ HandleExpose
              PROVE  (InputInv /\ Agree)'
  OBVIOUS
<1>1. PICK type : /\ Handle(type)
                  /\ current.type \in Positions => current.key \in {Esc, P}
  BY DEF HandleEsc, HandleP, HandleExpose, Handle, Positions
<1>2. Unhandled' = pending /\ EventInv'
  BY IgnoredPasses
<1>3. UNCHANGED <<controllerVars, userVars, rom, missed>>
  BY DEF HandleEsc, HandleP, HandleExpose
<1>4. \A k \in DOMAIN ButtonBit : ~IsKeyEvent(Unhandled[1], k)
  BY <1>1, Handling, Buttons DEF IsKeyEvent
<1>5. Agree'
  BY <1>1, <1>2, <1>3, <1>4, Handling, FirstHandled DEF controllerVars, userVars
<1>. QED
  BY <1>2, <1>3, <1>5 DEF InputInv, userVars

LEMMA CountedAgrees ==
  InputInv /\ Agree /\ (HandlePress \/ HandleRelease) => (InputInv /\ Agree)'
<1>. SUFFICES ASSUME InputInv, Agree, HandlePress \/ HandleRelease PROVE (InputInv /\ Agree)'
  OBVIOUS
<1>1. PICK type \in Positions :
        /\ Handle(type) /\ Counted(current.key) /\ PollQueued
        /\ type = "press" => SetKey(current.key)
        /\ type = "release" => UnsetKey(current.key)
  BY DEF HandlePress, HandleRelease, Handle, Positions
<1>2. Unhandled' = pending /\ EventInv'
  BY <1>1, PollQueuedGoesOn
<1>3. UNCHANGED <<userVars, rom>>
  BY DEF HandlePress, HandleRelease
<1>4. ASSUME NEW k \in DOMAIN ButtonBit
      PROVE  IF IsKeyEvent(Unhandled[1], k)
             THEN k \in missed' \/ Position(ButtonBit[k] \in bitmap') = Unhandled[1].type
             ELSE /\ k \notin missed' => k \notin missed
                  /\ ButtonBit[k] \in bitmap' <=> ButtonBit[k] \in bitmap
  <2>1. Unhandled[1] = current /\ current.type = type
    BY <1>1, Handling
  <2>2. CASE current.key = k
    <3>1. IsKeyEvent(Unhandled[1], k)
      BY <2>1, <2>2 DEF IsKeyEvent
    <3>2. IF type = "press" THEN ButtonBit[k] \in bitmap' ELSE ButtonBit[k] \notin bitmap'
      BY <1>1, <2>2 DEF SetKey, UnsetKey, IsButton, Positions
    <3>. QED
      BY <2>1, <3>1, <3>2 DEF Position, Positions
  <2>3. CASE current.key # k
    <3>1. ~IsKeyEvent(Unhandled[1], k)
      BY <2>1, <2>3 DEF IsKeyEvent
    <3>2. IsButton(current.key) => ButtonBit[current.key] # ButtonBit[k]
      BY <2>3, ControllerAssumption DEF IsButton
    <3>3. ButtonBit[k] \in bitmap' <=> ButtonBit[k] \in bitmap
      BY <1>1, <3>2 DEF SetKey, UnsetKey, Positions
    <3>. QED
      BY <1>1, <2>3, <3>1, <3>3 DEF Counted
  <2>. QED
    BY <2>2, <2>3
<1>5. Agree'
  BY <1>1, <1>2, <1>3, <1>4, Handling, FirstHandled DEF userVars
<1>6. missed' \subseteq Keys
  BY <1>1 DEF Counted, InputInv
<1>. QED
  BY <1>2, <1>3, <1>5, <1>6 DEF InputInv, userVars

\* f is taken for the press of an autorepeat, of which e is the release.
Repeats(e, f) == e.type = "release" /\ f.type = "press" /\ f.same /\ f.key = e.key

LEMMA RepeatPasses ==
  ASSUME InputInv, HandleRepeat
  PROVE  /\ Running /\ Unhandled # <<>> /\ Unhandled[1] = current
         /\ Tail(Unhandled) = pending /\ pending # <<>> /\ Repeats(current, pending[1])
         /\ Unhandled' = Tail(pending) /\ EventInv'
<1>1. Handle("release") /\ RepeatFollows
  BY DEF HandleRepeat
<1>2. /\ Running /\ Unhandled # <<>> /\ Unhandled[1] = current /\ Tail(Unhandled) = pending
      /\ current.type = "release"
  BY <1>1, Handling
<1>3. pending # <<>> /\ Head(pending) = pending[1] /\ queued \in 1 .. Len(pending)
  BY <1>1, Queue DEF RepeatFollows
<1>4. Unhandled' = Tail(pending) /\ EventInv'
  <2>1. \/ /\ queued > 1
           /\ current' = pending[2] /\ pending' = Tail(Tail(pending)) /\ queued' = queued - 2
           /\ pc' = "handle"
        \/ /\ queued = 1
           /\ current' = NoEvent /\ pending' = Tail(pending) /\ queued' = 0
           /\ pc' = "frame"
    BY DEF HandleRepeat
  <2>. QED
    BY <1>3, <2>1, SecondGoesOn
<1>. QED
  BY <1>1, <1>2, <1>3, <1>4 DEF RepeatFollows, Repeats

(* The release and the press of an autorepeat leave the button as it was.  *)
LEMMA RepeatAgrees == InputInv /\ Agree /\ HandleRepeat => (InputInv /\ Agree)'
<1>. SUFFICES ASSUME InputInv, Agree, HandleRepeat PROVE (InputInv /\ Agree)'
  OBVIOUS
<1>1. pending[1].type = "press" /\ pending[1].key = current.key
  BY RepeatPasses DEF Repeats
<1>2. /\ Running /\ Unhandled # <<>> /\ Unhandled[1] = current /\ Tail(Unhandled) = pending
      /\ current.type = "release" /\ Unhandled \in Seq(Sent)
  BY RepeatPasses, UnhandledType DEF Repeats
<1>3. pending # <<>> /\ pending \in Seq(Sent)
  BY RepeatPasses, Queue
<1>4. Unhandled' = Tail(pending) /\ EventInv'
  BY RepeatPasses
<1>5. UNCHANGED <<bitmap, held, missed>> /\ UNCHANGED <<userVars, rom>>
  BY DEF HandleRepeat, userVars, controllerVars
<1>6. ASSUME NEW k \in DOMAIN ButtonBit
      PROVE  \E from \in Positions :
               /\ Bring(Tail(pending), k, from, Position(k \in held))
               /\ k \notin missed => from = Position(ButtonBit[k] \in bitmap)
  <2>1. PICK from \in Positions :
          /\ Bring(Unhandled, k, from, Position(k \in held))
          /\ k \notin missed => from = Position(ButtonBit[k] \in bitmap)
    BY <1>2 DEF Agree
  <2>2. CASE current.key = k
    <3>1. IsKeyEvent(Unhandled[1], k) /\ IsKeyEvent(pending[1], k)
      BY <1>1, <1>2, <1>3, <2>2 DEF IsKeyEvent, Positions
    <3>2. "release" # from /\ Bring(pending, k, "release", Position(k \in held))
      BY <1>2, <2>1, <3>1, BringTail
    <3>3. Bring(Tail(pending), k, "press", Position(k \in held))
      BY <1>1, <1>3, <3>1, <3>2, BringTail
    <3>4. from = "press"
      BY <3>2 DEF Positions
    <3>. QED
      BY <2>1, <3>3, <3>4
  <2>3. CASE current.key # k
    <3>1. ~IsKeyEvent(Unhandled[1], k) /\ ~IsKeyEvent(pending[1], k)
      BY <1>1, <1>2, <1>3, <2>3 DEF IsKeyEvent
    <3>2. Bring(pending, k, from, Position(k \in held))
      BY <1>2, <2>1, <3>1, BringTail
    <3>3. Bring(Tail(pending), k, from, Position(k \in held))
      BY <1>3, <3>1, <3>2, BringTail
    <3>. QED
      BY <2>1, <3>3
  <2>. QED
    BY <2>2, <2>3
<1>7. Agree'
  BY <1>4, <1>5, <1>6 DEF Agree
<1>. QED
  BY <1>4, <1>5, <1>7 DEF InputInv, userVars

LEMMA PausePasses ==
  ASSUME InputInv, PauseDiscard \/ Resume
  PROVE  /\ Running /\ pc = "pause" /\ pending # <<>> /\ Unhandled = pending
         /\ Unhandled' = Tail(pending) /\ EventInv'
<1>1. pc = "pause" /\ pending # <<>>
  BY DEF PauseDiscard, Resume
<1>2. /\ Running /\ Unhandled = pending /\ pending \in Seq(Sent)
      /\ Head(pending) = pending[1] /\ Head(pending) \in Sent
  BY <1>1, UnhandledType, Queue, HeadTailProperties DEF Running
<1>3. Unhandled' = Tail(pending) /\ EventInv'
  <2>1. CASE PauseDiscard
    <3>1. queued' \in 0 .. Len(pending')
      BY <1>1, <2>1, Queue DEF PauseDiscard
    <3>2. Tail(pending) \in Seq(Sent)
      BY <1>1, Queue
    <3>. QED
      BY <1>1, <2>1, <3>1, <3>2 DEF PauseDiscard, Unhandled, InputInv, EventInv
  <2>2. CASE Resume
    <3>1. PICK n \in 1 .. Len(pending) :
            \/ /\ n > 1
               /\ current' = pending[2] /\ pending' = Tail(Tail(pending)) /\ queued' = n - 2
               /\ pc' = "handle"
            \/ /\ n = 1
               /\ current' = NoEvent /\ pending' = Tail(pending) /\ queued' = 0
               /\ pc' = "frame"
      BY <2>2 DEF Resume
    <3>. QED
      BY <1>1, <3>1, SecondGoesOn
  <2>. QED
    BY <2>1, <2>2
<1>. QED
  BY <1>1, <1>2, <1>3

LEMMA PauseAgrees == InputInv /\ Agree /\ (PauseDiscard \/ Resume) => (InputInv /\ Agree)'
<1>. SUFFICES ASSUME InputInv, Agree, PauseDiscard \/ Resume PROVE (InputInv /\ Agree)'
  OBVIOUS
<1>1. pc = "pause" /\ pending # <<>> /\ UNCHANGED <<controllerVars, userVars, rom>>
  BY DEF PauseDiscard, Resume
<1>2. /\ Running /\ Unhandled = pending /\ pending \in Seq(Sent)
      /\ Head(pending) = pending[1] /\ Head(pending) \in Sent
  BY <1>1, PausePasses, Queue, HeadTailProperties
<1>3. Unhandled' = Tail(pending) /\ EventInv'
  BY PausePasses
<1>4. /\ missed \subseteq missed' /\ missed' \subseteq Keys
      /\ \A k \in DOMAIN ButtonBit : IsKeyEvent(pending[1], k) => k \in missed'
  <2>1. CASE PauseDiscard
    <3>1. missed' = IF Head(pending).type \in {"press", "release"}
                    THEN missed \cup {Head(pending).key} ELSE missed
      BY <2>1 DEF PauseDiscard
    <3>2. Head(pending).key \in Keys
      BY <1>2 DEF Sent
    <3>. QED
      BY <1>2, <3>1, <3>2 DEF InputInv, IsKeyEvent, Positions
  <2>2. CASE Resume
    <3>1. missed' = missed /\ Head(pending).key = Esc
      BY <2>2 DEF Resume, Resumes
    <3>. QED
      BY <1>2, <3>1, Buttons DEF InputInv, IsKeyEvent
  <2>. QED
    BY <2>1, <2>2
<1>5. Agree'
  BY <1>1, <1>2, <1>3, <1>4, FirstHandled DEF controllerVars, userVars
<1>. QED
  BY <1>1, <1>3, <1>4, <1>5 DEF InputInv, userVars

LEMMA SavePasses ==
  ASSUME InputInv, SavePiece \/ SaveDone
  PROVE  Running /\ Unhandled = pending /\ Unhandled' = pending /\ EventInv'
<1>1. Running /\ Unhandled = pending
  BY UnhandledType DEF SavePiece, SaveDone, Running
<1>2. Unhandled' = pending /\ EventInv'
  <2>1. CASE SavePiece
    BY <2>1 DEF SavePiece, inputVars, Unhandled, InputInv, EventInv
  <2>2. CASE SaveDone
    BY <2>2, PollQueuedGoesOn DEF SaveDone
  <2>. QED
    BY <2>1, <2>2
<1>. QED
  BY <1>1, <1>2

LEMMA SaveAgrees ==
  InputInv /\ Agree /\ (SavePiece \/ SaveDone) => (InputInv /\ Agree)'
<1>. SUFFICES ASSUME InputInv, Agree, SavePiece \/ SaveDone PROVE (InputInv /\ Agree)'
  OBVIOUS
<1>1. UNCHANGED <<controllerVars, userVars, rom, missed>>
  BY DEF SavePiece, SaveDone
<1>. QED
  BY <1>1, SavePasses, NothingHandled DEF InputInv, userVars, controllerVars

LEMMA FramePasses ==
  ASSUME InputInv, GamePolls \/ EndFrame
  PROVE  Running /\ Unhandled = pending /\ Unhandled' = pending /\ EventInv'
<1>1. Running /\ Unhandled = pending
  BY UnhandledType
     DEF GamePolls, EndFrame, ReadPort, WritePort, controllerVars, Running
<1>2. Unhandled' = pending /\ EventInv'
  <2>1. CASE GamePolls
    BY <2>1 DEF GamePolls, inputVars, Unhandled, InputInv, EventInv
  <2>2. CASE EndFrame
    BY <2>2 DEF EndFrame, Unhandled, InputInv, EventInv, Places
  <2>. QED
    BY <2>1, <2>2
<1>. QED
  BY <1>1, <1>2

LEMMA FrameAgrees ==
  InputInv /\ Agree /\ (GamePolls \/ EndFrame) => (InputInv /\ Agree)'
<1>. SUFFICES ASSUME InputInv, Agree, GamePolls \/ EndFrame PROVE (InputInv /\ Agree)'
  OBVIOUS
<1>1. UNCHANGED <<bitmap, userVars, rom, missed>>
  BY DEF GamePolls, EndFrame, ReadPort, WritePort, controllerVars
<1>. QED
  BY <1>1, FramePasses, NothingHandled DEF InputInv, userVars

-----------------------------------------------------------------------------
(***************************************************************************)
(* Starts and ends.                                                        *)
(***************************************************************************)
LEMMA BlankQueue == ASSUME Blank, pc' \in Places, pc' # "handle" PROVE EventInv'
  BY EmptySeq, EventTypes DEF Blank, EventInv

LEMMA ExitAgrees ==
  InputInv /\ (Quit \/ PauseQuit \/ SaveFails \/ Kill) => (InputInv /\ Agree)'
<1>. SUFFICES ASSUME InputInv, Quit \/ PauseQuit \/ SaveFails \/ Kill PROVE (InputInv /\ Agree)'
  OBVIOUS
<1>1. Exit /\ UNCHANGED <<session, held, rom>>
  BY DEF Quit, PauseQuit, SaveFails, Kill
<1>2. EventInv'
  BY <1>1, BlankQueue DEF Exit, Places
<1>. QED
  BY <1>1, <1>2 DEF InputInv, Agree, Running, Exit, Blank

LEMMA StartAgrees == InputInv /\ (Start \/ StartRefused) => (InputInv /\ Agree)'
<1>. SUFFICES ASSUME InputInv, Start \/ StartRefused PROVE (InputInv /\ Agree)'
  OBVIOUS
<1>1. Starting /\ pc' \in {"poll", "refused"}
  BY DEF Start, StartRefused
<1>2. EventInv'
  BY <1>1, BlankQueue DEF Starting, Places
<1>3. session' \in Session /\ rom' \in Roms
  <2>1. session \in Session /\ session.starts > 0 /\ session.starts \in Nat
    BY <1>1 DEF Starting, InputInv, Session
  <2>2. session.starts - 1 \in Nat
    BY <2>1
  <2>. QED
    BY <1>1, <2>1, <2>2 DEF Starting, Session
<1>4. ASSUME NEW k \in DOMAIN ButtonBit
      PROVE  \E from \in Positions :
               /\ Bring(Unhandled', k, from, Position(k \in held'))
               /\ k \notin missed' => from = Position(ButtonBit[k] \in bitmap')
  <2>1. Unhandled' = <<>> /\ bitmap' = {} /\ missed' = held'
    BY <1>1 DEF Starting, Blank, Unhandled
  <2>2. Bring(Unhandled', k, Position(k \in held'), Position(k \in held'))
    BY <2>1, EmptySeq, BringNothing, PositionType
  <2>3. k \notin missed' => Position(k \in held') = Position(ButtonBit[k] \in bitmap')
    BY <2>1 DEF Position
  <2>. QED
    BY <2>2, <2>3, PositionType
<1>. QED
  BY <1>1, <1>2, <1>3, <1>4 DEF InputInv, Agree, Starting, Blank

-----------------------------------------------------------------------------
(***************************************************************************)
(* The user and the X server.                                              *)
(***************************************************************************)
LEMMA AppendTwo ==
  ASSUME NEW S, NEW s \in Seq(S), NEW d \in S, NEW e \in S
  PROVE  s \o <<d, e>> = Append(Append(s, d), e)
<1>1. <<d>> \in Seq(S) /\ <<e>> \in Seq(S) /\ Append(s, d) \in Seq(S)
  BY AppendProperties
<1>2. Append(s, d) = s \o <<d>> /\ Append(Append(s, d), e) = Append(s, d) \o <<e>>
  BY <1>1, AppendIsConcat
<1>3. <<d>> \o <<e>> = <<d, e>>
  <2>1. /\ Len(<<d>>) = 1 /\ Len(<<e>>) = 1 /\ <<d>>[1] = d /\ <<e>>[1] = e
        /\ <<d, e>> \in Seq(S) /\ Len(<<d, e>>) = 2 /\ <<d, e>>[1] = d /\ <<d, e>>[2] = e
    OBVIOUS
  <2>. DEFINE t == <<d>> \o <<e>>
              u == <<d, e>>
  <2>2. /\ t \in Seq(S) /\ Len(t) = 2 /\ t[1] = d /\ t[2] = e
    <3>1. /\ t \in Seq(S) /\ Len(t) = Len(<<d>>) + Len(<<e>>)
          /\ \A i \in 1 .. Len(<<d>>) + Len(<<e>>) :
               t[i] = IF i <= Len(<<d>>) THEN <<d>>[i] ELSE <<e>>[i - Len(<<d>>)]
      BY <1>1, ConcatProperties
    <3>. HIDE DEF t
    <3>. QED
      BY <2>1, <3>1
  <2>3. u \in Seq(S) /\ Len(u) = 2 /\ u[1] = d /\ u[2] = e
    BY <2>1
  <2>. HIDE DEF t, u
  <2>4. t = u
    <3>1. \A i \in 1 .. Len(t) : t[i] = u[i]
      BY <2>2, <2>3
    <3>. QED
      BY <2>2, <2>3, <3>1, SeqEqual
  <2>. QED
    BY <2>4 DEF t, u
<1>. QED
  BY <1>1, <1>2, <1>3, ConcatAssociative

LEMMA SendFollows ==
  ASSUME InputInv, NEW events \in Seq(Sent), Send(events)
  PROVE  /\ Running /\ EventInv' /\ Unhandled' = Unhandled \o events
         /\ UNCHANGED <<bitmap, rom, missed>>
<1>1. /\ Running /\ pending' = pending \o events
      /\ UNCHANGED <<queued, current, pc, rom, missed, bitmap>>
  BY DEF Send, controllerVars
<1>2. /\ pending' \in Seq(Sent) /\ Len(pending') = Len(pending) + Len(events)
      /\ Len(events) \in Nat
  BY <1>1, Queue, ConcatProperties, LenProperties
<1>3. EventInv'
  BY <1>1, <1>2, Queue DEF EventInv, InputInv
<1>4. Unhandled' = Unhandled \o events
  <2>1. CASE pc = "handle"
    <3>1. <<current>> \in Seq(Sent)
      BY <2>1 DEF InputInv, EventInv
    <3>. QED
      BY <1>1, <2>1, <3>1, Queue, ConcatAssociative DEF Unhandled
  <2>2. CASE pc # "handle"
    BY <1>1, <2>2 DEF Unhandled
  <2>. QED
    BY <2>1, <2>2
<1>. QED
  BY <1>1, <1>3, <1>4

LEMMA OneSent ==
  ASSUME InputInv, NEW e \in Sent, Send(<<e>>)
  PROVE  /\ Running /\ EventInv' /\ Unhandled' = Append(Unhandled, e)
         /\ UNCHANGED <<bitmap, rom, missed>>
<1>1. <<e>> \in Seq(Sent)
  OBVIOUS
<1>2. Unhandled \o <<e>> = Append(Unhandled, e)
  BY UnhandledType, AppendIsConcat
<1>. QED
  BY <1>1, <1>2, SendFollows

LEMMA SessionType ==
  ASSUME InputInv
  PROVE  session.keys \subseteq Keys
  BY DEF InputInv, Session

LEMMA PressedType ==
  ASSUME InputInv, NEW k, Pressed(k)
  PROVE  session' \in Session
<1>1. CASE k = P
  <2>1. session \in Session /\ session.presses \in Nat \ {0}
    BY <1>1 DEF InputInv, Pressed, Session
  <2>2. session.presses - 1 \in Nat
    BY <2>1
  <2>. QED
    BY <1>1, <2>1, <2>2 DEF Pressed, Session
<1>2. CASE k # P
  BY <1>2 DEF InputInv, Pressed
<1>. QED
  BY <1>1, <1>2

LEMMA KeyMoves ==
  ASSUME InputInv, Agree, NEW k \in session.keys, KeyDown(k) \/ KeyUp(k)
  PROVE  (InputInv /\ Agree)'
<1>0. k \in Keys
  BY SessionType
<1>1. CASE KeyDown(k)
  <2>1. PICK same \in BOOLEAN : Send(<<Event("press", k, same)>>)
    BY <1>1 DEF KeyDown
  <2>. DEFINE e == Event("press", k, same)
  <2>2. e \in Sent /\ e.type = "press" /\ e.key = k
    BY <1>0, EventTypes DEF Event
  <2>. HIDE DEF e
  <2>3. /\ Running /\ EventInv' /\ Unhandled' = Append(Unhandled, e)
        /\ UNCHANGED <<bitmap, rom, missed>>
    BY <2>1, <2>2, OneSent DEF e
  <2>4. held' = held \cup {k} /\ k \notin held /\ closing' \in BOOLEAN /\ session' \in Session
    BY <1>1, PressedType DEF KeyDown
  <2>5. \A b \in DOMAIN ButtonBit :
          IF IsKeyEvent(e, b)
          THEN Position(b \in held') = e.type /\ Position(b \in held) # e.type
          ELSE b \in held' <=> b \in held
    BY <2>2, <2>4 DEF IsKeyEvent, Position, Positions
  <2>6. Agree'
    BY <2>2, <2>3, <2>5, OneFollows
  <2>. QED
    BY <1>0, <2>3, <2>4, <2>6 DEF InputInv
<1>2. CASE KeyUp(k)
  <2>1. PICK same \in BOOLEAN : Send(<<Event("release", k, same)>>)
    BY <1>2 DEF KeyUp
  <2>. DEFINE e == Event("release", k, same)
  <2>2. e \in Sent /\ e.type = "release" /\ e.key = k
    BY <1>0, EventTypes DEF Event
  <2>. HIDE DEF e
  <2>3. /\ Running /\ EventInv' /\ Unhandled' = Append(Unhandled, e)
        /\ UNCHANGED <<bitmap, rom, missed>>
    BY <2>1, <2>2, OneSent DEF e
  <2>4. held' = held \ {k} /\ k \in held /\ UNCHANGED <<session, closing>>
    BY <1>2 DEF KeyUp
  <2>5. \A b \in DOMAIN ButtonBit :
          IF IsKeyEvent(e, b)
          THEN Position(b \in held') = e.type /\ Position(b \in held) # e.type
          ELSE b \in held' <=> b \in held
    BY <2>2, <2>4 DEF IsKeyEvent, Position, Positions
  <2>6. Agree'
    BY <2>2, <2>3, <2>5, OneFollows
  <2>. QED
    BY <2>3, <2>4, <2>6 DEF InputInv
<1>. QED
  BY <1>1, <1>2

LEMMA RepeatSent ==
  ASSUME InputInv, Agree, NEW k \in session.keys, Autorepeat(k)
  PROVE  (InputInv /\ Agree)'
<1>. DEFINE up == Event("release", k, FALSE)
            down == Event("press", k, TRUE)
<1>0. /\ up \in Sent /\ up.type = "release" /\ up.key = k
      /\ down \in Sent /\ down.type = "press" /\ down.key = k
  BY SessionType, EventTypes DEF Event
<1>1. Send(<<up, down>>) /\ k \in held /\ session' \in Session /\ UNCHANGED <<held, closing>>
  BY PressedType DEF Autorepeat
<1>. HIDE DEF up, down
<1>2. <<up, down>> \in Seq(Sent)
  BY <1>0
<1>3. /\ Running /\ EventInv' /\ Unhandled' = Append(Append(Unhandled, up), down)
      /\ UNCHANGED <<bitmap, rom, missed>>
  <2>1. Running /\ EventInv' /\ Unhandled' = Unhandled \o <<up, down>>
        /\ UNCHANGED <<bitmap, rom, missed>>
    BY <1>1, <1>2, SendFollows
  <2>2. Unhandled \o <<up, down>> = Append(Append(Unhandled, up), down)
    BY <1>0, UnhandledType, AppendTwo
  <2>. QED
    BY <2>1, <2>2
<1>4. ASSUME NEW b \in DOMAIN ButtonBit
      PROVE  \E from \in Positions :
               /\ Bring(Unhandled', b, from, Position(b \in held'))
               /\ b \notin missed' => from = Position(ButtonBit[b] \in bitmap')
  <2>1. PICK from \in Positions :
          /\ Bring(Unhandled, b, from, Position(b \in held))
          /\ b \notin missed => from = Position(ButtonBit[b] \in bitmap)
    BY <1>3 DEF Agree
  <2>2. Unhandled \in Seq(Sent) /\ Append(Unhandled, up) \in Seq(Sent)
    BY <1>0, UnhandledType, AppendProperties
  <2>3. CASE b = k
    <3>1. IsKeyEvent(up, b) /\ IsKeyEvent(down, b) /\ Position(b \in held) = "press"
      BY <1>0, <1>1, <2>3 DEF IsKeyEvent, Positions, Position
    <3>2. Bring(Append(Unhandled, up), b, from, "release")
      BY <1>0, <2>1, <2>2, <3>1, BringAppend
    <3>3. Bring(Append(Append(Unhandled, up), down), b, from, "press")
      BY <1>0, <2>2, <3>1, <3>2, BringAppend
    <3>. QED
      BY <1>1, <1>3, <2>1, <3>1, <3>3
  <2>4. CASE b # k
    <3>1. ~IsKeyEvent(up, b) /\ ~IsKeyEvent(down, b)
      BY <1>0, <2>4 DEF IsKeyEvent
    <3>2. Bring(Append(Unhandled, up), b, from, Position(b \in held))
      BY <1>0, <2>1, <2>2, <3>1, BringAppend
    <3>3. Bring(Append(Append(Unhandled, up), down), b, from, Position(b \in held))
      BY <1>0, <2>2, <3>1, <3>2, BringAppend
    <3>. QED
      BY <1>1, <1>3, <2>1, <3>3
  <2>. QED
    BY <2>3, <2>4
<1>5. Agree'
  BY <1>4 DEF Agree
<1>. QED
  BY <1>1, <1>3, <1>5 DEF InputInv

LEMMA WindowSends ==
  ASSUME InputInv, Agree, CloseWindow \/ ExposeWindow
  PROVE  (InputInv /\ Agree)'
<1>1. PICK e \in {Close, Expose} : Send(<<e>>)
  BY DEF CloseWindow, ExposeWindow
<1>2. e \in Sent /\ \A k : ~IsKeyEvent(e, k)
  <2>1. e \in Sent
    BY EventTypes
  <2>2. e.type \notin Positions
    BY DEF Close, Expose, Event, Positions
  <2>. QED
    BY <2>1, <2>2 DEF IsKeyEvent
<1>3. /\ Running /\ EventInv' /\ Unhandled' = Append(Unhandled, e)
      /\ UNCHANGED <<bitmap, rom, missed>>
  BY <1>1, <1>2, OneSent
<1>4. UNCHANGED <<session, held>> /\ closing' \in BOOLEAN
  BY DEF CloseWindow, ExposeWindow, userVars, InputInv
<1>5. Agree'
  BY <1>2, <1>3, <1>4, OneFollows
<1>. QED
  BY <1>3, <1>4, <1>5 DEF InputInv

LEMMA InputStep == InputInv /\ Agree /\ [Next]_vars => (InputInv /\ Agree)'
<1>. SUFFICES ASSUME InputInv, Agree, [Next]_vars PROVE (InputInv /\ Agree)'
  OBVIOUS
<1>1. CASE UNCHANGED vars
  BY <1>1 DEF vars, inputVars, userVars, controllerVars, InputInv, EventInv, Agree, Unhandled,
              Running
<1>2. CASE User
  BY <1>2, KeyMoves, RepeatSent, WindowSends, ExitAgrees DEF User
<1>3. CASE Loop
  BY <1>3, PollAgrees, IgnoredAgrees, CountedAgrees, RepeatAgrees, PauseAgrees, SaveAgrees,
     FrameAgrees, ExitAgrees DEF Loop, HandleEvent, Pause, Save
<1>4. CASE GamePolls \/ SaveFails \/ Start \/ StartRefused
  BY <1>4, FrameAgrees, ExitAgrees, StartAgrees
<1>. QED
  BY <1>1, <1>2, <1>3, <1>4 DEF Next, Over

-----------------------------------------------------------------------------
(***************************************************************************)
(* The save file.                                                          *)
(***************************************************************************)
(* The file starts with pieces of the last finished save, as many as it    *)
(* had, or of later ones.                                                  *)
LastSave ==
  done # 0 => LET n == savedBy[done].length
              IN  n <= Len(file) /\ \A i \in 1 .. n : file[i] >= done

\* Saves of nothing but one ROM all have the layout of the finished one.
OneLayout ==
  \A r \in Roms : OnlySaved(r) => \A id \in done .. saves : savedBy[id] = savedBy[done]

\* And so has the machine.
MachineLayout ==
  session.save /\ Running =>
    layout.rom = rom /\ (OnlySaved(rom) => layout = savedBy[done])

\* The running save has written everything before the offset.
Saving ==
  pc = "save" => /\ saves > 0 /\ savedBy[saves] = layout
                 /\ pos + left = layout.length
                 /\ \A i \in 1 .. pos : file[i] = saves

SaveFileInv ==
  SaveFileTypeOK /\ LastSave /\ OneLayout /\ MachineLayout /\ Saving /\ LoadableOnceSaved

LEMMA LayoutType ==
  /\ \A r \in Roms : NewLayout(r) \in Layouts /\ NewLayout(r).rom = r
  /\ \A l \in Layouts : l.rom \in Roms /\ l.length \in Nat \ {0}
  BY SaveFileAssumption DEF NewLayout, Layouts

LEMMA FileType ==
  ASSUME SaveFileTypeOK
  PROVE  /\ Len(file) \in Nat /\ DOMAIN file = 1 .. Len(file)
         /\ \A i \in 1 .. Len(file) : file[i] \in 1 .. saves
         /\ file = <<>> => Len(file) = 0
         /\ \A id \in 1 .. saves : /\ savedBy[id] \in Layouts
                                  /\ savedBy[id].length \in Nat \ {0}
  BY EmptySeq, LenProperties, ElementOfSeq, LayoutType DEF SaveFileTypeOK

\* What a start finds after a save of its own ROM that was finished.
LEMMA FoundAgain ==
  ASSUME SaveFileTypeOK, LastSave, OneLayout, NEW r \in Roms, OnlySaved(r)
  PROVE  file # <<>> /\ Own(r) /\ ~TooShort /\ First = savedBy[done]
<1>1. done \in 1 .. saves /\ savedBy[done].rom = r /\ saves \in Nat
  BY DEF OnlySaved, SaveFileTypeOK
<1>. DEFINE n == savedBy[done].length
<1>2. /\ n \in Nat \ {0} /\ n <= Len(file)
      /\ \A i \in 1 .. n : file[i] >= done
  BY <1>1, FileType DEF LastSave
<1>3. ASSUME NEW i \in 1 .. n PROVE savedBy[file[i]] = savedBy[done]
  <2>1. file[i] \in done .. saves
    BY <1>1, <1>2, FileType
  <2>. QED
    BY <2>1 DEF OneLayout
<1>4. First = savedBy[done] /\ file # <<>>
  BY <1>2, <1>3, FileType DEF First
<1>5. ~TooShort
  BY <1>2, <1>4, FileType DEF TooShort
<1>6. ASSUME NEW i \in DOMAIN file, i <= First.length PROVE savedBy[file[i]] = First
  <2>1. i \in 1 .. n
    BY <1>2, <1>4, <1>6, FileType
  <2>. QED
    BY <1>3, <1>4, <2>1
<1>. QED
  BY <1>1, <1>4, <1>5, <1>6 DEF Own

LEMMA SaveOption ==
  ASSUME InputInv, [Next]_vars
  PROVE  session'.save = session.save
<1>1. session \in Session
  BY DEF InputInv
<1>2. CASE UNCHANGED session
  BY <1>2
<1>3. CASE Start \/ StartRefused
  BY <1>1, <1>3 DEF Start, StartRefused, Starting, Session
<1>4. CASE User
  BY <1>1, <1>4 DEF User, KeyDown, KeyUp, Autorepeat, Pressed, CloseWindow, ExposeWindow, userVars,
                    Kill, Session
<1>5. CASE Loop \/ GamePolls \/ SaveFails
  BY <1>5 DEF Loop, Poll, HandleEvent, HandleEsc, HandleP, HandlePress, HandleRepeat,
              HandleRelease, HandleExpose, Quit, Pause, PauseQuit, PauseDiscard, Resume, Save,
              SavePiece, SaveDone, EndFrame, GamePolls, SaveFails, userVars
<1>. QED
  BY <1>2, <1>3, <1>4, <1>5 DEF Next, Over, vars, userVars

\* What a start does to the file and to the machine.
FileStart ==
  \/ Start /\ session.save /\ (StartFresh(rom') \/ LoadOwn(rom') \/ LoadForeign(rom'))
  \/ StartRefused /\ Refuse(rom')
  \/ Start /\ ~session.save /\ UNCHANGED saveFileVars

LEMMA FileSteps ==
  ASSUME [Next]_vars
  PROVE  \/ /\ UNCHANGED <<saveFileVars, rom>> /\ (Running' => Running)
            /\ pc' # "refused" /\ (pc' = "save" => pc = "save")
         \/ UNCHANGED <<saveFileVars, rom, pc>>
         \/ FileStart
         \/ session.save /\ Running /\ BeginSave /\ rom' = rom /\ pc' = "save"
         \/ pc = "save" /\ WritePiece /\ UNCHANGED <<rom, pc>>
         \/ pc = "save" /\ FinishSave /\ rom' = rom /\ pc' \notin {"save", "refused"}
<1>. USE DEF Running
<1>1. CASE UNCHANGED vars
  BY <1>1 DEF vars
<1>2. CASE Poll \/ HandlePress \/ HandleRelease \/ HandleExpose
  BY <1>2 DEF Poll, HandlePress, HandleRelease, HandleExpose, NoMore, PollQueued, Handle
<1>3. CASE HandleEsc \/ HandleRepeat \/ Quit \/ Pause
  BY <1>3 DEF HandleEsc, HandleRepeat, Quit, Exit, Pause, PauseQuit, PauseDiscard, Resume, Handle
<1>4. CASE HandleP
  BY <1>4 DEF HandleP, PollQueued, NoMore, Handle
<1>5. CASE Save
  BY <1>5 DEF Save, SavePiece, SaveDone, PollQueued, NoMore
<1>6. CASE EndFrame \/ GamePolls \/ SaveFails
  BY <1>6 DEF EndFrame, GamePolls, SaveFails, Exit
<1>7. CASE Start \/ StartRefused
  BY <1>7 DEF Start, StartRefused, FileStart
<1>8. CASE User
  BY <1>8 DEF User, KeyDown, KeyUp, Autorepeat, Send, CloseWindow, ExposeWindow, Kill, Exit
<1>9. CASE Over
  BY <1>9 DEF Over, vars
<1>. QED
  BY <1>1, <1>2, <1>3, <1>4, <1>5, <1>6, <1>7, <1>8, <1>9 DEF Next, Loop, HandleEvent

LEMMA FileStarts ==
  ASSUME InputInv, SaveFileInv, FileStart, rom' \in Roms, session'.save = session.save
  PROVE  SaveFileInv'
<1>1. UNCHANGED <<file, left, saves, savedBy, done>>
  BY DEF FileStart, StartFresh, LoadOwn, LoadForeign, LoadPieces, Refuse, saveFileVars
<1>2. pc' \in {"poll", "refused"}
  BY DEF FileStart, Start, StartRefused
<1>. USE DEF SaveFileInv
<1>3. loaded' \in Seq(1 .. saves) /\ pos' \in 0 .. Len(file) /\ layout' \in Layouts
  <2>1. CASE StartFresh(rom') \/ Refuse(rom')
    <3>1. loaded' = <<>> /\ pos' = 0 /\ layout' = NewLayout(rom')
      BY <2>1 DEF StartFresh, Refuse
    <3>. QED
      BY <3>1, EmptySeq, FileType, LayoutType
  <2>2. ASSUME NEW n \in 1 .. Len(file), LoadPieces(n)
        PROVE  loaded' \in Seq(1 .. saves) /\ pos' \in 0 .. Len(file)
    <3>1. \A i \in 1 .. n : file[i] \in 1 .. saves
      BY FileType
    <3>. QED
      BY <2>2, <3>1, FileType, SubSeqProperties DEF LoadPieces
  <2>3. CASE LoadOwn(rom')
    <3>1. Len(file) \in Nat \ {0}
      BY <2>3, FileType, EmptySeq, LenProperties DEF LoadOwn, SaveFileTypeOK
    <3>2. First \in Layouts /\ First.length \in Nat \ {0}
      BY <3>1, FileType DEF First
    <3>3. First.length \in 1 .. Len(file) /\ LoadPieces(First.length) /\ layout' = First
      BY <2>3, <3>1, <3>2 DEF LoadOwn, TooShort
    <3>. QED
      BY <2>2, <3>2, <3>3
  <2>4. CASE LoadForeign(rom')
    <3>1. PICK n \in 1 .. Len(file) :
            LoadPieces(n) /\ layout' = [rom |-> rom', from |-> saves, length |-> n]
      BY <2>4 DEF LoadForeign
    <3>2. layout' \in Layouts
      BY <3>1, FileType DEF Layouts, SaveFileTypeOK
    <3>. QED
      BY <2>2, <3>1, <3>2
  <2>5. CASE UNCHANGED saveFileVars
    BY <2>5 DEF saveFileVars, SaveFileTypeOK
  <2>. QED
    BY <2>1, <2>3, <2>4, <2>5 DEF FileStart
<1>4. SaveFileTypeOK'
  BY <1>1, <1>3 DEF SaveFileTypeOK
<1>5. LastSave' /\ OneLayout'
  BY <1>1 DEF LastSave, OneLayout, OnlySaved
<1>6. OnlySaved(rom)' <=> OnlySaved(rom')
  BY <1>1 DEF OnlySaved
<1>7. ASSUME OnlySaved(rom')
      PROVE  file # <<>> /\ Own(rom') /\ ~TooShort /\ First = savedBy[done]
  BY <1>7, FoundAgain
<1>8. MachineLayout'
  <2>. SUFFICES ASSUME session.save, Running'
                PROVE  layout'.rom = rom' /\ (OnlySaved(rom') => layout' = savedBy[done])
    BY <1>1, <1>6 DEF MachineLayout
  <2>1. CASE StartFresh(rom')
    BY <1>7, <2>1, LayoutType DEF StartFresh
  <2>2. CASE LoadOwn(rom')
    BY <1>7, <2>2 DEF LoadOwn, Own
  <2>3. CASE LoadForeign(rom')
    BY <1>7, <2>3 DEF LoadForeign
  <2>. QED
    BY <2>1, <2>2, <2>3 DEF FileStart, StartRefused, Running
<1>9. Saving'
  BY <1>2 DEF Saving
<1>10. LoadableOnceSaved'
  <2>. SUFFICES ASSUME pc' = "refused", OnlySaved(rom') PROVE FALSE
    BY <1>6 DEF LoadableOnceSaved
  <2>1. Refuse(rom')
    BY DEF FileStart, Start
  <2>. QED
    BY <1>7, <2>1 DEF Refuse
<1>. QED
  BY <1>4, <1>5, <1>8, <1>9, <1>10

LEMMA FileBegins ==
  ASSUME SaveFileInv, rom \in Roms, session.save, Running, BeginSave, rom' = rom, pc' = "save"
  PROVE  SaveFileInv'
<1>. USE DEF SaveFileInv
<1>1. /\ saves' = saves + 1 /\ savedBy' = Append(savedBy, layout) /\ left' = layout.length
      /\ pos' = 0 /\ UNCHANGED <<file, done, loaded, layout>>
  BY DEF BeginSave
<1>2. /\ saves \in Nat /\ Len(savedBy) = saves /\ savedBy \in Seq(Layouts) /\ done \in 0 .. saves
      /\ layout \in Layouts /\ layout.length \in Nat \ {0}
  BY LayoutType DEF SaveFileTypeOK
<1>3. /\ savedBy' \in Seq(Layouts) /\ Len(savedBy') = saves + 1
      /\ \A id \in 1 .. saves : savedBy'[id] = savedBy[id]
      /\ savedBy'[saves + 1] = layout
  BY <1>1, <1>2, AppendProperties
<1>4. SaveFileTypeOK'
  <2>1. 1 .. saves \subseteq 1 .. saves + 1
    BY <1>2
  <2>2. file \in Seq(1 .. saves + 1) /\ loaded \in Seq(1 .. saves + 1)
    BY <2>1, SeqMonotonic DEF SaveFileTypeOK
  <2>. QED
    BY <1>1, <1>2, <1>3, <2>2, FileType DEF SaveFileTypeOK
<1>5. LastSave'
  BY <1>1, <1>2, <1>3 DEF LastSave
\* Another save is of one ROM with the others only if the machine is of that ROM.
<1>6. ASSUME NEW r \in Roms, OnlySaved(r)'
      PROVE  /\ OnlySaved(r) /\ savedBy'[done] = savedBy[done] /\ layout = savedBy[done]
             /\ \A id \in done .. saves + 1 : savedBy'[id] = savedBy[done]
  <2>1. done \in 1 .. saves /\ \A id \in done .. saves + 1 : savedBy'[id].rom = r
    BY <1>1, <1>2, <1>6 DEF OnlySaved
  <2>2. OnlySaved(r)
    BY <1>2, <1>3, <2>1 DEF OnlySaved
  <2>3. layout.rom = r
    BY <1>2, <1>3, <2>1
  <2>4. layout = savedBy[done] /\ savedBy'[done] = savedBy[done]
    BY <1>3, <2>1, <2>2, <2>3 DEF MachineLayout
  <2>5. ASSUME NEW id \in done .. saves + 1 PROVE savedBy'[id] = savedBy[done]
    <3>1. id = saves + 1 \/ (id \in 1 .. saves /\ id \in done .. saves)
      BY <1>2, <2>1
    <3>. QED
      BY <1>3, <2>2, <2>4, <3>1 DEF OneLayout
  <2>. QED
    BY <2>2, <2>4, <2>5
<1>7. OneLayout'
  BY <1>1, <1>6 DEF OneLayout
<1>8. MachineLayout'
  BY <1>1, <1>6 DEF MachineLayout
<1>9. Saving'
  BY <1>1, <1>2, <1>3 DEF Saving
<1>. QED
  BY <1>4, <1>5, <1>7, <1>8, <1>9 DEF LoadableOnceSaved

LEMMA FileGrows ==
  ASSUME SaveFileInv, rom \in Roms, pc = "save", WritePiece, UNCHANGED <<rom, pc>>,
         session'.save = session.save
  PROVE  SaveFileInv'
<1>. USE DEF SaveFileInv
<1>1. /\ left > 0 /\ left' = left - 1 /\ pos' = pos + 1
      /\ UNCHANGED <<saves, savedBy, done, loaded, layout>>
      /\ file' = IF pos < Len(file) THEN [file EXCEPT ![pos + 1] = saves] ELSE Append(file, saves)
  BY DEF WritePiece
<1>2. /\ saves \in 1 .. saves /\ savedBy[saves] = layout /\ pos + left = layout.length
      /\ \A i \in 1 .. pos : file[i] = saves
      /\ pos \in 0 .. Len(file) /\ left \in Nat /\ Len(file) \in Nat
      /\ file \in Seq(1 .. saves) /\ done \in 0 .. saves /\ layout.length \in Nat
  BY FileType, LayoutType DEF Saving, SaveFileTypeOK
<1>3. /\ file' \in Seq(1 .. saves) /\ Len(file') >= Len(file) /\ Len(file') \in Nat
      /\ pos + 1 <= Len(file') /\ file'[pos + 1] = saves
      /\ \A i \in 1 .. Len(file) : i # pos + 1 => file'[i] = file[i]
  <2>1. CASE pos < Len(file)
    BY <1>1, <1>2, <2>1, ExceptSeq
  <2>2. CASE pos = Len(file)
    <3>1. file' = Append(file, saves)
      BY <1>1, <1>2, <2>2
    <3>2. /\ file' \in Seq(1 .. saves) /\ Len(file') = Len(file) + 1
          /\ \A i \in 1 .. Len(file) : file'[i] = file[i]
          /\ file'[Len(file) + 1] = saves
      BY <1>2, <3>1, AppendProperties
    <3>. QED
      BY <1>2, <2>2, <3>2
  <2>3. pos < Len(file) \/ pos = Len(file)
    BY <1>2
  <2>. QED
    BY <2>1, <2>2, <2>3
<1>4. SaveFileTypeOK'
  BY <1>1, <1>2, <1>3 DEF SaveFileTypeOK
<1>5. LastSave'
  BY <1>1, <1>2, <1>3, FileType DEF LastSave
<1>6. Saving'
  <2>1. ASSUME NEW i \in 1 .. pos + 1 PROVE file'[i] = saves
    <3>1. i = pos + 1 \/ (i \in 1 .. pos /\ i \in 1 .. Len(file) /\ i # pos + 1)
      BY <1>2
    <3>. QED
      BY <1>2, <1>3, <3>1
  <2>2. (pos + 1) + (left - 1) = layout.length /\ saves > 0
    BY <1>2
  <2>. QED
    BY <1>1, <1>2, <2>1, <2>2 DEF Saving
<1>7. OneLayout' /\ MachineLayout'
  BY <1>1 DEF OneLayout, MachineLayout, OnlySaved, Running
<1>. QED
  BY <1>1, <1>4, <1>5, <1>6, <1>7 DEF LoadableOnceSaved, OnlySaved

LEMMA FileFinished ==
  ASSUME SaveFileInv, rom \in Roms, pc = "save", FinishSave, rom' = rom,
         session'.save = session.save, pc' \notin {"save", "refused"}
  PROVE  SaveFileInv'
<1>. USE DEF SaveFileInv
<1>1. left = 0 /\ done' = saves /\ UNCHANGED <<file, pos, left, saves, savedBy, loaded, layout>>
  BY DEF FinishSave
<1>2. /\ saves \in 1 .. saves /\ savedBy[saves] = layout /\ pos = layout.length
      /\ \A i \in 1 .. pos : file[i] = saves
      /\ pos \in 0 .. Len(file)
  BY <1>1 DEF Saving, SaveFileTypeOK
<1>3. SaveFileTypeOK'
  BY <1>1, <1>2 DEF SaveFileTypeOK
<1>4. LastSave'
  BY <1>1, <1>2 DEF LastSave
<1>5. OneLayout'
  BY <1>1, <1>2 DEF OneLayout
<1>6. MachineLayout'
  BY <1>1, <1>2 DEF MachineLayout, Running
<1>. QED
  BY <1>3, <1>4, <1>5, <1>6 DEF Saving, LoadableOnceSaved

LEMMA FileStep == InputInv /\ SaveFileInv /\ InputInv' /\ [Next]_vars => SaveFileInv'
<1>. SUFFICES ASSUME InputInv, SaveFileInv, InputInv', [Next]_vars PROVE SaveFileInv'
  OBVIOUS
<1>1. rom \in Roms /\ rom' \in Roms /\ session'.save = session.save
  BY SaveOption DEF InputInv
<1>2. CASE /\ UNCHANGED <<saveFileVars, rom>> /\ (Running' => Running)
           /\ pc' # "refused" /\ (pc' = "save" => pc = "save")
  BY <1>1, <1>2 DEF SaveFileInv, SaveFileTypeOK, LastSave, OneLayout, MachineLayout, Saving,
                    LoadableOnceSaved, OnlySaved, saveFileVars
<1>3. CASE UNCHANGED <<saveFileVars, rom, pc>>
  BY <1>1, <1>3 DEF SaveFileInv, SaveFileTypeOK, LastSave, OneLayout, MachineLayout, Saving,
                    LoadableOnceSaved, OnlySaved, Running, saveFileVars
<1>4. CASE pc = "save" /\ WritePiece /\ UNCHANGED <<rom, pc>>
  BY <1>1, <1>4, FileGrows
<1>. QED
  BY <1>1, <1>2, <1>3, <1>4, FileSteps, FileStarts, FileBegins, FileFinished

-----------------------------------------------------------------------------
(***************************************************************************)
(* What EventsLeaveTheFrame and QuitServed need besides fairness.          *)
(***************************************************************************)
(* The last of the events that the loop has yet to handle ends the program *)
(* and is not taken for an autorepeat of the one before it.                *)
QuitAhead ==
  LET n == Len(Unhandled) IN
  /\ n > 0 /\ IsQuit(Unhandled[n])
  /\ n > 1 => ~Repeats(Unhandled[n - 1], Unhandled[n])

\* The program that was asked to end will meet the event that says so.
QuitNotLost == Running /\ closing => QuitAhead

LEMMA QuitBehindFirst ==
  ASSUME NEW q \in Seq(Sent), NEW n \in Nat, n = Len(q), n > 1,
         IsQuit(q[n]), ~Repeats(q[n - 1], q[n])
  PROVE  /\ Tail(q) \in Seq(Sent) /\ Len(Tail(q)) = n - 1
         /\ IsQuit(Tail(q)[n - 1])
         /\ n - 1 > 1 => ~Repeats(Tail(q)[n - 2], Tail(q)[n - 1])
<1>1. /\ Tail(q) \in Seq(Sent) /\ Len(Tail(q)) = n - 1
      /\ \A i \in 1 .. n - 1 : Tail(q)[i] = q[i + 1]
  BY EmptySeq, HeadTailProperties
<1>2. Tail(q)[n - 1] = q[n]
  <2>1. n - 1 \in 1 .. n - 1 /\ (n - 1) + 1 = n
    OBVIOUS
  <2>. QED
    BY <1>1, <2>1
<1>3. n - 1 > 1 => Tail(q)[n - 2] = q[n - 1]
  <2>1. n - 1 > 1 => n - 2 \in 1 .. n - 1 /\ (n - 2) + 1 = n - 1
    OBVIOUS
  <2>. QED
    BY <1>1, <2>1
<1>. QED
  BY <1>1, <1>2, <1>3

(* How a step of the program treats the events that it has yet to handle.  *)
LEMMA Passes ==
  ASSUME InputInv, Loop \/ GamePolls \/ SaveFails
  PROVE  \/ closing' = FALSE
         \/ /\ closing' = closing
            /\ \/ Unhandled' = Unhandled
               \/ /\ Unhandled # <<>> /\ ~IsQuit(Unhandled[1])
                  /\ Unhandled' = Tail(Unhandled)
               \/ /\ Unhandled # <<>> /\ Tail(Unhandled) # <<>>
                  /\ Repeats(Unhandled[1], Tail(Unhandled)[1])
                  /\ Unhandled' = Tail(Tail(Unhandled))
<1>1. CASE Poll
  BY <1>1, PollPasses DEF Poll, userVars
<1>2. CASE HandleEsc \/ HandleP \/ HandleExpose \/ HandlePress \/ HandleRelease
  <2>1. PICK type : Handle(type) /\ ~IsQuit(current)
    BY <1>2, MainLoopAssumption
       DEF HandleEsc, HandleP, HandleExpose, HandlePress, HandleRelease, Handle, IsQuit
  <2>2. Unhandled' = pending
    BY <1>2, IgnoredPasses, PollQueuedGoesOn DEF HandlePress, HandleRelease
  <2>3. closing' = closing
    BY <1>2 DEF HandleEsc, HandleP, HandleExpose, HandlePress, HandleRelease, userVars
  <2>. QED
    BY <2>1, <2>2, <2>3, Handling
<1>3. CASE HandleRepeat
  BY <1>3, RepeatPasses DEF HandleRepeat, userVars
<1>4. CASE PauseDiscard \/ Resume
  <2>1. closing' = closing /\ ~IsQuit(Head(pending))
    BY <1>4, MainLoopAssumption DEF PauseDiscard, Resume, Resumes, IsQuit, userVars
  <2>2. Head(pending) = pending[1]
    BY <1>4, PausePasses, Queue
  <2>. QED
    BY <1>4, <2>1, <2>2, PausePasses
<1>5. CASE Save
  BY <1>5, SavePasses DEF Save, SavePiece, SaveDone, userVars
<1>6. CASE EndFrame \/ GamePolls
  BY <1>6, FramePasses DEF EndFrame, GamePolls, userVars
<1>7. CASE Quit \/ PauseQuit \/ SaveFails
  BY <1>7 DEF Quit, PauseQuit, SaveFails, Exit, Blank
<1>. QED
  BY <1>1, <1>2, <1>3, <1>4, <1>5, <1>6, <1>7 DEF Loop, HandleEvent, Pause

LEMMA QuitStep == InputInv /\ QuitNotLost /\ [Next]_vars => QuitNotLost'
<1>. SUFFICES ASSUME InputInv, QuitNotLost, [Next]_vars, (Running /\ closing)' PROVE QuitAhead'
  BY DEF QuitNotLost
<1>1. CASE UNCHANGED vars
  BY <1>1 DEF vars, inputVars, userVars, QuitNotLost, QuitAhead, Running, Unhandled
<1>2. CASE Loop \/ GamePolls \/ SaveFails
  <2>1. Running
    BY <1>2
       DEF Loop, Poll, HandleEvent, HandleEsc, HandleP, HandlePress, HandleRepeat, HandleRelease,
         HandleExpose, Quit, Handle, Pause, PauseQuit, PauseDiscard, Resume, Save, SavePiece,
         SaveDone, EndFrame, GamePolls, SaveFails, Running
  <2>. DEFINE n == Len(Unhandled)
  <2>2. closing /\ QuitAhead /\ Unhandled \in Seq(Sent) /\ n \in Nat
    BY <1>2, <2>1, Passes, UnhandledType, LenProperties DEF QuitNotLost, InputInv
  <2>3. CASE Unhandled' = Unhandled
    BY <2>2, <2>3 DEF QuitAhead
  <2>4. CASE ~IsQuit(Unhandled[1]) /\ Unhandled' = Tail(Unhandled)
    <3>1. n > 1
      BY <2>2, <2>4 DEF QuitAhead
    <3>2. /\ Len(Tail(Unhandled)) = n - 1
          /\ IsQuit(Tail(Unhandled)[n - 1])
          /\ n - 1 > 1 => ~Repeats(Tail(Unhandled)[n - 2], Tail(Unhandled)[n - 1])
      BY <2>2, <3>1, QuitBehindFirst DEF QuitAhead
    <3>3. n - 1 > 0 /\ (n - 1) - 1 = n - 2
      BY <2>2, <3>1
    <3>. QED
      BY <2>4, <3>2, <3>3 DEF QuitAhead
  <2>5. CASE /\ Tail(Unhandled) # <<>> /\ Unhandled # <<>>
             /\ Repeats(Unhandled[1], Tail(Unhandled)[1])
             /\ Unhandled' = Tail(Tail(Unhandled))
    <3>1. /\ Tail(Unhandled) \in Seq(Sent) /\ Len(Tail(Unhandled)) = n - 1
          /\ \A i \in 1 .. n - 1 : Tail(Unhandled)[i] = Unhandled[i + 1]
      BY <2>2, <2>5, HeadTailProperties
    <3>2. n > 2
      <4>1. n - 1 # 0
        BY <2>5, <3>1, EmptySeq
      <4>2. n # 2
        <5>1. ASSUME n = 2 PROVE FALSE
          <6>1. 1 \in 1 .. n - 1 /\ 1 + 1 = 2
            BY <5>1
          <6>2. Tail(Unhandled)[1] = Unhandled[2]
            BY <3>1, <6>1
          <6>3. Repeats(Unhandled[n - 1], Unhandled[n])
            <7>1. n - 1 = 1
              BY <5>1
            <7>. QED
              BY <2>5, <5>1, <6>2, <7>1
          <6>4. n > 1
            BY <5>1
          <6>. QED
            BY <2>2, <6>3, <6>4 DEF QuitAhead
        <5>. QED
          BY <5>1
      <4>3. n \in Nat /\ n # 0
        BY <2>2 DEF QuitAhead
      <4>4. ASSUME NEW m \in Nat, m - 1 # 0, m # 2, m # 0 PROVE m > 2
        BY <4>4
      <4>. HIDE DEF n
      <4>. QED
        BY <4>1, <4>2, <4>3, <4>4
    <3>3. /\ IsQuit(Tail(Unhandled)[n - 1])
          /\ ~Repeats(Tail(Unhandled)[n - 2], Tail(Unhandled)[n - 1])
      <4>1. n > 1 /\ n - 1 > 1
        BY <2>2, <3>2
      <4>. QED
        BY <2>2, <4>1, QuitBehindFirst DEF QuitAhead
    <3>4. PICK m \in Nat : m = n - 1 /\ m > 1 /\ m - 1 = n - 2
      BY <2>2, <3>2
    <3>5. /\ Len(Tail(Tail(Unhandled))) = m - 1
          /\ IsQuit(Tail(Tail(Unhandled))[m - 1])
          /\ m - 1 > 1 => ~Repeats(Tail(Tail(Unhandled))[m - 2], Tail(Tail(Unhandled))[m - 1])
      BY <3>1, <3>3, <3>4, QuitBehindFirst
    <3>6. m - 1 > 0 /\ (m - 1) - 1 = m - 2
      BY <3>4
    <3>. QED
      BY <2>5, <3>5, <3>6 DEF QuitAhead
  <2>. QED
    BY <1>2, <2>2, <2>3, <2>4, <2>5, Passes
<1>3. CASE Start \/ StartRefused \/ Kill
  BY <1>3 DEF Start, StartRefused, Starting, Kill, Exit, Blank
<1>4. CASE \E k \in session.keys : KeyUp(k) \/ Autorepeat(k)
  BY <1>4 DEF KeyUp, Autorepeat, Send
<1>5. CASE ExposeWindow
  BY <1>5 DEF ExposeWindow, Send, userVars
<1>6. CASE CloseWindow \/ \E k \in session.keys : KeyDown(k)
  <2>1. PICK e \in Sent :
          /\ Send(<<e>>) /\ IsQuit(e)
          /\ Unhandled # <<>> => ~Repeats(Unhandled[Len(Unhandled)], e)
    <3>1. CASE CloseWindow
      <4>1. Send(<<Close>>) /\ Close \in Sent /\ Close.type = "close"
        BY <3>1, EventTypes DEF CloseWindow, Close, Event
      <4>. QED
        BY <4>1 DEF IsQuit, Repeats
    <3>2. ASSUME NEW k \in session.keys, KeyDown(k)
          PROVE  \E e \in Sent : /\ Send(<<e>>) /\ IsQuit(e)
                                 /\ Unhandled # <<>> => ~Repeats(Unhandled[Len(Unhandled)], e)
      <4>1. k = CtrlQ
        BY <3>2 DEF KeyDown
      <4>2. PICK same \in BOOLEAN :
              (same => ~JustReleased(k)) /\ Send(<<Event("press", k, same)>>)
        BY <3>2 DEF KeyDown
      <4>. DEFINE e == Event("press", k, same)
      <4>3. e \in Sent /\ e.type = "press" /\ e.key = k /\ e.same = same
        BY <4>1, EventTypes DEF Event, Keys
      <4>. HIDE DEF e
      <4>4. Unhandled # <<>> => ~Repeats(Unhandled[Len(Unhandled)], e)
        BY <4>2, <4>3 DEF Repeats, JustReleased
      <4>. QED
        BY <4>1, <4>2, <4>3, <4>4 DEF IsQuit, e
    <3>. QED
      BY <1>6, <3>1, <3>2
  <2>. DEFINE n == Len(Unhandled)
  <2>2. Unhandled' = Append(Unhandled, e) /\ Unhandled \in Seq(Sent) /\ n \in Nat
    BY <2>1, OneSent, UnhandledType, LenProperties
  <2>3. /\ Len(Unhandled') = n + 1 /\ Unhandled'[n + 1] = e
        /\ \A i \in 1 .. n : Unhandled'[i] = Unhandled[i]
    BY <2>2, AppendProperties
  <2>4. n + 1 > 1 => /\ Unhandled # <<>>
                     /\ Unhandled'[(n + 1) - 1] = Unhandled[n]
    BY <2>2, <2>3, EmptySeq
  <2>5. n + 1 > 0
    BY <2>2
  <2>. QED
    BY <2>1, <2>3, <2>4, <2>5 DEF QuitAhead
<1>7. CASE Over
  BY <1>7, <1>1 DEF Over
<1>. QED
  BY <1>1, <1>2, <1>3, <1>4, <1>5, <1>6, <1>7 DEF Next, User

-----------------------------------------------------------------------------
(***************************************************************************)
(* The theorems.                                                           *)
(***************************************************************************)
IInv == ControllerInv /\ InputInv /\ Agree /\ SaveFileInv

LEMMA IInvInit == Init => IInv
<1>. SUFFICES ASSUME Init PROVE IInv
  OBVIOUS
<1>1. ControllerInv
  <2>1. report \in Seq(BOOLEAN) /\ Len(report) = 0 /\ 0 <= Width + 1
    BY EmptySeq, ControllerAssumption DEF Init, ControllerInit
  <2>2. /\ bitmap = {} /\ shiftReg = {} /\ latched = {}
        /\ strobeEnable = FALSE /\ shiftEnable = FALSE
    BY DEF Init, ControllerInit
  <2>3. ControllerTypeOK
    BY <2>1, <2>2 DEF ControllerTypeOK
  <2>. QED
    BY <2>2, <2>3 DEF ControllerInv, Shifted, ReportIsSnapshot
<1>2. EventInv
  BY EmptySeq, EventTypes DEF Init, EventInv, Places
<1>3. session \in Session /\ rom \in Roms
  <2>1. session \in Session /\ rom \in session.roms
    BY MainLoopAssumption DEF Init
  <2>. QED
    BY <2>1 DEF Session
<1>4. InputInv /\ Agree
  BY <1>2, <1>3 DEF Init, InputInv, Agree, Running
<1>5. SaveFileInv
  <2>1. /\ file \in Seq(1 .. 0) /\ Len(file) = 0 /\ savedBy \in Seq(Layouts) /\ Len(savedBy) = 0
        /\ loaded \in Seq(1 .. 0) /\ saves = 0 /\ pos = 0 /\ left = 0 /\ done = 0
        /\ layout \in Layouts /\ ~Running
    BY <1>3, EmptySeq, LayoutType DEF Init, SaveFileInit, Running
  <2>2. SaveFileTypeOK
    BY <2>1 DEF SaveFileTypeOK
  <2>. QED
    BY <2>1, <2>2 DEF Init, SaveFileInv, LastSave, OneLayout, MachineLayout, OnlySaved, Saving,
                        LoadableOnceSaved
<1>. QED
  BY <1>1, <1>4, <1>5 DEF IInv

LEMMA Invariance == Spec => []IInv
<1>1. IInv /\ [Next]_vars => IInv'
  BY ControllerStep, InputStep, FileStep DEF IInv
<1>. QED
  BY IInvInit, <1>1, PTL DEF Spec

(* Every variable keeps its type: the port of the controller, the queue of *)
(* libxcb and the save file, through any number of starts.                 *)
THEOREM TypeCorrect == Spec => []TypeOK
<1>1. IInv => TypeOK
  <2>. SUFFICES ASSUME IInv PROVE TypeOK
    OBVIOUS
  <2>1. pending \in Seq(Events)
    BY EventTypes, SeqMonotonic DEF IInv, InputInv, EventInv
  <2>. QED
    BY <2>1 DEF IInv, ControllerInv, SaveFileInv, InputInv, EventInv, TypeOK
<1>. QED
  BY <1>1, Invariance, PTL

(* The game reads one state of the buttons: the bitmap at the end of the   *)
(* strobe in the order of its bits, then ones, whatever is handled between *)
(* the reads.                                                              *)
THEOREM OneStateIsRead == Spec => []ReportIsSnapshot
<1>1. IInv => ReportIsSnapshot
  BY DEF IInv, ControllerInv
<1>. QED
  BY <1>1, Invariance, PTL

(* With every event handled, the controller holds just the buttons that    *)
(* are down, the keys apart that a pause or the start has missed.          *)
THEOREM ControllerFollowsKeys == Spec => []KeysAgree
<1>1. IInv => KeysAgree
  <2>. SUFFICES ASSUME IInv, Running, pending = <<>>, current = NoEvent,
                       NEW k \in DOMAIN ButtonBit \ missed
                PROVE  ButtonBit[k] \in bitmap <=> k \in held
    BY DEF KeysAgree
  <2>1. pc # "handle"
    BY EventTypes DEF IInv, InputInv, EventInv
  <2>2. Unhandled = <<>>
    BY <2>1 DEF Unhandled
  <2>3. PICK from \in Positions :
          /\ Bring(Unhandled, k, from, Position(k \in held))
          /\ k \notin missed => from = Position(ButtonBit[k] \in bitmap)
    BY DEF IInv, Agree
  <2>4. Position(k \in held) = Position(ButtonBit[k] \in bitmap)
    BY <2>2, <2>3, EmptySeq, BringNothing
  <2>. QED
    BY <2>4 DEF Position
<1>. QED
  BY <1>1, Invariance, PTL

(* A start finds all of the last save if it was finished, and nothing      *)
(* else; and once a ROM was saved, it is never refused, however many later *)
(* saves of it were interrupted, as long as no other ROM is saved.         *)
THEOREM SavesAreFound == Spec => SavesComeBack
<1>1. IInv => LoadableOnceSaved
  BY DEF IInv, SaveFileInv
<1>2. IInv /\ IInv' /\ [Next]_vars
        => [~Running /\ pc' = "poll" /\ session.save /\ Intact /\ savedBy[done].rom = rom' =>
              loaded' = [i \in 1 .. savedBy[done].length |-> done]]_vars
  <2>. SUFFICES ASSUME IInv, IInv', Next, ~Running, pc' = "poll", session.save, Intact,
                       savedBy[done].rom = rom'
                PROVE  loaded' = [i \in 1 .. savedBy[done].length |-> done]
    OBVIOUS
  <2>1. Start
    BY DEF Next, Loop, Poll, HandleEvent, Handle, HandleEsc, HandleP, HandlePress, HandleRepeat,
           HandleRelease, HandleExpose, Quit, Pause, PauseQuit, PauseDiscard, Resume, Save,
           SavePiece, SaveDone, EndFrame, GamePolls, SaveFails, StartRefused, User, KeyDown, KeyUp,
           Autorepeat, Send, CloseWindow, ExposeWindow, Kill, Over, vars, Running
  <2>2. rom' \in Roms /\ OnlySaved(rom') /\ SaveFileTypeOK /\ LastSave /\ OneLayout
    BY DEF IInv, InputInv, SaveFileInv, Intact, OnlySaved, SaveFileTypeOK
  <2>3. LoadOwn(rom')
    BY <2>1, <2>2, FoundAgain DEF Start, StartFresh, LoadForeign
  <2>4. PICK n \in 1 .. Len(file) : n = savedBy[done].length /\ loaded' = SubSeq(file, 1, n)
    <3>1. savedBy[done].length \in Nat \ {0} /\ savedBy[done].length <= Len(file)
      BY <2>2, FileType DEF LastSave, OnlySaved, SaveFileTypeOK
    <3>. QED
      BY <2>2, <2>3, <3>1, FoundAgain, FileType DEF LoadOwn, LoadPieces
  <2>5. /\ done \in 1 .. saves /\ done = saves
        /\ \A i \in 1 .. n : file[i] = done
    <3>1. done \in 1 .. saves /\ done = saves /\ saves \in Nat
      BY <2>2 DEF Intact, SaveFileTypeOK
    <3>2. \A i \in 1 .. n : file[i] >= done /\ file[i] \in 1 .. saves
      BY <2>2, <2>4, <3>1, FileType DEF LastSave
    <3>. QED
      BY <3>1, <3>2
  <2>. DEFINE new == [i \in 1 .. n |-> done]
  <2>6. /\ SubSeq(file, 1, n) \in Seq(1 .. saves) /\ Len(SubSeq(file, 1, n)) = n
        /\ \A i \in 1 .. n : SubSeq(file, 1, n)[i] = done
    BY <2>2, <2>5, FileType, SubSeqProperties
  <2>7. new \in Seq(1 .. saves) /\ Len(new) = n /\ \A i \in 1 .. n : new[i] = done
    BY <2>2, <2>5, FileType
  <2>8. SubSeq(file, 1, n) = new
    <3>. HIDE DEF new
    <3>. QED
      BY <2>6, <2>7, SeqEqual
  <2>. QED
    BY <2>4, <2>8
<1>. QED
  BY <1>1, <1>2, Invariance, PTL DEF Spec, SavesComeBack, StartsFromLastSave

(* QuitServed without the fairness: once the window was closed or Ctrl+Q   *)
(* pressed, the event that ends the program waits behind all others until  *)
(* it has ended; no autorepeat, no pause and no save loses it.             *)
THEOREM QuitStaysAhead == Spec => []QuitNotLost
<1>1. Init => QuitNotLost
  BY DEF Init, QuitNotLost, Running
<1>2. IInv /\ QuitNotLost /\ [Next]_vars => QuitNotLost'
  BY QuitStep DEF IInv
<1>. QED
  BY <1>1, <1>2, Invariance, PTL DEF Spec

(* A step of a round leaves it or handles an event or a piece of a save.   *)
GetsOn ==
  \/ pc' \notin {"handle", "save"}
  \/ queued' < queued
  \/ queued' = queued /\ pc = "handle" /\ pc' = "save"
  \/ queued' = queued /\ pc = "save" /\ pc' = "save" /\ left' < left

RoundGetsOn ==
  pc \in {"handle", "save"} => GetsOn \/ (User /\ UNCHANGED <<pc, queued, left>>)

(* EventsLeaveTheFrame without the fairness: the round of events gets on   *)
(* with every step of the program, event by event and a save piece by      *)
(* piece, and what the user does meanwhile does not prolong it.            *)
THEOREM RoundOfEventsEnds ==
  Spec => /\ [](queued \in Nat /\ left \in Nat)
          /\ [][RoundGetsOn]_vars
<1>1. IInv => queued \in Nat /\ left \in Nat
  BY Queue DEF IInv, InputInv, EventInv, SaveFileInv, SaveFileTypeOK
<1>2. IInv /\ [Next]_vars => [RoundGetsOn]_vars
  <2>. SUFFICES ASSUME IInv, Next, pc \in {"handle", "save"}
                PROVE  GetsOn \/ (User /\ UNCHANGED <<pc, queued, left>>)
    BY DEF RoundGetsOn
  <2>1. queued \in Nat /\ left \in Nat
    BY <1>1
  <2>2. ASSUME PollQueued PROVE GetsOn
    BY <2>1, <2>2 DEF PollQueued, Take, NoMore, GetsOn
  <2>3. CASE HandleEvent
    <3>1. CASE HandleEsc \/ Quit
      BY <3>1 DEF HandleEsc, Quit, Exit, GetsOn
    <3>2. CASE HandleP
      BY <2>2, <3>2 DEF HandleP, Handle, inputVars, GetsOn
    <3>3. CASE HandlePress \/ HandleRelease \/ HandleExpose
      BY <2>2, <3>3 DEF HandlePress, HandleRelease, HandleExpose
    <3>4. CASE HandleRepeat
      BY <2>1, <3>4 DEF HandleRepeat, GetsOn
    <3>. QED
      BY <2>3, <3>1, <3>2, <3>3, <3>4 DEF HandleEvent
  <2>4. CASE Save
    <3>1. CASE SavePiece
      BY <2>1, <3>1 DEF SavePiece, WritePiece, inputVars, GetsOn
    <3>. QED
      BY <2>2, <2>4, <3>1 DEF Save, SaveDone
  <2>5. CASE SaveFails \/ Kill
    BY <2>5 DEF SaveFails, Kill, Exit, GetsOn
  <2>6. CASE User /\ ~Kill
    BY <2>6 DEF User, KeyDown, KeyUp, Autorepeat, CloseWindow, ExposeWindow, Send, saveFileVars
  <2>. QED
    BY <2>3, <2>4, <2>5, <2>6
       DEF Next, Loop, Poll, Pause, PauseQuit, PauseDiscard, Resume, EndFrame, GamePolls, Start,
         StartRefused, Starting, Over, Running
<1>. QED
  BY <1>1, <1>2, Invariance, PTL DEF Spec
=============================================================================
