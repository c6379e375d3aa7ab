------------------------------ MODULE MainLoop ------------------------------
(***************************************************************************)
(* main.rs: the program from its start to its end, as the user meets it.   *)
(* Every round of the main loop handles the events of the window, emulates *)
(* a frame, in which the game may read the controller, and shows it.  The  *)
(* X server sends its events at any time; libxcb keeps those that it has   *)
(* read from the connection in a queue.                                    *)
(***************************************************************************)
EXTENDS Controller, SaveFile

CONSTANTS
  Esc, P,       \* the keys of pause and save
  CtrlQ,        \* Q while Ctrl is down
  Sessions,     \* what the user does, see Session
  MaxPending    \* bound: events under way

Keys == {Esc, P, CtrlQ} \cup DOMAIN ButtonBit

(* keys: those that are used; window: it is closed or exposed; save: the   *)
(* option; game: the game reads the controller; starts, presses: bounds on *)
(* the starts of the program and the presses of P.                         *)
Session ==
  [keys : SUBSET Keys, window : BOOLEAN, roms : SUBSET Roms, save : BOOLEAN,
   game : BOOLEAN, starts : Nat, presses : Nat]

ASSUME MainLoopAssumption ==
  /\ Esc # P /\ Esc # CtrlQ /\ P # CtrlQ
  /\ {Esc, P, CtrlQ} \cap DOMAIN ButtonBit = {}
  /\ Sessions \subseteq Session
  /\ MaxPending \in Nat /\ MaxPending >= 2

VARIABLES
  session,   \* what is possible in this behaviour, and how much of it is left
  pc,        \* where the program is, see Places
  rom,       \* the ROM that it was started with
  held,      \* the keys that are down
  pending,   \* the events that were sent and not yet handled, in order
  queued,    \* how many of them libxcb has read
  current,   \* current_event, or NoEvent
  closing,   \* WM_DELETE_WINDOW was sent, or Ctrl+Q pressed
  missed     \* auxiliary: the keys of which an event was discarded, or
             \* happened before the window existed, after the last that counted

inputVars == <<pending, queued, current>>
userVars == <<session, held, closing>>
vars == <<controllerVars, saveFileVars, inputVars, userVars, pc, rom, missed>>

(***************************************************************************)
(* Events.  `same` says that the server gives an event the time of the one *)
(* before; autorepeat sends a release and a press at the same time.        *)
(***************************************************************************)
Event(type, k, same) == [type |-> type, key |-> k, same |-> same]
NoEvent == Event("none", CtrlQ, FALSE)
Close == Event("close", CtrlQ, FALSE)
Expose == Event("expose", CtrlQ, FALSE)

Places == {"off", "refused", "poll", "handle", "pause", "save", "frame"}
Running == pc \notin {"off", "refused"}

Events == [type : {"none", "press", "release", "close", "expose"}, key : Keys, same : BOOLEAN]

TypeOK ==
  /\ ControllerTypeOK /\ SaveFileTypeOK
  /\ session \in Session
  /\ pc \in Places /\ rom \in Roms
  /\ held \subseteq Keys /\ missed \subseteq Keys
  /\ pending \in Seq(Events) /\ queued \in 0 .. Len(pending)
  /\ current \in Events
  /\ closing \in BOOLEAN

Init ==
  /\ ControllerInit
  /\ session \in Sessions
  /\ pc = "off" /\ rom \in session.roms
  /\ SaveFileInit(rom)
  /\ held = {} /\ missed = {}
  /\ pending = <<>> /\ queued = 0 /\ current = NoEvent
  /\ closing = FALSE

(***************************************************************************)
(* The user and the X server.                                              *)
(***************************************************************************)
Send(events) ==
  /\ Running /\ ~closing
  /\ Len(pending) + Len(events) <= MaxPending
  /\ pending' = pending \o events
  /\ UNCHANGED <<controllerVars, saveFileVars, queued, current, pc, rom, missed>>

\* The presses of P are counted, as each may begin a save.
Pressed(k) ==
  /\ k = P => session.presses > 0
  /\ session' = IF k = P THEN [session EXCEPT !.presses = @ - 1] ELSE session

\* The events that the loop has yet to handle.
Unhandled == IF pc = "handle" THEN <<current>> \o pending ELSE pending

JustReleased(k) ==
  LET last == Unhandled[Len(Unhandled)] IN
  Unhandled # <<>> /\ last.type = "release" /\ last.key = k

\* Autorepeat only has a key released and pressed again at the same time.
KeyDown(k) ==
  /\ k \notin held
  /\ \E same \in BOOLEAN : (same => ~JustReleased(k)) /\ Send(<<Event("press", k, same)>>)
  /\ held' = held \cup {k}
  /\ closing' = (k = CtrlQ)
  /\ Pressed(k)

KeyUp(k) ==
  /\ k \in held
  /\ \E same \in BOOLEAN : Send(<<Event("release", k, same)>>)
  /\ held' = held \ {k}
  /\ UNCHANGED <<session, closing>>

Autorepeat(k) ==
  /\ k \in held
  /\ Send(<<Event("release", k, FALSE), Event("press", k, TRUE)>>)
  /\ Pressed(k)
  /\ UNCHANGED <<held, closing>>

CloseWindow ==
  /\ session.window
  /\ Send(<<Close>>)
  /\ closing' = TRUE
  /\ UNCHANGED <<session, held>>

ExposeWindow ==
  /\ session.window
  /\ Send(<<Expose>>)
  /\ UNCHANGED userVars

\* The end of the process: its memory, its window and its events are gone.
Blank ==
  /\ bitmap' = {} /\ shiftReg' = {} /\ latched' = {}
  /\ strobeEnable' = FALSE /\ shiftEnable' = FALSE /\ report' = <<>>
  /\ pending' = <<>> /\ queued' = 0 /\ current' = NoEvent
  /\ closing' = FALSE

Exit == pc' = "off" /\ Blank /\ missed' = {}

\* The process is killed.
Kill ==
  /\ Running
  /\ Exit
  /\ UNCHANGED <<saveFileVars, session, held, rom>>

User ==
  \/ \E k \in session.keys : KeyDown(k) \/ KeyUp(k) \/ Autorepeat(k)
  \/ CloseWindow \/ ExposeWindow \/ Kill

(***************************************************************************)
(* Starting: the window and the controller are new, keys may be down.      *)
(***************************************************************************)
Starting ==
  /\ ~Running /\ session.starts > 0
  /\ session' = [session EXCEPT !.starts = @ - 1]
  /\ Blank
  /\ missed' = held
  /\ rom' \in session.roms
  /\ UNCHANGED held

Start ==
  /\ Starting
  /\ IF session.save THEN StartFresh(rom') \/ LoadOwn(rom') \/ LoadForeign(rom')
     ELSE UNCHANGED saveFileVars
  /\ pc' = "poll"

StartRefused ==
  /\ Starting
  /\ session.save /\ Refuse(rom')
  /\ pc' = "refused"

(***************************************************************************)
(* Events of the window.                                                   *)
(***************************************************************************)
\* Take the first event, of which libxcb may read any number at once.
Take ==
  /\ pending # <<>>
  /\ current' = Head(pending)
  /\ pending' = Tail(pending)
  /\ IF queued > 0 THEN queued' = queued - 1 ELSE queued' \in 0 .. Len(pending) - 1

NoMore ==
  /\ current' = NoEvent /\ pc' = "frame"
  /\ UNCHANGED <<pending, queued>>

\* poll_for_event()
Poll ==
  /\ pc = "poll"
  /\ \/ pending # <<>> /\ Take /\ pc' = "handle"
     \/ pending = <<>> /\ NoMore
  /\ UNCHANGED <<controllerVars, saveFileVars, userVars, rom, missed>>

\* Mutant: what has arrived in the meantime is read as well.
PollQueuedReads ==
  \/ pending # <<>> /\ Take /\ pc' = "handle"
  \/ pending = <<>> /\ NoMore

\* poll_for_queued_event()
PollQueued ==
  \/ queued > 0 /\ Take /\ pc' = "handle"
  \/ queued = 0 /\ NoMore

Handle(type) == pc = "handle" /\ current.type = type
Counted(k) == missed' = missed \ {k}

HandleEsc ==
  /\ Handle("press") /\ current.key = Esc
  /\ pc' = "pause" /\ current' = NoEvent
  /\ UNCHANGED <<controllerVars, saveFileVars, pending, queued, userVars, rom, missed>>

HandleP ==
  /\ Handle("press") /\ current.key = P
  /\ IF session.save
     THEN BeginSave /\ pc' = "save" /\ UNCHANGED inputVars
     ELSE PollQueued /\ UNCHANGED saveFileVars
  /\ UNCHANGED <<controllerVars, userVars, rom, missed>>

HandlePress ==
  /\ Handle("press") /\ current.key \notin {Esc, P, CtrlQ}
  /\ SetKey(current.key) /\ Counted(current.key)
  /\ PollQueued
  /\ UNCHANGED <<saveFileVars, userVars, rom>>

\* Mutant: the key of the press is not compared.
RepeatFollowsAnyKey ==
  LET next == Head(pending) IN
  queued > 0 /\ next.type = "press" /\ next.same

\* The next event is the press that autorepeat sends with this release.
RepeatFollows ==
  LET next == Head(pending) IN
  queued > 0 /\ next.type = "press" /\ next.same /\ next.key = current.key

HandleRepeat ==
  /\ Handle("release") /\ RepeatFollows
  /\ \/ /\ queued > 1
        /\ current' = pending[2] /\ pending' = Tail(Tail(pending)) /\ queued' = queued - 2
        /\ pc' = "handle"
     \/ /\ queued = 1
        /\ current' = NoEvent /\ pending' = Tail(pending) /\ queued' = 0
        /\ pc' = "frame"
  /\ UNCHANGED <<controllerVars, saveFileVars, userVars, rom, missed>>

HandleRelease ==
  /\ Handle("release") /\ ~RepeatFollows
  /\ UnsetKey(current.key) /\ Counted(current.key)
  /\ PollQueued
  /\ UNCHANGED <<saveFileVars, userVars, rom>>

HandleExpose ==
  /\ Handle("expose")
  /\ PollQueued
  /\ UNCHANGED <<controllerVars, saveFileVars, userVars, rom, missed>>

IsQuit(e) == e.type = "close" \/ (e.type = "press" /\ e.key = CtrlQ)

Quit ==
  /\ Handle(current.type) /\ IsQuit(current)
  /\ Exit
  /\ UNCHANGED <<saveFileVars, session, held, rom>>

(***************************************************************************)
(* The pause: wait_for_event() until Esc is pressed again.  Every other    *)
(* event of a key is discarded; a resize or exposure renders again.        *)
(***************************************************************************)
Resumes(e) == e.type = "press" /\ e.key = Esc

\* Mutant: closing the window is not handled in a pause.
PauseQuitByKey ==
  /\ pc = "pause" /\ pending # <<>> /\ Head(pending).type = "press" /\ IsQuit(Head(pending))
  /\ Exit
  /\ UNCHANGED <<saveFileVars, session, held, rom>>

PauseQuit ==
  /\ pc = "pause" /\ pending # <<>> /\ IsQuit(Head(pending))
  /\ Exit
  /\ UNCHANGED <<saveFileVars, session, held, rom>>

PauseDiscard ==
  /\ pc = "pause" /\ pending # <<>>
  /\ LET e == Head(pending) IN
       /\ ~IsQuit(e) /\ ~Resumes(e)
       /\ missed' = IF e.type \in {"press", "release"} THEN missed \cup {e.key} ELSE missed
  /\ pending' = Tail(pending)
  /\ IF queued > 0 THEN queued' = queued - 1 ELSE queued' \in 0 .. Len(pending) - 1
  /\ UNCHANGED <<controllerVars, saveFileVars, userVars, pc, rom, current>>

\* Esc ends the pause; the events that are queued behind it are handled next.
Resume ==
  /\ pc = "pause" /\ pending # <<>> /\ Resumes(Head(pending))
  /\ \E n \in 1 .. Len(pending) :
       /\ IF queued > 0 THEN n = queued ELSE TRUE
       /\ \/ /\ n > 1
             /\ current' = pending[2] /\ pending' = Tail(Tail(pending)) /\ queued' = n - 2
             /\ pc' = "handle"
          \/ /\ n = 1
             /\ current' = NoEvent /\ pending' = Tail(pending) /\ queued' = 0
             /\ pc' = "frame"
  /\ UNCHANGED <<controllerVars, saveFileVars, userVars, rom, missed>>

(***************************************************************************)
(* A save; an error of a write ends the program.                           *)
(***************************************************************************)
SavePiece ==
  /\ pc = "save" /\ WritePiece
  /\ UNCHANGED <<controllerVars, inputVars, userVars, pc, rom, missed>>

SaveDone ==
  /\ pc = "save" /\ FinishSave
  /\ PollQueued
  /\ UNCHANGED <<controllerVars, userVars, rom, missed>>

SaveFails ==
  /\ pc = "save"
  /\ Exit
  /\ UNCHANGED <<saveFileVars, session, held, rom>>

(***************************************************************************)
(* The frame: the game strobes and reads the controller as it likes; then  *)
(* the frame is shown, which may read the connection to the server.        *)
(***************************************************************************)
GamePolls ==
  /\ pc = "frame" /\ session.game
  /\ ReadPort \/ \E one \in BOOLEAN : WritePort(one)
  /\ UNCHANGED <<saveFileVars, inputVars, userVars, pc, rom, missed>>

EndFrame ==
  /\ pc = "frame"
  /\ pc' = "poll"
  /\ queued' \in queued .. Len(pending)
  /\ UNCHANGED <<controllerVars, saveFileVars, pending, current, userVars, rom, missed>>

HandleEvent ==
  \/ HandleEsc \/ HandleP \/ HandlePress \/ HandleRepeat \/ HandleRelease
  \/ HandleExpose \/ Quit
Pause == PauseQuit \/ PauseDiscard \/ Resume
Save == SavePiece \/ SaveDone
Loop == Poll \/ HandleEvent \/ Pause \/ Save \/ EndFrame

\* The program has ended and is not started again.
Over == ~Running /\ session.starts = 0 /\ UNCHANGED vars

Next == Loop \/ GamePolls \/ SaveFails \/ Start \/ StartRefused \/ User \/ Over

Spec == Init /\ [][Next]_vars

(* The program runs; whether the user does anything, and whether the game  *)
(* reads the controller, is open, and a game cannot prevent a frame's end. *)
FairSpec == Spec /\ WF_vars(Loop)

-----------------------------------------------------------------------------
(* When every event is handled the controller holds just the buttons that  *)
(* are down, through autorepeat pairs that arrive together or torn, and    *)
(* keys pressed at the same time: but for the keys of which the pause loop *)
(* discarded an event (they stay as they were until they are used again),  *)
(* and those that were down before the window was opened.                  *)
KeysAgree ==
  Running /\ pending = <<>> /\ current = NoEvent =>
    \A k \in DOMAIN ButtonBit \ missed : ButtonBit[k] \in bitmap <=> k \in held

(* Events cannot hold up the frames: however fast keys repeat, the loop    *)
(* only handles what was there when it began.                              *)
EventsLeaveTheFrame == pc = "poll" ~> pc \in {"frame", "pause", "off"}

(* Closing the window, or Ctrl+Q, ends the program, in a pause too and     *)
(* behind any other events.                                                *)
QuitServed == closing /\ Running ~> ~Running

(* If the last save was finished, the program starts from all of it and    *)
(* nothing else, even after older saves that were interrupted.             *)
StartsFromLastSave ==
  [][~Running /\ pc' = "poll" /\ session.save /\ Intact /\ savedBy[done].rom = rom' =>
       loaded' = [i \in 1 .. savedBy[done].length |-> done]]_vars

(* Once a ROM has been saved, a save that is interrupted costs the state   *)
(* but never the file: the program starts from it, however mixed it is, as *)
(* long as no other ROM is saved to the same file.                         *)
LoadableOnceSaved == pc = "refused" => ~OnlySaved(rom)

\* What a start finds in the save file, after finished and interrupted saves.
SavesComeBack == []LoadableOnceSaved /\ StartsFromLastSave
=============================================================================
