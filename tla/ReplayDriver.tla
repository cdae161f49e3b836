---------------------------- MODULE ReplayDriver ----------------------------
(***************************************************************************)
(* js/replay_core.js: replaySession() types the keys of a recorded session  *)
(* into a headless game and captures a frame after each.  It knows the game *)
(* is through with a key when drainUntilInput() sees the startup or the     *)
(* command finish, or the game wait for the next key.                       *)
(*                                                                         *)
(* Driver and game are two tasks of one thread: the driver runs until it    *)
(* awaits, and then the game may.  A task that was just called runs first   *)
(* and gives back at its first await ("started").                           *)
(*                                                                         *)
(* Data.  What the game does with a key is left out: a command reads as     *)
(* many keys as it likes, none included, and ends or throws when it likes.  *)
(***************************************************************************)
EXTENDS InputQueue

CONSTANTS
  Game,           \* the reader that is the game
  ChargenKeys,    \* bound: keys pushed before the game starts
  Keys            \* bound: keys of the recorded session

ASSUME ReplayAssumption ==
  /\ Readers = {Game}
  /\ ChargenKeys \in Nat /\ Keys \in Nat

VARIABLES
  pc,        \* where replaySession() is
  step,      \* keys of the session fed so far
  pending,   \* what is not finished: "startup" (startupPending), a "command", "none"
  task,      \* the promise of that startup or command
  seen       \* drainUntilInput(): its waitEpoch

driverVars == <<pc, step, pending, task, seen>>
vars == <<inputVars, driverVars>>

\* Where the driver awaits something, and the game may run.
Awaiting == {"started", "race", "esc", "cr", "returned"}
Pcs == Awaiting \union {"begin", "entered", "drain", "capture", "push", "cancel", "threw"}

Init ==
  /\ InputInit
  /\ pc = "begin" /\ step = 0 /\ pending = "none" /\ task = "none" /\ seen = 0

-----------------------------------------------------------------------------
(* The driver *)

\* opts.chargenKeys are queued before the game exists.
PushChargenKey ==
  /\ pc = "begin" /\ typed < ChargenKeys
  /\ pushInput
  /\ UNCHANGED driverVars

StartInit ==
  /\ pc = "begin" /\ pc' = "started"
  /\ pending' = "startup" /\ task' = "running"
  /\ UNCHANGED <<inputVars, step, seen>>

\* drainUntilInput(): the waits that started before it was entered are not news.
EnterDrain ==
  /\ pc \in {"started", "entered"} /\ pc' = "drain"
  /\ seen' = waitEpoch
  /\ UNCHANGED <<inputVars, step, pending, task>>

\* Top of its loop: the game waits already ...
DrainFindsWait ==
  /\ pc = "drain" /\ isWaitingInput
  /\ pc' = "capture"
  /\ UNCHANGED <<inputVars, step, pending, task, seen>>

\* ... or its next wait is raced with the end of the startup or the command.
DrainRaces ==
  /\ pc = "drain" /\ ~isWaitingInput
  /\ pc' = "race"
  /\ waitForInputWait(seen)
  /\ UNCHANGED <<step, pending, task, seen>>

\* Mutant: the listener of the race is left behind.
RaceDone_noAbort ==
  /\ pc = "race" /\ task = "done"
  /\ pc' = "capture" /\ pending' = "none"
  /\ UNCHANGED <<inputVars, step, task, seen>>

RaceDone ==
  /\ pc = "race" /\ task = "done"
  /\ abortWait(seen)
  /\ pc' = "capture" /\ pending' = "none"
  /\ UNCHANGED <<step, task, seen>>

\* The startup or the command threw: so does replaySession().
RaceError ==
  /\ pc = "race" /\ task = "failed"
  /\ abortWait(seen)
  /\ pc' = "threw"
  /\ UNCHANGED <<step, pending, task, seen>>

\* Mutant: a command that waits is taken for finished.
RaceWait_done ==
  /\ pc = "race" /\ waitResolved
  /\ pc' = "capture" /\ pending' = "none" /\ seen' = woken
  /\ UNCHANGED <<step, task>>

RaceWait ==
  /\ pc = "race" /\ waitResolved
  /\ seen' = woken
  /\ pc' = IF isWaitingInput THEN "capture" ELSE "drain"
  /\ UNCHANGED <<step, pending, task>>

\* Mutant: one key too many is taken from the recorded session.
Capture_oneMore ==
  /\ pc = "capture"
  /\ pc' = IF step <= Keys THEN "push" ELSE "cancel"
  /\ UNCHANGED <<inputVars, step, pending, task, seen>>

\* The frame of the startup or of a key is captured.
Capture ==
  /\ pc = "capture"
  /\ pc' = IF step < Keys THEN "push" ELSE "cancel"
  /\ UNCHANGED <<inputVars, step, pending, task, seen>>

\* The next key resumes what is pending, or starts a _gameLoopStep().
PushKey ==
  /\ pc = "push" /\ step' = step + 1
  /\ pushInput
  /\ \/ /\ pending # "none"
        /\ pc' = "entered" /\ UNCHANGED <<pending, task>>
     \/ /\ pending = "none"
        /\ pc' = "started" /\ pending' = "command" /\ task' = "running"
  /\ UNCHANGED seen

\* After the last key a command that still waits gets ESC and 20 ms, then CR and
\* 20 ms; a startup that still waits is left alone.
Cancel ==
  /\ pc = "cancel"
  /\ \/ /\ pending = "command" /\ pc' = "esc"
        /\ pushInput
     \/ /\ pending # "command" /\ pc' = "returned"
        /\ UNCHANGED inputVars
  /\ UNCHANGED <<step, pending, task, seen>>

EscSettles ==
  /\ pc = "esc" /\ task \in {"done", "failed"}
  /\ pc' = "returned"
  /\ UNCHANGED <<inputVars, step, pending, task, seen>>

EscTimesOut ==
  /\ pc = "esc" /\ task = "running"
  /\ pc' = "cr"
  /\ pushInput
  /\ UNCHANGED <<step, pending, task, seen>>

\* The command settles or the time is up.
CrEnds ==
  /\ pc = "cr" /\ pc' = "returned"
  /\ UNCHANGED <<inputVars, step, pending, task, seen>>

Driver ==
  \/ PushChargenKey \/ StartInit \/ EnterDrain \/ DrainFindsWait \/ DrainRaces
  \/ RaceDone \/ RaceError \/ RaceWait \/ Capture \/ PushKey
  \/ Cancel \/ EscSettles \/ EscTimesOut \/ CrEnds

-----------------------------------------------------------------------------
(* The game *)

\* A task called by the driver gives back to it at its first await or its end.
GameRuns ==
  /\ task = "running" /\ ~isWaitingInput
  /\ pc \in Awaiting
  /\ pc' = IF pc = "started" THEN "entered" ELSE pc
  /\ UNCHANGED <<step, pending, seen>>

GameReads == GameRuns /\ readQueued /\ UNCHANGED task
GameWaits == GameRuns /\ readWaits(Game) /\ UNCHANGED task
GameEnds == GameRuns /\ task' \in {"done", "failed"} /\ UNCHANGED inputVars

GameTask == GameReads \/ GameWaits \/ GameEnds

Next == Driver \/ GameTask

\* Timers fire, the driver is resumed, and the game is always at some point through
\* with the keys it got: it reads on, waits or ends.
Fairness == WF_vars(Driver) /\ WF_vars(GameTask)

Spec == Init /\ [][Next]_vars /\ Fairness

-----------------------------------------------------------------------------
(* Properties *)

TypeOK ==
  /\ InputTypeOK
  /\ pc \in Pcs
  /\ step \in 0 .. Keys
  /\ pending \in {"none", "startup", "command"}
  /\ task \in {"none", "running", "done", "failed"}
  /\ seen \in Nat

\* A frame is captured, and the next key pressed, only when the game is at rest:
\* either everything it was called for is finished, or it waits for a key and none
\* is queued, so that the next key is the answer to that wait.  A new command never
\* starts beside one that is not finished.
CapturedAtRest ==
  pc \in {"capture", "push", "cancel"} =>
    IF pending = "none"
      THEN task = "done" /\ ~isWaitingInput
      ELSE task = "running" /\ isWaitingInput /\ inputQueue = <<>>

\* drainUntilInput() leaves no listener behind, however its race ended: one left
\* over would answer a later wait in its place.
NoListenerLeft == pc # "race" => waitListeners = {}

\* The replay comes to an end: no wait of the game is missed by the driver while it
\* awaits the next.
ReplayEnds == <>(pc \in {"returned", "threw"})

=============================================================================
