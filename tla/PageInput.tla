----------------------------- MODULE PageInput -----------------------------
(***************************************************************************)
(* Who reads keys in the browser page: the game loop (allmain.js gameLoop,  *)
(* _gameLoopStep and their nhgetch() calls), and the attract mode that the  *)
(* menu's "Save & quit" starts beside it (nethack.js _saveAndQuit, promo.js *)
(* run).  Both read the one queue that keydown fills (browser_input.js).    *)
(*                                                                         *)
(* A key press, a click and the end of an animation delay are tasks of the  *)
(* browser: they come only when every reader waits for one of them.  All    *)
(* else is microtasks, which run before the browser does anything.          *)
(***************************************************************************)
EXTENDS InputQueue

CONSTANTS
  Loop, Promo,   \* the two readers
  MaxKeys        \* bound: keys pressed

ASSUME PageAssumption ==
  /\ Readers = {Loop, Promo} /\ Loop # Promo
  /\ MaxKeys \in Nat

VARIABLES
  loop,    \* where the game loop is
  promo    \* the attract mode: "off", "reading", or "left" when it reloads the page

vars == <<inputVars, loop, promo>>

Init ==
  /\ InputInit
  /\ loop = "ask" /\ promo = "off"

\* The browser gets to its next task, and the page is still there.
BrowserTask == loop \in {"reading", "answering", "delay"} /\ promo # "left"

\* Microtasks of the loop go on.
LoopRuns == loop \in {"ask", "command", "recovering"} /\ promo # "left"

-----------------------------------------------------------------------------
(* The browser *)

\* A key: whoever waits gets it; the attract mode reloads the page.
Keydown ==
  /\ BrowserTask /\ typed < MaxKeys
  /\ pushInput
  /\ loop' = IF inputResolver = Loop THEN "command" ELSE loop
  /\ promo' = IF inputResolver = Promo THEN "left" ELSE promo

\* An animation delay of the command is over.
DelayEnds ==
  /\ BrowserTask /\ loop = "delay"
  /\ loop' = "command"
  /\ UNCHANGED <<inputVars, promo>>

\* Menu, "Save & quit": when the game waits for a key, the attract mode's own read
\* throws and that is the end of it; when it is in a delay, the attract mode waits,
\* or takes a key that was typed ahead.
SaveAndQuit ==
  /\ BrowserTask
  /\ \/ readConcurrent(Promo) /\ UNCHANGED promo
     \/ readWaits(Promo) /\ promo' = "reading"
     \/ readQueued /\ promo' = "left"
  /\ UNCHANGED loop

-----------------------------------------------------------------------------
(* The game loop *)

\* _gameLoopStep() asks for the key of the next command, or goes on with a command
\* that takes several turns.
AskForCommand ==
  /\ LoopRuns /\ loop = "ask"
  /\ \/ readWaits(Loop) /\ loop' = "reading"
     \/ readQueued /\ loop' = "command"
     \/ readConcurrent(Loop) /\ loop' = "recovering"
  /\ UNCHANGED promo

Continue ==
  /\ LoopRuns /\ loop = "ask" /\ loop' = "command"
  /\ UNCHANGED <<inputVars, promo>>

\* A command asks for a direction, an item, a --More-- (whose caller in display.js
\* goes on without an answer when the read throws) ...
AskInCommand ==
  /\ LoopRuns /\ loop = "command"
  /\ \/ readWaits(Loop) /\ loop' = "answering"
     \/ readQueued /\ UNCHANGED loop
     \/ readConcurrent(Loop) /\ loop' \in {"recovering", "command"}
  /\ UNCHANGED promo

\* ... shows an animation, ends, or throws.
CommandGoesOn ==
  /\ LoopRuns /\ loop = "command"
  /\ loop' \in {"delay", "ask", "recovering"}
  /\ UNCHANGED <<inputVars, promo>>

\* Mutant: an error of the recovery itself ends the loop.
Recover_rethrows ==
  /\ LoopRuns /\ loop = "recovering"
  /\ \/ readWaits(Loop) /\ loop' = "reading"
     \/ readQueued /\ loop' = "ask"
     \/ readConcurrent(Loop) /\ loop' = "ended"
  /\ UNCHANGED promo

\* The catch of gameLoop(): "Program in disorder!", a key, and the next command.
\* When the read throws as well, the inner catch only logs it.
Recover ==
  /\ LoopRuns /\ loop = "recovering"
  /\ \/ readWaits(Loop) /\ loop' = "reading"
     \/ readQueued /\ loop' = "ask"
     \/ readConcurrent(Loop) /\ loop' = "ask"
  /\ UNCHANGED promo

LoopTask == AskForCommand \/ Continue \/ AskInCommand \/ CommandGoesOn \/ Recover

Next == Keydown \/ DelayEnds \/ SaveAndQuit \/ LoopTask

\* Microtasks run, timers fire, and a command that takes several turns has a last one,
\* after which the loop asks for a key; nobody has to press one.
Fairness == WF_vars(LoopTask) /\ WF_vars(DelayEnds) /\ SF_vars(AskForCommand)

Spec == Init /\ [][Next]_vars /\ Fairness

-----------------------------------------------------------------------------
(* Properties *)

PageTypeOK ==
  /\ InputTypeOK
  /\ loop \in {"ask", "reading", "command", "answering", "delay", "recovering"}
  /\ promo \in {"off", "reading", "left"}

\* Whoever waits for a key is the one the next key goes to: with two tasks reading
\* one queue, no read is ever left with a promise that nothing will resolve.
NoReadForgotten ==
  /\ loop \in {"reading", "answering"} <=> inputResolver = Loop
  /\ promo = "reading" <=> inputResolver = Promo

\* The comment in gameLoop()'s catch: "Show error on topline and let the player
\* continue."  After an error the player is asked for a key, sooner or later.
PlayerCanContinue ==
  loop = "recovering" ~> (loop \in {"reading", "answering", "delay"} \/ promo = "left")

=============================================================================
