---------------------------- MODULE GameSession ----------------------------
(***************************************************************************)
(* The life of a NetHack page in the browser and of the characters played   *)
(* in it: boot and restore (allmain.js init, chargen.js restoreFromSave),   *)
(* the game loop and its autosaves (allmain.js), the ways a game ends       *)
(* (end.js, cmd.js, do.js), the death screen (chargen.js showGameOver),     *)
(* the S command (storage.js handleSave), the page's menu (nethack.js) and  *)
(* the page being closed, reloaded or killed at any moment.                 *)
(*                                                                         *)
(* JavaScript runs one task at a time, so an action here is what the code   *)
(* does between two awaits; the actions of the page, of the menu and the    *)
(* end of a compression interleave at the awaits.                           *)
(*                                                                         *)
(* The flag gameOver ends gameLoop(), not the step of the loop that set it: *)
(* a wait, an occupation or a canned command goes on and reads the next key *)
(* beside the prompts that ask the dead player what to show.                *)
(***************************************************************************)
EXTENDS Autosave

CONSTANTS
  MaxChar,   \* bound: characters created
  MaxTurn    \* bound: turns of one character

ASSUME BoundsAssumption == MaxChar \in Nat /\ MaxTurn \in Nat

VARIABLES
  saveKey,   \* localStorage: the text under 'menace-save'
  page,      \* where the page's main task is waiting
  offer,     \* saveData: what init() found and restoreFromSave() offers
  game,      \* the running game: its character, and the player turns it took
  gameOver,  \* game.gameOver
  endPrompt, \* game.pendingPrompt is one of the questions of really_done()
  born       \* history: how many characters were created

endVars == <<gameOver, endPrompt>>
vars == <<autosaveVars, saveKey, page, offer, game, endVars, born>>

NoGame == [char |-> 0, turn |-> 0]

\* The two places where gameLoop() has left its loop: on the death screen, and past it.
Left == {"tombstone", "ended"}

\* body.gameplay-active: set when a game starts, and taken away only when
\* showGameOver() returns.  The death screen is "disclosed" when it is a prompt of
\* really_done() that shows it, inside a step of the loop.
GameplayActive == {"input", "command", "dying", "over", "saved", "reloading",
                   "disclosed", "tombstone"}
Playing == GameplayActive \union {"ended"}
Booting == {"reset", "gunzip", "prompt", "declined", "chargen"}
Pages == Playing \union Booting \union {"closed"}

Init ==
  /\ autosaveKey = NoText /\ FreshPipeline
  /\ saveKey = NoText
  /\ page = "closed" /\ offer = NoText /\ game = NoGame
  /\ gameOver = FALSE /\ endPrompt = FALSE
  /\ born = 0

-----------------------------------------------------------------------------
(* Boot *)

\* init() looks for a game to continue: the manual save is preferred, the
\* autosave is the fallback; it is read before the await that decompresses it.
FindSave ==
  \/ /\ saveKey # NoText
     /\ page' = "prompt" /\ offer' = saveKey
  \/ /\ saveKey = NoText /\ autosaveKey # NoText
     /\ page' = "gunzip" /\ offer' = autosaveKey
  \/ /\ saveKey = NoText /\ autosaveKey = NoText
     /\ page' = "chargen" /\ UNCHANGED offer

OpenPage ==
  /\ page = "closed"
  /\ FindSave
  /\ UNCHANGED <<autosaveVars, saveKey, game, endVars, born>>

\* With ?clearLocalStorage in the URL, all that is stored goes before init() looks.
OpenCleared ==
  /\ page = "closed" /\ page' = "chargen"
  /\ saveKey' = NoText /\ autosaveKey' = NoText
  /\ UNCHANGED <<autosaveInFlight, autosavePending, autosaveCancelled, writers,
                 written, refused, scheduled, offer, game, endVars, born>>

\* With ?reset in the URL, handleReset() asks first.
OpenWithReset ==
  /\ page = "closed" /\ page' = "reset"
  /\ UNCHANGED <<autosaveVars, saveKey, offer, game, endVars, born>>

\* handleReset(), answer y: clearAllData(), and init() then finds nothing.
ConfirmReset ==
  /\ page = "reset" /\ page' = "chargen"
  /\ saveKey' = NoText /\ autosaveKey' = NoText
  /\ UNCHANGED <<autosaveInFlight, autosavePending, autosaveCancelled, writers,
                 written, refused, scheduled, offer, game, endVars, born>>

CancelReset ==
  /\ page = "reset"
  /\ FindSave
  /\ UNCHANGED <<autosaveVars, saveKey, game, endVars, born>>

\* loadAutosave() after its await.
LoadAutosaveDone ==
  /\ page = "gunzip" /\ page' = "prompt"
  /\ UNCHANGED <<autosaveVars, saveKey, offer, game, endVars, born>>

\* restoreFromSave(), answer y: the game continues from the offered state and
\* the manual save is deleted; the autosave is left alone.
RestoreFromSave ==
  /\ page = "prompt"
  /\ game' = buildSaveData(offer)
  /\ saveKey' = NoText
  /\ page' = "input" /\ offer' = NoText
  /\ UNCHANGED <<autosaveVars, endVars, born>>

\* restoreFromSave(), any other answer: "Save deleted." is shown first ...
DeclineRestore ==
  /\ page = "prompt" /\ page' = "declined" /\ offer' = NoText
  /\ UNCHANGED <<autosaveVars, saveKey, game, endVars, born>>

\* Mutant: init() forgets the autosave of the declined character.
DiscardSaves_manualOnly ==
  /\ page = "declined" /\ page' = "chargen"
  /\ saveKey' = NoText
  /\ UNCHANGED <<autosaveVars, offer, game, endVars, born>>

\* ... and back in init() deleteSave() and deleteAutosave() follow.
DiscardSaves ==
  /\ page = "declined" /\ page' = "chargen"
  /\ saveKey' = NoText
  /\ deleteAutosave
  /\ UNCHANGED <<offer, game, endVars, born>>

NewGame ==
  /\ page = "chargen" /\ born < MaxChar
  /\ born' = born + 1
  /\ game' = [char |-> born + 1, turn |-> 1]
  /\ page' = "input"
  /\ UNCHANGED <<autosaveVars, saveKey, offer, endVars>>

-----------------------------------------------------------------------------
(* The game loop *)

\* nhgetch() returns a key, or a continuation needs none, and the command runs:
\* it may take a player turn, however many moves of the game that is.  A step that
\* goes on after the game is over runs the commands of a dead hero, or hands the key
\* to the prompt; an occupation that ends or stops takes the prompt away.
RunCommand ==
  /\ page = "input" /\ page' = "command"
  /\ \E t \in {game.turn, game.turn + 1} :
       t <= MaxTurn /\ game' = [game EXCEPT !.turn = t]
  /\ endPrompt' \in {endPrompt, FALSE}
  /\ UNCHANGED <<autosaveVars, saveKey, offer, gameOver, born>>

\* The command returns to the loop, which asks for the next key: also a dead hero's,
\* when the step has a continuation or a canned command left.  After S the page is
\* about to go, and nothing but that is left to happen.
CommandReturns ==
  \/ page = "command" /\ page' = "input"
  \/ page = "saved" /\ ~gameOver /\ page' = "reloading"

\* renderAndAutosave() when it reaches its scheduleAutosave().
RenderAndAutosave ==
  /\ CommandReturns /\ ~gameOver
  /\ scheduleAutosave(game)
  /\ UNCHANGED <<saveKey, offer, game, endVars, born>>

\* renderAndAutosave() when it does not: the game is over, a topline message still
\* waits for its --More--, another screen owns the terminal, the caller asked for
\* none (travel steps), the command returned nothing, or it threw ("Program in
\* disorder").
RenderOnly ==
  /\ CommandReturns
  /\ UNCHANGED <<autosaveVars, saveKey, offer, game, endVars, born>>

\* The S command once confirmed: saveGame(), then half a second, then
\* window.location.reload(), which does not stop the command from returning.
\* When setItem throws the command just returns.
HandleSave ==
  /\ page = "command" /\ ~endPrompt /\ page' = "saved"
  /\ saveKey' = Stringify(buildSaveData(game), game.turn)
  /\ UNCHANGED <<autosaveVars, offer, game, endVars, born>>

-----------------------------------------------------------------------------
(* The end of a game *)

\* Hit points reach 0.  "You die..." is urgent and waits for the key of its --More--,
\* and done() may wait and ask ("Die?"), before the game is over.
HeroDies ==
  /\ page = "command" /\ page' = "dying"
  /\ UNCHANGED <<autosaveVars, saveKey, offer, game, endVars, born>>

\* done() lets the hero live: an amulet of life saving, or "Die?" answered n.
SaveLife ==
  /\ page = "dying" /\ page' = "command"
  /\ UNCHANGED <<autosaveVars, saveKey, offer, game, endVars, born>>

\* really_done(): gameOver = true and, unless the hero died with nothing,
\* maybeInstallPossessionsPrompt().  The command that killed the hero runs on.
ReallyDone ==
  /\ page = "dying" /\ page' = "command"
  /\ gameOver' = TRUE
  /\ endPrompt' \in BOOLEAN
  /\ UNCHANGED <<autosaveVars, saveKey, offer, game, born>>

\* The other places that set gameOver: they ask before, install no prompt, and their
\* command takes no time, so that the step ends with it.
QuitOrEscape ==
  /\ page = "command" /\ ~endPrompt /\ page' = "over"
  /\ gameOver' = TRUE
  /\ UNCHANGED <<autosaveVars, saveKey, offer, game, endPrompt, born>>

\* finishEndgameDisplay(): the last of the questions, or q to any, shows the death
\* screen from the prompt's onKey().  Only showGameOver()'s deleteSave() comes first.
FinishEndgame ==
  /\ page = "input" /\ endPrompt /\ page' = "disclosed"
  /\ endPrompt' = FALSE
  /\ saveKey' = NoText
  /\ UNCHANGED <<autosaveVars, offer, game, gameOver, born>>

\* Mutant: the death screen clears the manual save only.
ShowGameOver_manualOnly ==
  /\ gameOver /\ page \in {"command", "over", "saved"} /\ page' = "tombstone"
  /\ saveKey' = NoText
  /\ UNCHANGED <<autosaveVars, offer, game, endVars, born>>

\* The step ends and gameLoop() leaves its loop: deleteAutosave() and, before any
\* await, deleteSave() at the top of showGameOver().
ShowGameOver ==
  /\ gameOver /\ page \in {"command", "over", "saved"} /\ page' = "tombstone"
  /\ deleteAutosave
  /\ saveKey' = NoText
  /\ UNCHANGED <<offer, game, endVars, born>>

\* showGameOver() returns, after "Play again?".  If a prompt had called it, the step
\* ends only now: deleteAutosave(), and gameLoop()'s own showGameOver() does nothing.
GameOverShown ==
  /\ page' = "ended"
  /\ \/ page = "tombstone" /\ UNCHANGED autosaveVars
     \/ page = "disclosed" /\ deleteAutosave
  /\ UNCHANGED <<saveKey, offer, game, endVars, born>>

-----------------------------------------------------------------------------
(* Beside the main task *)

\* A compression ends.
GzipDone ==
  /\ \E text \in writers : gzipDone(text, game.turn)
  /\ UNCHANGED <<saveKey, page, offer, game, endVars, born>>

\* Menu, "Save & quit", enabled while gameplay-active: saveGame(), whatever the
\* main task is waiting for.  The attract mode that should follow does not stop the
\* game (PageInput models what the two readers of the keyboard do to each other).
SaveAndQuit ==
  /\ page \in GameplayActive
  /\ saveKey' = Stringify(buildSaveData(game), game.turn)
  /\ UNCHANGED <<autosaveVars, page, offer, game, endVars, born>>

\* The page goes away: closed, reloaded (after S, "Play again?", the attract
\* mode), or the browser dies.  localStorage survives, everything else is lost.
LeavePage ==
  /\ page' = "closed" /\ offer' = NoText /\ game' = NoGame
  /\ gameOver' = FALSE /\ endPrompt' = FALSE
  /\ autosaveInFlight' = FALSE /\ autosavePending' = NoCapture
  /\ autosaveCancelled' = FALSE /\ writers' = {}
  /\ written' = 0 /\ refused' = 0 /\ scheduled' = 0
  /\ UNCHANGED <<autosaveKey, born>>

Unload ==
  /\ page # "closed"
  /\ LeavePage
  /\ UNCHANGED saveKey

\* Menu, "New game": deleteSave(), then reload.  The autosave stays.
MenuNewGame ==
  /\ page # "closed"
  /\ LeavePage
  /\ saveKey' = NoText

Next ==
  \/ OpenPage \/ OpenCleared \/ OpenWithReset \/ ConfirmReset \/ CancelReset
  \/ LoadAutosaveDone \/ RestoreFromSave \/ DeclineRestore \/ DiscardSaves \/ NewGame
  \/ RunCommand \/ RenderAndAutosave \/ RenderOnly \/ HandleSave
  \/ HeroDies \/ SaveLife \/ ReallyDone \/ QuitOrEscape
  \/ FinishEndgame \/ ShowGameOver \/ GameOverShown
  \/ GzipDone \/ SaveAndQuit \/ Unload \/ MenuNewGame

\* The browser finishes every compression of a page that stays open.  Nothing is
\* assumed of the player, who may leave any prompt unanswered.
Fairness == WF_vars(GzipDone)

Spec == Init /\ [][Next]_vars /\ Fairness

-----------------------------------------------------------------------------
(* Properties *)

TypeOK ==
  /\ AutosaveTypeOK
  /\ saveKey \in Text /\ offer \in Text
  /\ page \in Pages
  /\ game \in Capture
  /\ gameOver \in BOOLEAN /\ endPrompt \in BOOLEAN
  /\ born \in Nat

\* At most one snapshot is being compressed and one waits, whatever the turns and
\* the compressions do; they stand in the order they were captured in, after what
\* was written and not ahead of the game, so no write replaces a newer one.
OneInFlightOneWaiting ==
  /\ \A v, w \in writers : v = w
  /\ autosaveInFlight <=> writers # {}
  /\ autosavePending # NoCapture => autosaveInFlight
  /\ \A w \in writers :
       /\ written <= w.turn /\ w.turn <= game.turn
       /\ autosavePending # NoCapture =>
            w.turn <= autosavePending.turn /\ autosavePending.turn <= game.turn

\* Replacing the waiting snapshot never forgets the latest one: it is waiting, or
\* being compressed, or written, or it is itself the one that storage refused.  So a
\* crash loses no more than the pipeline holds and storage has no room for.
LatestSnapshotKept ==
  ~autosaveCancelled =>
    \/ autosavePending # NoCapture /\ autosavePending.turn = scheduled
    \/ autosavePending = NoCapture /\ \E w \in writers : w.turn = scheduled
    \/ writers = {} /\ scheduled \in {written, refused}

\* A text that waited before it was made mixes two turns, that of its capture and the
\* later one of its flags and timeouts.  But it is made before the next snapshot is
\* captured: what is written over the stored text is as new in every part of it, and
\* no part of the stored game goes back.  What S and the menu store never mixes.
TextsDoNotOverlap ==
  /\ \A w \in writers :
       /\ w.turn <= w.refs /\ w.refs <= game.turn
       /\ autosavePending # NoCapture => w.refs <= autosavePending.turn
  /\ written > 0 /\ autosaveKey # NoText =>
       /\ autosaveKey.turn <= autosaveKey.refs /\ autosaveKey.refs <= game.turn
       /\ \A w \in writers : autosaveKey.refs <= w.turn
  /\ saveKey.refs = saveKey.turn

\* Once gameLoop() has left its loop no autosave exists, and neither a compression that
\* was running then nor a snapshot that waited brings one back, whichever of the loop
\* and the prompts showed the death screen.  (On the one the prompts show, inside a
\* step, it still exists: NoAutosaveOnDeathScreen in DocClaims.)
NoAutosaveAfterGame == page \in Left => autosaveKey = NoText

\* The browser holds one character at a time: what is stored, offered, compressed,
\* waiting or played always belongs to the last one created.  A character that was
\* declined or reset away is never met again.
OneCharacter ==
  /\ \A t \in {saveKey, autosaveKey, offer} \union writers :
       t # NoText => t.char = born
  /\ \A g \in {game, autosavePending} : g # NoGame => g.char = born

\* The detailed pipeline, read as the copy it maintains, is CrashRecovery.
Phase ==
  CASE page = "closed" -> "off"
    [] page \in Booting -> "boot"
    [] page \in Left -> "done"
    [] OTHER -> "live"

CR == INSTANCE CrashRecovery WITH
        phase <- Phase, char <- game.char, turn <- game.turn, landed <- written,
        copy <- [char |-> autosaveKey.char, turn |-> autosaveKey.turn]

RefinesCrashRecovery == CR!Spec

\* While the page stays open and the game goes on, a snapshot that waits is offered to
\* storage, or a newer one is, even if storage refused the one before it.
WaitingSnapshotLands ==
  \A t \in 1 .. MaxTurn :
    autosavePending.turn = t ~>
      (written >= t \/ refused >= t \/ page \in Left \union {"closed"})

=============================================================================
