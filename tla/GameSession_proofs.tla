------------------------- MODULE GameSession_proofs -------------------------
(***************************************************************************)
(* Theorems about GameSession, for every number of characters and turns and *)
(* whether or not storage may fail.  Inv is the inductive invariant: what   *)
(* the page holds at each point of its life (At...), and the order of the   *)
(* snapshots under way, which the invariants checked by TLC follow from.    *)
(***************************************************************************)
EXTENDS GameSession, TLAPS

\* A stored text is absent or the last character's.
Stored(t) == t = NoText \/ (t.char = born /\ born > 0)

AtStored == Stored(saveKey) /\ Stored(autosaveKey) /\ Stored(offer)

\* Where a game is offered, and where none is left.
AtBoot ==
  /\ page \in {"gunzip", "prompt"} <=> offer # NoText
  /\ page = "chargen" => saveKey = NoText /\ autosaveKey = NoText

\* The pipeline is at rest, and no game runs, on a page that is not playing.
AtRest ==
  page \notin Playing =>
    /\ writers = {} /\ ~autosaveInFlight /\ autosavePending = NoCapture
    /\ written = 0 /\ scheduled = 0 /\ game = NoGame

\* A game that runs is the last character's, and so is all that is under way.
AtPlay ==
  page \in Playing =>
    /\ game.char = born /\ born > 0
    /\ \A w \in writers : w.char = born
    /\ autosavePending # NoCapture => autosavePending.char = born

\* Only after gameLoop() has left its loop can a compression go on although its autosave
\* was deleted.
AtDeath ==
  /\ autosaveCancelled /\ writers # {} => page \in Left
  /\ page \in Left =>
       autosaveCancelled /\ autosavePending = NoCapture /\ autosaveKey = NoText

Inv ==
  /\ TypeOK
  /\ AtStored /\ AtBoot /\ AtRest /\ AtPlay /\ AtDeath
  /\ OneInFlightOneWaiting /\ written <= game.turn

-----------------------------------------------------------------------------

\* A first visit: nothing stored, nothing running.
LEMMA InitInv == Init => Inv
<1> SUFFICES ASSUME Init PROVE Inv
  OBVIOUS
<1> USE DEF Init, FreshPipeline, NoText, NoCapture, NoGame, Text, Capture,
        Pages, Playing, GameplayActive, Left, Booting
<1>1. TypeOK
  BY DEF TypeOK, AutosaveTypeOK
<1>2. AtStored /\ AtBoot /\ AtRest /\ AtPlay /\ AtDeath
  BY DEF AtStored, Stored, AtBoot, AtRest, AtPlay, AtDeath
<1>3. OneInFlightOneWaiting /\ written <= game.turn
  BY DEF OneInFlightOneWaiting
<1>4. QED
  BY <1>1, <1>2, <1>3 DEF Inv

\* The conjuncts of Inv hold each other up: for example a compression that ends keeps
\* OneInFlightOneWaiting because it was the only one and the game is the one it saved.
LEMMA NextInv == Inv /\ [Next]_vars => Inv'
<1> SUFFICES ASSUME Inv, [Next]_vars PROVE Inv'
  OBVIOUS
<1> USE DEF Inv, TypeOK, AutosaveTypeOK, AtStored, Stored, AtBoot, AtRest, AtPlay,
        AtDeath, OneInFlightOneWaiting, NoText, NoCapture, NoGame, Text, Capture,
        Pages, Playing, GameplayActive, Left, Booting, autosaveVars, endVars
<1>1. CASE OpenPage
  BY <1>1 DEF OpenPage, FindSave
<1>2. CASE OpenWithReset
  BY <1>2 DEF OpenWithReset
<1>3. CASE ConfirmReset
  BY <1>3 DEF ConfirmReset
<1>4. CASE CancelReset
  BY <1>4 DEF CancelReset, FindSave
<1>5. CASE LoadAutosaveDone
  BY <1>5 DEF LoadAutosaveDone
<1>6. CASE RestoreFromSave
  BY <1>6 DEF RestoreFromSave, buildSaveData
<1>7. CASE DeclineRestore
  BY <1>7 DEF DeclineRestore
<1>8. CASE DiscardSaves
  BY <1>8 DEF DiscardSaves, deleteAutosave
<1>9. CASE NewGame
  BY <1>9, BoundsAssumption DEF NewGame
<1>10. CASE RunCommand
  <2>1. /\ game'.char = game.char /\ game'.turn \in Nat /\ game.turn <= game'.turn
        /\ game' \in Capture
    <3> PICK t \in {game.turn, game.turn + 1} : game' = [game EXCEPT !.turn = t]
      BY <1>10 DEF RunCommand
    <3> QED OBVIOUS
  <2>2. UNCHANGED <<autosaveVars, saveKey, offer, gameOver, born>>
    BY <1>10 DEF RunCommand
  <2>3. page = "input" /\ page' = "command" /\ endPrompt' \in BOOLEAN
    BY <1>10 DEF RunCommand
  <2>4. TypeOK'
    BY <2>1, <2>2, <2>3
  <2>5. (AtStored /\ AtBoot /\ AtRest /\ AtPlay /\ AtDeath)'
    BY <2>1, <2>2, <2>3
  <2>6. OneInFlightOneWaiting' /\ written' <= game'.turn
    BY <2>1, <2>2
  <2>7. QED
    BY <2>4, <2>5, <2>6
<1>11. CASE RenderAndAutosave
  <2> USE <1>11 DEF RenderAndAutosave, CommandReturns, scheduleAutosave, runAutosave, buildSaveData, Stringify
  <2>1. CASE autosaveInFlight
    <3>1. TypeOK'
      BY <2>1
    <3>2. AtStored'
      BY <2>1
    <3>3. AtBoot'
      BY <2>1
    <3>4. AtRest'
      BY <2>1
    <3>5. AtPlay'
      BY <2>1
    <3>6. AtDeath'
      BY <2>1
    <3>7. OneInFlightOneWaiting'
      BY <2>1
    <3>8. QED
      BY <3>1, <3>2, <3>3, <3>4, <3>5, <3>6, <3>7
  <2>2. CASE ~autosaveInFlight
    <3> DEFINE text == Stringify(buildSaveData(game), game.turn)
    <3>1. /\ text \in Text /\ text.char = born /\ text.turn = game.turn
          /\ writers' = {text} /\ autosaveInFlight'
          /\ autosavePending' = NoCapture /\ written' = written /\ game' = game
      BY <2>2
    <3> HIDE DEF text
    <3>2. TypeOK'
      BY <2>2, <3>1
    <3>3. (AtStored /\ AtBoot /\ AtRest /\ AtPlay /\ AtDeath)'
      BY <2>2, <3>1
    <3>4. OneInFlightOneWaiting'
      BY <3>1
    <3>5. QED
      BY <3>1, <3>2, <3>3, <3>4
  <2>3. QED
    BY <2>1, <2>2
<1>12. CASE RenderOnly
  BY <1>12 DEF RenderOnly, CommandReturns
<1>13. CASE HandleSave
  BY <1>13 DEF HandleSave, Stringify, buildSaveData
<1>14. CASE HeroDies
  BY <1>14 DEF HeroDies
<1>15. CASE SaveLife
  BY <1>15 DEF SaveLife
<1>16. CASE ReallyDone
  BY <1>16 DEF ReallyDone
<1>17. CASE QuitOrEscape
  BY <1>17 DEF QuitOrEscape
<1>18. CASE ShowGameOver
  BY <1>18 DEF ShowGameOver, deleteAutosave
<1>19. CASE GzipDone
  <2>1. PICK text \in writers : gzipDone(text, game.turn)
    BY <1>19 DEF GzipDone, gzipDone
  <2>2. writers = {text} /\ page \in Playing /\ written' <= game.turn /\ written' \in Nat
    BY <2>1 DEF gzipDone, WriteAutosave
  <2>3. AtStored'
    BY <1>19, <2>1, <2>2 DEF GzipDone, gzipDone, WriteAutosave
  <2>4. CASE autosavePending # NoCapture /\ ~autosaveCancelled
    <3> DEFINE next == Stringify(autosavePending, game.turn)
    <3>1. /\ next \in Text /\ next.char = born /\ next.turn = autosavePending.turn
          /\ writers' = {next} /\ autosaveInFlight' /\ autosavePending' = NoCapture
      BY <2>1, <2>2, <2>4 DEF gzipDone, runAutosave, Stringify
    <3>2. written' <= next.turn /\ next.turn <= game.turn
      BY <2>1, <2>2, <2>4, <3>1 DEF gzipDone, WriteAutosave
    <3> HIDE DEF next
    <3>3. TypeOK'
      BY <1>19, <2>1, <2>2, <3>1 DEF GzipDone, gzipDone, WriteAutosave
    <3>4. (AtBoot /\ AtRest /\ AtPlay /\ AtDeath)'
      BY <1>19, <2>1, <2>2, <2>4, <3>1 DEF GzipDone, gzipDone, WriteAutosave
    <3>5. OneInFlightOneWaiting'
      BY <1>19, <3>1, <3>2 DEF GzipDone
    <3>6. QED
      BY <1>19, <2>2, <2>3, <3>3, <3>4, <3>5 DEF GzipDone
  <2>5. CASE autosavePending = NoCapture \/ autosaveCancelled
    <3>1. writers' = {} /\ ~autosaveInFlight' /\ autosaveInFlight' \in BOOLEAN
      BY <2>1, <2>2, <2>5 DEF gzipDone
    <3>2. autosavePending = NoCapture /\ autosavePending' = NoCapture
      BY <2>1, <2>2, <2>5 DEF gzipDone
    <3>3. TypeOK'
      BY <1>19, <2>1, <2>2, <3>1, <3>2 DEF GzipDone, gzipDone, WriteAutosave
    <3>4. (AtBoot /\ AtRest /\ AtPlay /\ AtDeath)'
      BY <1>19, <2>1, <2>2, <3>1, <3>2 DEF GzipDone, gzipDone, WriteAutosave
    <3>5. OneInFlightOneWaiting'
      BY <3>1, <3>2
    <3>6. QED
      BY <1>19, <2>2, <2>3, <3>3, <3>4, <3>5 DEF GzipDone
  <2>6. QED
    BY <2>4, <2>5
<1>20. CASE SaveAndQuit
  BY <1>20 DEF SaveAndQuit, Stringify, buildSaveData
<1>21. CASE Unload
  <2> USE <1>21 DEF Unload, LeavePage
  <2>1. TypeOK'
    OBVIOUS
  <2>2. AtStored'
    OBVIOUS
  <2>3. AtBoot'
    OBVIOUS
  <2>4. AtRest'
    OBVIOUS
  <2>5. AtPlay'
    OBVIOUS
  <2>6. AtDeath'
    OBVIOUS
  <2>7. OneInFlightOneWaiting'
    OBVIOUS
  <2>8. QED
    BY <2>1, <2>2, <2>3, <2>4, <2>5, <2>6, <2>7
<1>22. CASE MenuNewGame
  <2> USE <1>22 DEF MenuNewGame, LeavePage
  <2>1. TypeOK'
    OBVIOUS
  <2>2. AtStored'
    OBVIOUS
  <2>3. AtBoot'
    OBVIOUS
  <2>4. AtRest'
    OBVIOUS
  <2>5. AtPlay'
    OBVIOUS
  <2>6. AtDeath'
    OBVIOUS
  <2>7. OneInFlightOneWaiting'
    OBVIOUS
  <2>8. QED
    BY <2>1, <2>2, <2>3, <2>4, <2>5, <2>6, <2>7
<1>23. CASE OpenCleared
  BY <1>23 DEF OpenCleared
<1>24. CASE FinishEndgame
  BY <1>24 DEF FinishEndgame
\* From "disclosed" it deletes the autosave, from "tombstone" it was gone already.
<1>25. CASE GameOverShown
  <2>1. CASE page = "tombstone"
    BY <1>25, <2>1 DEF GameOverShown
  <2>2. CASE page = "disclosed"
    BY <1>25, <2>2 DEF GameOverShown, deleteAutosave
  <2>3. QED
    BY <1>25, <2>1, <2>2 DEF GameOverShown
<1>26. CASE UNCHANGED vars
  BY <1>26 DEF vars
<1>27. QED
  BY <1>1, <1>2, <1>3, <1>4, <1>5, <1>6, <1>7, <1>8, <1>9, <1>10, <1>11,
     <1>12, <1>13, <1>14, <1>15, <1>16, <1>17, <1>18, <1>19, <1>20, <1>21,
     <1>22, <1>23, <1>24, <1>25, <1>26 DEF Next

\* Inv is an invariant of every session.
LEMMA SpecInv == Spec => []Inv
  BY InitInv, NextInv, PTL DEF Spec

\* Every variable keeps its type, whatever the page, the player and the storage do.
THEOREM TypeCorrect == Spec => []TypeOK
<1>1. Inv => TypeOK
  BY DEF Inv
<1>2. QED
  BY <1>1, SpecInv, PTL

\* The autosave never has more than one compression going and one snapshot waiting,
\* in capture order, after what it wrote and not ahead of the game.
THEOREM PipelineBounded == Spec => []OneInFlightOneWaiting
<1>1. Inv => OneInFlightOneWaiting
  BY DEF Inv
<1>2. QED
  BY <1>1, SpecInv, PTL

\* Whoever showed the death screen, once gameLoop() has left its loop the autosave is
\* gone, and a compression that ends later brings none back.
THEOREM NothingComesBack == Spec => []NoAutosaveAfterGame
<1>1. Inv => NoAutosaveAfterGame
  BY DEF Inv, AtDeath, NoAutosaveAfterGame
<1>2. QED
  BY <1>1, SpecInv, PTL

\* All that the browser stores, offers, compresses or plays is the last character's.
THEOREM OneCharacterOnly == Spec => []OneCharacter
<1>1. Inv => OneCharacter
  <2> SUFFICES ASSUME Inv PROVE OneCharacter
    OBVIOUS
  <2> USE DEF Inv, TypeOK, NoText, NoCapture, NoGame
  <2>1. \A t \in {saveKey, autosaveKey, offer} : t # NoText => t.char = born
    BY DEF AtStored, Stored
  <2>2. \A t \in writers : t.char = born
    BY DEF AtRest, AtPlay
  <2>3. \A g \in {game, autosavePending} : g # NoGame => g.char = born
    BY DEF AtRest, AtPlay
  <2>4. QED
    BY <2>1, <2>2, <2>3 DEF OneCharacter
<1>2. QED
  BY <1>1, SpecInv, PTL

-----------------------------------------------------------------------------
(* The latest snapshot *)

\* LatestSnapshotKept needs Inv: a schedule while a compression goes on must find
\* a game that is no null, and a compression that ends must be the only one.
LEMMA NextKept == Inv /\ LatestSnapshotKept /\ [Next]_vars => LatestSnapshotKept'
<1> SUFFICES ASSUME Inv, LatestSnapshotKept, [Next]_vars, ~autosaveCancelled'
             PROVE  \/ autosavePending' # NoCapture /\ autosavePending'.turn = scheduled'
                    \/ autosavePending' = NoCapture /\ \E w \in writers' : w.turn = scheduled'
                    \/ writers' = {} /\ scheduled' \in {written', refused'}
  BY DEF LatestSnapshotKept
<1>1. CASE UNCHANGED <<autosavePending, autosaveCancelled, writers, written, refused, scheduled>>
  BY <1>1 DEF LatestSnapshotKept
<1>2. CASE RenderAndAutosave
  <2>1. game.char > 0
    BY <1>2 DEF RenderAndAutosave, CommandReturns, Inv, AtPlay, Playing, GameplayActive, TypeOK
  <2>2. CASE autosaveInFlight
    BY <1>2, <2>1, <2>2 DEF RenderAndAutosave, CommandReturns, scheduleAutosave, buildSaveData, NoCapture
  <2>3. CASE ~autosaveInFlight
    <3>1. autosavePending' = NoCapture
      BY <1>2, <2>3 DEF RenderAndAutosave, CommandReturns, scheduleAutosave, Inv, OneInFlightOneWaiting
    <3>2. Stringify(buildSaveData(game), game.turn) \in writers'
      BY <1>2, <2>3 DEF RenderAndAutosave, CommandReturns, scheduleAutosave, runAutosave
    <3>3. QED
      BY <1>2, <3>1, <3>2 DEF RenderAndAutosave, CommandReturns, scheduleAutosave, buildSaveData, Stringify
  <2>4. QED
    BY <2>2, <2>3
<1>3. CASE GzipDone
  <2>1. PICK text \in writers : gzipDone(text, game.turn)
    BY <1>3 DEF GzipDone, gzipDone
  <2>2. writers = {text} /\ ~autosaveCancelled /\ scheduled' = scheduled
    BY <2>1 DEF gzipDone, Inv, OneInFlightOneWaiting
  <2>3. CASE autosavePending # NoCapture
    <3>1. autosavePending.turn = scheduled
      BY <2>2, <2>3 DEF LatestSnapshotKept
    <3>2. autosavePending' = NoCapture /\ Stringify(autosavePending, game.turn) \in writers'
      BY <2>1, <2>3 DEF gzipDone, runAutosave
    <3>3. QED
      BY <2>2, <3>1, <3>2 DEF Stringify
  <2>4. CASE autosavePending = NoCapture
    BY <2>1, <2>2, <2>4 DEF gzipDone, WriteAutosave, LatestSnapshotKept
  <2>5. QED
    BY <2>3, <2>4
<1>4. CASE LeavePage
  BY <1>4 DEF LeavePage
<1>5. QED
  BY <1>1, <1>2, <1>3, <1>4 DEF Next, vars, autosaveVars, endVars, OpenPage, OpenCleared,
     OpenWithReset, ConfirmReset, CancelReset, LoadAutosaveDone, RestoreFromSave, DeclineRestore,
     DiscardSaves, NewGame, RunCommand, RenderOnly, HandleSave, HeroDies, SaveLife,
     ReallyDone, QuitOrEscape, FinishEndgame, ShowGameOver, GameOverShown, deleteAutosave,
     SaveAndQuit, Unload, MenuNewGame

\* Replacing the waiting snapshot loses none that matters: the latest one captured
\* waits, is being compressed, or was written or refused.
THEOREM LatestKept == Spec => []LatestSnapshotKept
<1>1. Init => LatestSnapshotKept
  BY DEF Init, FreshPipeline, LatestSnapshotKept
<1>2. QED
  BY <1>1, SpecInv, NextKept, PTL DEF Spec

-----------------------------------------------------------------------------
(* What a text mixes *)

LEMMA NextTexts == Inv /\ TextsDoNotOverlap /\ [Next]_vars => TextsDoNotOverlap'
<1> SUFFICES ASSUME Inv, TextsDoNotOverlap, [Next]_vars PROVE TextsDoNotOverlap'
  OBVIOUS
<1> USE DEF TextsDoNotOverlap
<1>1. CASE UNCHANGED <<autosaveKey, autosavePending, writers, written, game>>
            /\ saveKey'.refs = saveKey'.turn
  BY <1>1
<1>2. CASE LeavePage /\ saveKey' \in {saveKey, NoText}
  BY <1>2 DEF LeavePage, NoText
\* No page that starts a game, or has none, has written anything.
<1>3. CASE page \notin Playing /\ UNCHANGED <<writers, written>> /\ saveKey' \in {saveKey, NoText}
  BY <1>3 DEF Inv, AtRest, NoText
<1>4. CASE RunCommand
  <2>1. game.turn \in Nat /\ game'.turn \in Nat /\ game.turn <= game'.turn
    BY <1>4 DEF RunCommand, Inv, TypeOK, Capture
  <2>2. UNCHANGED <<autosaveKey, autosavePending, writers, written, saveKey>>
    BY <1>4 DEF RunCommand, autosaveVars
  <2>3. /\ autosaveKey.refs \in Nat /\ \A w \in writers : w.refs \in Nat
    BY DEF Inv, TypeOK, AutosaveTypeOK, Text
  <2> QED BY <2>1, <2>2, <2>3
<1>5. CASE RenderAndAutosave
  <2>1. /\ scheduleAutosave(game) /\ game.turn \in Nat
        /\ UNCHANGED <<autosaveKey, written, saveKey, game>>
    BY <1>5 DEF RenderAndAutosave, scheduleAutosave, Inv, TypeOK, Capture
  <2>2. CASE autosaveInFlight
    <3>1. writers' = writers /\ autosavePending'.turn = game.turn
      BY <2>1, <2>2 DEF scheduleAutosave, buildSaveData
    <3> QED BY <2>1, <3>1
  <2>3. CASE ~autosaveInFlight
    <3> DEFINE text == Stringify(buildSaveData(game), game.turn)
    <3>1. writers' = {text} /\ autosavePending' = NoCapture
      BY <2>1, <2>3 DEF scheduleAutosave, runAutosave, Inv, OneInFlightOneWaiting
    <3>2. text.turn = game.turn /\ text.refs = game.turn
      BY DEF Stringify, buildSaveData
    <3> HIDE DEF text
    <3> QED BY <2>1, <3>1, <3>2
  <2> QED BY <2>2, <2>3
<1>6. CASE ShowGameOver \/ GameOverShown
  BY <1>1, <1>6 DEF ShowGameOver, GameOverShown, deleteAutosave, autosaveVars, NoText
<1>7. CASE GzipDone
  <2>1. PICK text \in writers : gzipDone(text, game.turn)
    BY <1>7 DEF GzipDone, gzipDone
  <2>2. /\ writers = {text} /\ UNCHANGED <<saveKey, game>> /\ game.turn \in Nat
        /\ text.turn \in Nat /\ text.refs \in Nat /\ autosaveKey.refs \in Nat
        /\ autosavePending.turn \in Nat
    BY <1>7, <2>1 DEF GzipDone, gzipDone, Inv, OneInFlightOneWaiting, TypeOK,
       AutosaveTypeOK, Text, Capture
  <2>3. autosaveKey' = text \/ (autosaveKey' = autosaveKey /\ written' = written)
    BY <2>1 DEF gzipDone, WriteAutosave
  \* What is stored now is no newer than the text that was being compressed.
  <2>4. written' > 0 /\ autosaveKey' # NoText =>
          /\ autosaveKey'.turn <= autosaveKey'.refs /\ autosaveKey'.refs <= text.refs
          /\ autosaveKey'.refs <= game.turn
    BY <2>2, <2>3
  <2>5. CASE autosavePending # NoCapture /\ ~autosaveCancelled
    <3> DEFINE next == Stringify(autosavePending, game.turn)
    <3>1. writers' = {next} /\ autosavePending' = NoCapture
      BY <2>1, <2>2, <2>5 DEF gzipDone, runAutosave
    <3>2. /\ next.turn = autosavePending.turn /\ next.refs = game.turn
          /\ next.turn <= game.turn /\ text.refs <= next.turn
      BY <2>2, <2>5 DEF Stringify, Inv, OneInFlightOneWaiting
    <3>3. autosaveKey'.refs \in Nat
      BY <2>2, <2>3
    <3> HIDE DEF next
    <3> QED BY <2>2, <2>4, <3>1, <3>2, <3>3
  <2>6. CASE autosavePending = NoCapture \/ autosaveCancelled
    <3>1. writers' = {}
      BY <2>1, <2>2, <2>6 DEF gzipDone
    <3> QED BY <2>2, <2>4, <3>1
  <2> QED BY <2>5, <2>6
<1>8. CASE OpenPage \/ OpenCleared \/ OpenWithReset \/ ConfirmReset \/ CancelReset
           \/ LoadAutosaveDone \/ RestoreFromSave \/ DeclineRestore \/ DiscardSaves \/ NewGame
  BY <1>3, <1>8 DEF OpenPage, OpenCleared, OpenWithReset, ConfirmReset, CancelReset,
     LoadAutosaveDone, RestoreFromSave, DeclineRestore, DiscardSaves, NewGame,
     deleteAutosave, autosaveVars, Playing, GameplayActive
<1>9. CASE HandleSave \/ SaveAndQuit
  BY <1>1, <1>9 DEF HandleSave, SaveAndQuit, Stringify, buildSaveData, autosaveVars
<1>10. CASE \/ RenderOnly \/ HeroDies \/ SaveLife \/ ReallyDone \/ QuitOrEscape
            \/ FinishEndgame \/ UNCHANGED vars
  BY <1>1, <1>10 DEF RenderOnly, CommandReturns, HeroDies, SaveLife, ReallyDone,
     QuitOrEscape, FinishEndgame, autosaveVars, vars, NoText
<1>11. CASE Unload \/ MenuNewGame
  BY <1>2, <1>11 DEF Unload, MenuNewGame
<1> QED BY <1>4, <1>5, <1>6, <1>7, <1>8, <1>9, <1>10, <1>11 DEF Next

\* A text may mix two turns, but not beyond the capture of the next one: no write
\* takes any part of the stored game back.
THEOREM TextsInOrder == Spec => []TextsDoNotOverlap
<1>1. Init => TextsDoNotOverlap
  BY DEF Init, FreshPipeline, NoText, TextsDoNotOverlap
<1>2. QED
  BY <1>1, SpecInv, NextTexts, PTL DEF Spec

-----------------------------------------------------------------------------
(* The abstract specification *)

\* Every step maps to a step of the abstract copy or to none.  Only a compression that
\* ends needs the order of the snapshots and the state in which the game loop is left.
LEMMA NextRefines == Inv /\ Inv' /\ [Next]_vars => [CR!Next]_(CR!vars)
<1> SUFFICES ASSUME Inv, Inv', [Next]_vars PROVE CR!Next \/ UNCHANGED CR!vars
  OBVIOUS
<1> USE DEF Phase, Playing, GameplayActive, Left, Booting, CR!vars, CR!NoCopy, autosaveVars
<1>1. ASSUME OpenPage \/ OpenCleared \/ OpenWithReset PROVE CR!Load
  BY <1>1 DEF OpenPage, OpenCleared, OpenWithReset, FindSave, NoText, CR!Load
<1>2. ASSUME ConfirmReset \/ DiscardSaves PROVE CR!Discard
  BY <1>2 DEF ConfirmReset, DiscardSaves, deleteAutosave, NoText, CR!Discard
<1>3. ASSUME CancelReset \/ LoadAutosaveDone \/ DeclineRestore \/ RenderAndAutosave
             \/ RenderOnly \/ HandleSave \/ HeroDies \/ SaveLife \/ ReallyDone
             \/ QuitOrEscape \/ FinishEndgame \/ SaveAndQuit \/ UNCHANGED vars
      PROVE UNCHANGED CR!vars
  BY <1>3 DEF CancelReset, FindSave, LoadAutosaveDone, DeclineRestore, RenderAndAutosave,
     CommandReturns, scheduleAutosave, RenderOnly, HandleSave, HeroDies, SaveLife, ReallyDone, QuitOrEscape,
     FinishEndgame, SaveAndQuit, vars
<1>4. ASSUME RestoreFromSave PROVE CR!Begin
  <2>1. game'.char = born /\ Stored(autosaveKey) /\ game' \in Capture
    BY <1>4 DEF RestoreFromSave, buildSaveData, Inv, AtStored, AtBoot, Stored, TypeOK
  <2>2. QED
    BY <1>4, <2>1 DEF RestoreFromSave, Stored, NoText, Capture, CR!Begin
<1>5. ASSUME NewGame PROVE CR!Begin
  BY <1>5 DEF NewGame, Inv, AtBoot, NoText, TypeOK, CR!Begin
<1>6. ASSUME RunCommand PROVE CR!Play \/ UNCHANGED CR!vars
  BY <1>6 DEF RunCommand, Inv, TypeOK, Capture, CR!Play
<1>7. ASSUME ShowGameOver \/ GameOverShown PROVE CR!GameOver \/ UNCHANGED CR!vars
  BY <1>7 DEF ShowGameOver, GameOverShown, deleteAutosave, NoText, CR!GameOver
<1>8. ASSUME GzipDone PROVE CR!Land \/ UNCHANGED CR!vars
  <2>1. PICK text \in writers : WriteAutosave(text)
    BY <1>8 DEF GzipDone, gzipDone
  <2>2. CASE ~autosaveCancelled /\ autosaveKey' = text /\ written' = text.turn
    <3>1. page \notin {"closed"} \union Left \union Booting
      BY <2>1, <2>2 DEF Inv, AtRest, AtDeath
    <3>2. text.char = game.char
      BY <2>1, <3>1 DEF Inv, AtRest, AtPlay
    <3>3. text.turn \in written .. game.turn
      BY <2>1 DEF Inv, OneInFlightOneWaiting, TypeOK, AutosaveTypeOK, Text, Capture
    <3>4. QED
      BY <1>8, <2>2, <3>1, <3>2, <3>3 DEF GzipDone, CR!Land
  <2>3. CASE UNCHANGED <<autosaveKey, written>>
    BY <1>8, <2>3 DEF GzipDone
  <2>4. QED
    BY <2>1, <2>2, <2>3 DEF WriteAutosave
<1>9. ASSUME Unload \/ MenuNewGame PROVE CR!Unload
  BY <1>9 DEF Unload, MenuNewGame, LeavePage, NoGame, CR!Unload, CR!NotPlaying
<1>10. QED
  BY <1>1, <1>2, <1>3, <1>4, <1>5, <1>6, <1>7, <1>8, <1>9 DEF Next, CR!Next

\* The session, read as the copy it maintains, does what CrashRecovery allows: a copy
\* moves forward only, is the running game's, and goes when the game loop has ended.
THEOREM ImplementsCrashRecovery == Spec => RefinesCrashRecovery
<1>1. Init => CR!Init
  BY DEF Init, FreshPipeline, NoText, NoGame, Phase, Left, Booting, CR!Init, CR!NoCopy
<1>2. QED
  BY <1>1, SpecInv, NextRefines, PTL DEF Spec, RefinesCrashRecovery, CR!Spec

=============================================================================
