------------------------------ MODULE Autosave ------------------------------
(***************************************************************************)
(* The crash-recovery autosave of js/storage.js: the module-level state of  *)
(* the pipeline and what its functions do to it.  A snapshot is captured    *)
(* synchronously, compressed asynchronously (CompressionStream) and written *)
(* to localStorage when the compression ends; deleteAutosave() may run in   *)
(* the gap.  The functions are operators here: the GameSession module calls *)
(* them from the game loop, the boot code and the end-of-game code.         *)
(*                                                                         *)
(* Data.  Of a saved game we keep the character it belongs to and the turn  *)
(* it was captured at.  buildSaveData() copies numbers, objects and map     *)
(* cells but keeps REFERENCES to game.flags and to the entries of u.uprops  *)
(* (property timeouts): the text written holds what those were when         *)
(* JSON.stringify ran.  The field refs is that moment.                      *)
(***************************************************************************)
EXTENDS Naturals

CONSTANT StorageMayFail     \* whether localStorage.setItem may throw (quota)

ASSUME StorageAssumption == StorageMayFail \in BOOLEAN

VARIABLES
  autosaveKey,        \* localStorage: the text under 'menace-autosave'
  autosaveInFlight,   \* _autosaveInFlight
  autosavePending,    \* _autosavePending: the one captured snapshot that waits
  autosaveCancelled,  \* _autosaveCancelled
  writers,            \* texts held by the _runAutosave() calls now compressing
  written,            \* history: turn of the last text this page wrote, or 0
  refused,            \* history: turn of the last text setItem refused, or 0
  scheduled           \* history: turn of the last snapshot it scheduled, or 0

autosaveVars == <<autosaveKey, autosaveInFlight, autosavePending,
                  autosaveCancelled, writers, written, refused, scheduled>>

\* A snapshot object in memory, and the JSON text made from one.
Capture == [char : Nat, turn : Nat]
NoCapture == [char |-> 0, turn |-> 0]          \* null
Text == [char : Nat, turn : Nat, refs : Nat]
NoText == [char |-> 0, turn |-> 0, refs |-> 0] \* the key is absent

buildSaveData(game) == [char |-> game.char, turn |-> game.turn]

\* JSON.stringify(snapshot) while the running game is at turn now.
Stringify(snapshot, now) ==
  [char |-> snapshot.char, turn |-> snapshot.turn, refs |-> now]

-----------------------------------------------------------------------------

\* What a fresh page starts with: the initial values of the module's variables.
FreshPipeline ==
  /\ autosaveInFlight = FALSE
  /\ autosavePending = NoCapture
  /\ autosaveCancelled = FALSE
  /\ writers = {}
  /\ written = 0 /\ refused = 0
  /\ scheduled = 0

\* Mutant: the snapshot object itself goes to the compression.
runAutosave_unserialized(snapshot, now, others) ==
  /\ autosaveInFlight' = TRUE
  /\ writers' = others \union {snapshot}

\* _runAutosave(snapshot) up to its await: stringify, hand the text to gzip.
\* others are the calls of _runAutosave() that are still compressing.
runAutosave(snapshot, now, others) ==
  /\ autosaveInFlight' = TRUE
  /\ writers' = others \union {Stringify(snapshot, now)}

\* Mutant: no look at _autosaveInFlight.
scheduleAutosave_always(game) ==
  /\ autosaveCancelled' = FALSE
  /\ runAutosave(buildSaveData(game), game.turn, writers)
  /\ scheduled' = game.turn
  /\ UNCHANGED <<autosaveKey, autosavePending, written, refused>>

\* Mutant: a snapshot that waits already is not replaced.
scheduleAutosave_keepFirst(game) ==
  /\ autosaveCancelled' = FALSE
  /\ \/ /\ autosaveInFlight
        /\ autosavePending' = IF autosavePending = NoCapture
                               THEN buildSaveData(game) ELSE autosavePending
        /\ UNCHANGED <<autosaveInFlight, writers>>
     \/ /\ ~autosaveInFlight
        /\ runAutosave(buildSaveData(game), game.turn, writers)
        /\ UNCHANGED autosavePending
  /\ scheduled' = game.turn
  /\ UNCHANGED <<autosaveKey, written, refused>>

\* scheduleAutosave(game).  Its two early returns never apply in a browser page:
\* storage is there, and flags.autosave is no option the page can set.
scheduleAutosave(game) ==
  /\ autosaveCancelled' = FALSE
  /\ \/ /\ autosaveInFlight
        /\ autosavePending' = buildSaveData(game)
        /\ UNCHANGED <<autosaveInFlight, writers>>
     \/ /\ ~autosaveInFlight
        /\ runAutosave(buildSaveData(game), game.turn, writers)
        /\ UNCHANGED autosavePending
  /\ scheduled' = game.turn
  /\ UNCHANGED <<autosaveKey, written, refused>>

\* Mutant: no look at _autosaveCancelled after the compression.
WriteAutosave_unchecked(text) ==
  \/ autosaveKey' = text /\ written' = text.turn /\ UNCHANGED refused
  \/ StorageMayFail /\ refused' = text.turn /\ UNCHANGED <<autosaveKey, written>>

\* The write at the end of _runAutosave(): skipped when the autosave was
\* deleted during the compression, and lost when setItem throws.
WriteAutosave(text) ==
  \/ /\ ~autosaveCancelled
     /\ autosaveKey' = text
     /\ written' = text.turn
     /\ UNCHANGED refused
  \/ /\ ~autosaveCancelled
     /\ StorageMayFail
     /\ refused' = text.turn
     /\ UNCHANGED <<autosaveKey, written>>
  \/ /\ autosaveCancelled
     /\ UNCHANGED <<autosaveKey, written, refused>>

\* Mutant: the finally block only clears _autosaveInFlight.
gzipDone_noDrain(text, now) ==
  /\ text \in writers
  /\ WriteAutosave(text)
  /\ autosaveInFlight' = FALSE
  /\ writers' = writers \ {text}
  /\ UNCHANGED <<autosavePending, autosaveCancelled, scheduled>>

\* Mutant: the snapshot that waited is still there when it is being compressed.
gzipDone_notCleared(text, now) ==
  /\ text \in writers
  /\ WriteAutosave(text)
  /\ \/ /\ autosavePending # NoCapture
        /\ ~autosaveCancelled
        /\ runAutosave(autosavePending, now, writers \ {text})
     \/ /\ autosavePending = NoCapture \/ autosaveCancelled
        /\ autosaveInFlight' = FALSE
        /\ writers' = writers \ {text}
  /\ UNCHANGED <<autosavePending, autosaveCancelled, scheduled>>

\* _runAutosave() from its await to its end: write, then the finally block
\* starts the snapshot that waits, if there is one.
gzipDone(text, now) ==
  /\ text \in writers
  /\ WriteAutosave(text)
  /\ \/ /\ autosavePending # NoCapture
        /\ ~autosaveCancelled
        /\ autosavePending' = NoCapture
        /\ runAutosave(autosavePending, now, writers \ {text})
     \/ /\ autosavePending = NoCapture \/ autosaveCancelled
        /\ autosaveInFlight' = FALSE
        /\ writers' = writers \ {text}
        /\ UNCHANGED autosavePending
  /\ UNCHANGED <<autosaveCancelled, scheduled>>

\* deleteAutosave()
deleteAutosave ==
  /\ autosavePending' = NoCapture
  /\ autosaveCancelled' = TRUE
  /\ autosaveKey' = NoText
  /\ UNCHANGED <<autosaveInFlight, writers, written, refused, scheduled>>

AutosaveTypeOK ==
  /\ autosaveKey \in Text
  /\ autosaveInFlight \in BOOLEAN
  /\ autosavePending \in Capture
  /\ autosaveCancelled \in BOOLEAN
  /\ writers \subseteq Text
  /\ written \in Nat /\ refused \in Nat /\ scheduled \in Nat

=============================================================================
