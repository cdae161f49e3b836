----------------------------- MODULE DocClaims -----------------------------
(***************************************************************************)
(* What docs/AUTOSAVE.md and a comment of js/allmain.js say of the stored   *)
(* game and the code does not do.                                           *)
(* Each is a formula of GameSession that TLC refutes; the counterexample is *)
(* the sequence of steps that reaches the disagreement.                     *)
(***************************************************************************)
EXTENDS MC_GameSession

\* docs/AUTOSAVE.md:48: "The only rule: delete the autosave synchronously on
\* death", and :193 "Death integrity enforced by deleteSave()".  On the death
\* screen no stored game is left, neither autosave nor save.
NothingStoredOnDeathScreen ==
  page = "tombstone" => saveKey = NoText /\ autosaveKey = NoText

\* js/allmain.js:2514: "delete autosave synchronously before any await so a tab close
\* at the death screen cannot restore a dead character".  Whoever shows the death
\* screen, no autosave is left behind it.
NoAutosaveOnDeathScreen ==
  page \in {"tombstone", "disclosed"} => autosaveKey = NoText

=============================================================================
