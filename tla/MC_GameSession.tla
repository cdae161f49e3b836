--------------------------- MODULE MC_GameSession ---------------------------
(***************************************************************************)
(* GameSession on a small instance: two characters, so that one can outlive *)
(* the other in storage, and four turns, so that two snapshots can be under *)
(* way while the game is two turns further.                                 *)
(***************************************************************************)
EXTENDS GameSession

MC_MaxChar == 2
MC_MaxTurn == 4

=============================================================================
