-------------------------- MODULE MC_ReplayDriver --------------------------
(* ReplayDriver for TLC: one game, two chargen keys and three session keys. *)
EXTENDS ReplayDriver

MCReaders == {"game"}

=============================================================================
