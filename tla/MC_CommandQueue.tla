-------------------------- MODULE MC_CommandQueue ---------------------------
(***************************************************************************)
(* CommandQueue on a small instance: two prefixes, so that a chain can go   *)
(* on behind one or the other, two plain keys, one of which is the letter   *)
(* of the pick-axe (and a command when it is typed as one), and one         *)
(* extended command that records itself.  A record of four nodes holds a    *)
(* chain, a command, and two answers.                                       *)
(***************************************************************************)
EXTENDS CommandQueue

MC_Prefixes == {"F", "m"}
MC_Plain == {"b", "s"}
MC_ExtFns == {"pray"}

=============================================================================
