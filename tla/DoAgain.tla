------------------------------ MODULE DoAgain ------------------------------
(***************************************************************************)
(* What Ctrl+A promises, with no queue that is emptied and put back and no  *)
(* modes to switch: the last command is a record of keys; a repetition      *)
(* hears that record from its start, in order, never hears anything added   *)
(* meanwhile, and leaves it as it was, so that it can be repeated again.    *)
(***************************************************************************)
EXTENDS Sequences

CONSTANT Node    \* what a record is made of

VARIABLES
  record,      \* the last command and the keys it read
  repeating,   \* whether it is being repeated
  script       \* what the repetition has not heard yet

vars == <<record, repeating, script>>

Init == record = <<>> /\ repeating = FALSE /\ script = <<>>

\* Another command takes the place of the last one.
Begin ==
  /\ ~repeating
  /\ \E n \in Node : record' = <<n>>
  /\ UNCHANGED <<repeating, script>>

\* The command reads a key, or a prefix gets its command.
Extend ==
  /\ ~repeating
  /\ \E n \in Node : record' = Append(record, n)
  /\ UNCHANGED <<repeating, script>>

\* A repetition starts with the command itself.
Repeat ==
  /\ ~repeating /\ repeating' = TRUE
  /\ record # <<>> /\ script' = Tail(record)
  /\ UNCHANGED record

Hear ==
  /\ repeating
  /\ script # <<>> /\ script' = Tail(script)
  /\ UNCHANGED <<record, repeating>>

\* It ends, however much of the record it has heard, or fails.
Done ==
  /\ repeating /\ repeating' = FALSE
  /\ script' = <<>>
  /\ UNCHANGED record

Next == Begin \/ Extend \/ Repeat \/ Hear \/ Done

Spec == Init /\ [][Next]_vars

=============================================================================
