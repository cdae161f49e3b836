------------------------------ MODULE FifoKeys ------------------------------
(***************************************************************************)
(* What the input queue promises whoever types and whoever reads: each key  *)
(* reaches a reader once, in the order typed.  Keys are numbered as typed.  *)
(***************************************************************************)
EXTENDS Naturals, Sequences

VARIABLES
  typed,     \* how many keys were typed
  received   \* the keys the readers got, in the order they got them

vars == <<typed, received>>

Init == typed = 0 /\ received = <<>>

Type ==
  /\ typed' = typed + 1
  /\ UNCHANGED received

Take ==
  /\ Len(received) < typed
  /\ received' = Append(received, Len(received) + 1)
  /\ UNCHANGED typed

\* A key typed while a reader waits is that reader's at once.
TypeAndTake ==
  /\ Len(received) = typed
  /\ typed' = typed + 1
  /\ received' = Append(received, typed + 1)

Next == Type \/ Take \/ TypeAndTake

Spec == Init /\ [][Next]_vars

=============================================================================
