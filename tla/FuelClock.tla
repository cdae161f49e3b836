------------------------------ MODULE FuelClock -----------------------------
(***************************************************************************)
(* What burning promises a player, with no timers, magic times, levels or   *)
(* files in it: every light has some fuel; a turn takes one unit from each  *)
(* that burns, wherever it is, and nothing from the others; what a turn or  *)
(* an arrival on a level leaves behind is settled before anybody acts, and  *)
(* then a light goes out only if its fuel is used up; and nothing that is   *)
(* done with lights makes fuel, except filling a lamp from a potion of oil  *)
(* and the one unit that rescues a candelabrum without any.                 *)
(***************************************************************************)
EXTENDS Integers

CONSTANT Objs

VARIABLES
  fuel,       \* turns each object would burn or still burns, never less than none
  burning,    \* the objects that give light
  settling    \* lights that have used up their fuel are being put out

clockVars == <<fuel, burning, settling>>

ClockInit == fuel \in [Objs -> Nat] /\ burning = {} /\ settling = FALSE

Turn ==
  /\ ~settling /\ settling' \in BOOLEAN
  /\ fuel' = [o \in Objs |-> IF o \in burning /\ fuel[o] > 0 THEN fuel[o] - 1 ELSE fuel[o]]
  /\ UNCHANGED burning

Arrive == ~settling /\ settling' = TRUE /\ UNCHANGED <<fuel, burning>>

GoOut(o) ==
  /\ settling
  /\ o \in burning /\ fuel[o] = 0
  /\ burning' = burning \ {o}
  /\ UNCHANGED <<fuel, settling>>

Settled == settling /\ settling' = FALSE /\ UNCHANGED <<fuel, burning>>

\* Lighting, putting out, breaking, splitting a stack, folding one into
\* another: three objects at most, whose fuel comes from among them.
Handle(some) ==
  /\ ~settling
  /\ burning' \subseteq Objs
  /\ \A o \in some : \/ fuel'[o] = 0
                     \/ \E p \in some : fuel'[o] <= fuel[p]
  /\ \A o \in Objs \ some : /\ fuel'[o] = fuel[o]
                            /\ o \in burning' <=> o \in burning
  /\ UNCHANGED settling

Fill(o, p) ==
  /\ ~settling
  /\ o \notin burning /\ p \notin burning
  /\ fuel'[o] <= fuel[o] + 2 * fuel[p]
  /\ fuel'[p] \in {0, fuel[p]}
  /\ \A q \in Objs \ {o, p} : fuel'[q] = fuel[q]
  /\ UNCHANGED <<burning, settling>>

\* A candelabrum that has candles and no fuel is given one unit as it is lit.
Rescue(o) ==
  /\ ~settling
  /\ o \notin burning /\ fuel[o] = 0
  /\ fuel' = [fuel EXCEPT ![o] = 1]
  /\ burning' = burning \cup {o}
  /\ UNCHANGED settling

ClockNext ==
  \/ Turn \/ Arrive \/ Settled
  \/ \E o \in Objs : GoOut(o) \/ Rescue(o)
  \/ \E o, p \in Objs : Fill(o, p)
  \/ \E o, p, q \in Objs : Handle({o, p, q})

ClockSpec == ClockInit /\ [][ClockNext]_clockVars

=============================================================================
