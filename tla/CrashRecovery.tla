--------------------------- MODULE CrashRecovery ---------------------------
(***************************************************************************)
(* What the crash-recovery copy of a game promises (docs/AUTOSAVE.md), with *)
(* no queue, no compression and no cancellation: one stored copy, that only *)
(* a running game moves, that moves forward only, that no other character's *)
(* state ever replaces, and that goes, once and for all for this page, when *)
(* the game loop has ended.                                                 *)
(***************************************************************************)
EXTENDS Naturals

VARIABLES
  phase,    \* "off" no page, "boot" not playing yet, "live" in the game loop, "done" after it
  char,     \* the character being played, 0 when none
  turn,     \* its turn
  landed,   \* the turn of the last copy this page made
  copy      \* the copy in storage

vars == <<phase, char, turn, landed, copy>>

NoCopy == [char |-> 0, turn |-> 0]
NotPlaying == char' = 0 /\ turn' = 0

Init ==
  /\ phase = "off" /\ char = 0 /\ turn = 0 /\ landed = 0
  /\ copy = NoCopy

\* A page opens, or opens at an address that asks to forget everything first.
Load ==
  /\ phase = "off" /\ phase' = "boot"
  /\ copy' \in {copy, NoCopy}
  /\ UNCHANGED <<char, turn, landed>>

\* The player declined the stored game: it is discarded before another starts.
Discard ==
  /\ phase = "boot" /\ copy' = NoCopy
  /\ UNCHANGED <<phase, char, turn, landed>>

\* Play starts: with the stored character, or with any one when none is stored.
Begin ==
  /\ phase = "boot" /\ phase' = "live"
  /\ char' \in Nat /\ turn' \in Nat
  /\ copy = NoCopy \/ copy.char = char'
  /\ UNCHANGED <<landed, copy>>

Play ==
  /\ phase = "live" /\ turn' = turn + 1
  /\ UNCHANGED <<phase, char, landed, copy>>

\* A copy lands: not older than the one before it, not newer than the game.
Land ==
  /\ phase = "live"
  /\ landed' \in landed .. turn
  /\ copy' = [char |-> char, turn |-> landed']
  /\ UNCHANGED <<phase, char, turn>>

\* The game is over and its loop has ended.
GameOver ==
  /\ phase = "live" /\ phase' = "done" /\ copy' = NoCopy
  /\ UNCHANGED <<char, turn, landed>>

\* The page goes away, at any moment.
Unload ==
  /\ phase # "off" /\ phase' = "off" /\ NotPlaying /\ landed' = 0
  /\ UNCHANGED copy

Next == Load \/ Discard \/ Begin \/ Play \/ Land \/ GameOver \/ Unload

Spec == Init /\ [][Next]_vars

=============================================================================
