-------------------------- MODULE PageInput_proofs --------------------------
(***************************************************************************)
(* Proofs about PageInput, for any number of keys pressed.                  *)
(***************************************************************************)
EXTENDS PageInput, InputQueue_proofs

Inv == PageTypeOK /\ QueueInv /\ NoReadForgotten

LEMMA InitInv == Init => Inv
BY QueueInit, PageAssumption, ReadersAssumption
   DEF Init, InputInit, Inv, PageTypeOK, QueueInv, NoReadForgotten

\* A step of the page makes at most one call of the input runtime.
LEMMA NextIsInputStep == [Next]_vars => InputStep
BY PageAssumption
   DEF InputStep, Next, vars, inputVars, Keydown, DelayEnds, SaveAndQuit, LoopTask,
       AskForCommand, Continue, AskInCommand, CommandGoesOn, Recover, readConcurrent

LEMMA NextInv == Inv /\ [Next]_vars => Inv'
<1> SUFFICES ASSUME Inv, [Next]_vars PROVE Inv'
    OBVIOUS
<1>1. QueueInv'
      BY NextIsInputStep, StepKeeps DEF Inv
<1>2. InputTypeOK'
      BY <1>1 DEF QueueInv
<1>3. Loop # NoReader /\ Promo # NoReader /\ Loop # Promo
      BY PageAssumption, ReadersAssumption
<1> USE <1>3 DEF Inv, PageTypeOK, NoReadForgotten, isWaitingInput
<1>4. CASE Keydown
      BY <1>1, <1>2, <1>4 DEF Keydown, BrowserTask, pushInput
<1>5. CASE DelayEnds
      BY <1>1, <1>2, <1>5 DEF DelayEnds, BrowserTask, inputVars
<1>6. CASE SaveAndQuit
  <2>1. CASE readConcurrent(Promo) /\ UNCHANGED promo
        BY <1>1, <1>2, <1>6, <2>1 DEF SaveAndQuit, BrowserTask, readConcurrent, inputVars
  <2>2. CASE readWaits(Promo) /\ promo' = "reading"
        BY <1>1, <1>2, <1>6, <2>2 DEF SaveAndQuit, BrowserTask, readWaits
  <2>3. CASE readQueued /\ promo' = "left"
    <3>1. promo # "reading"
          BY <2>3 DEF readQueued, QueueInv, NoReaderStarves
    <3> QED BY <1>1, <1>2, <1>6, <2>3, <3>1 DEF SaveAndQuit, BrowserTask, readQueued
  <2> QED BY <1>6, <2>1, <2>2, <2>3 DEF SaveAndQuit
<1>7. CASE AskForCommand
      BY <1>1, <1>2, <1>7 DEF AskForCommand, LoopRuns, readConcurrent, readWaits, readQueued, inputVars
<1>8. CASE Continue
      BY <1>1, <1>2, <1>8 DEF Continue, LoopRuns, inputVars
<1>9. CASE AskInCommand
      BY <1>1, <1>2, <1>9 DEF AskInCommand, LoopRuns, readConcurrent, readWaits, readQueued, inputVars
<1>10. CASE CommandGoesOn
      BY <1>1, <1>2, <1>10 DEF CommandGoesOn, LoopRuns, inputVars
<1>11. CASE Recover
      BY <1>1, <1>2, <1>11 DEF Recover, LoopRuns, readConcurrent, readWaits, readQueued, inputVars
<1>12. CASE UNCHANGED vars
      BY <1>1, <1>2, <1>12 DEF vars, inputVars
<1> QED BY <1>4, <1>5, <1>6, <1>7, <1>8, <1>9, <1>10, <1>11, <1>12 DEF Next, LoopTask

LEMMA SpecInv == Spec => []Inv
BY InitInv, NextInv, PTL DEF Spec

\* Every variable keeps its type.
THEOREM PageTypeCorrect == Spec => []PageTypeOK
BY SpecInv, PTL DEF Inv

\* The game loop and the attract mode never leave each other with a read that no key
\* will ever answer: the "Concurrent nhgetch()" error stands before that.
THEOREM NoReadIsForgotten == Spec => []NoReadForgotten
BY SpecInv, PTL DEF Inv

\* Whoever reads, the keys pressed are delivered once and in order.
THEOREM PageIsFifo == Spec => RefinesFifo
<1>1. Init => Fifo!Init
      BY DEF Init, InputInit, Fifo!Init
<1>2. Inv /\ [Next]_vars => [Fifo!Next]_(Fifo!vars)
      BY NextIsInputStep, StepIsFifo DEF Inv
<1> QED BY <1>1, <1>2, SpecInv, PTL DEF Spec, RefinesFifo, Fifo!Spec

=============================================================================
