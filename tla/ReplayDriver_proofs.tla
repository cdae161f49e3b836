------------------------ MODULE ReplayDriver_proofs ------------------------
(***************************************************************************)
(* Proofs about ReplayDriver, for any number of chargen keys and of keys of *)
(* the recorded session.                                                    *)
(***************************************************************************)
EXTENDS ReplayDriver, InputQueue_proofs

\* Where the driver waits for what it called.
AtDrain ==
  pc \in {"started", "entered", "drain", "race"} => pending # "none" /\ task # "none"

\* The game waits only inside something the driver called and has not seen end.
AtWait == isWaitingInput => task = "running"

\* The race is open, and its listener will hear of the next wait; or it was lost to
\* a wait of the game, which still waits.
AtRace ==
  /\ pc \in {"drain", "race"} => seen <= waitEpoch
  /\ pc = "race" =>
       \/ waitListeners = {seen} /\ woken = 0 /\ ~isWaitingInput
       \/ waitListeners = {} /\ isWaitingInput

Inv ==
  /\ TypeOK /\ QueueInv
  /\ AtDrain /\ AtWait /\ AtRace
  /\ pc = "push" => step < Keys
  /\ CapturedAtRest /\ NoListenerLeft

-----------------------------------------------------------------------------

LEMMA InitInv == Init => Inv
BY QueueInit, ReplayAssumption, ReadersAssumption
   DEF Init, InputInit, Inv, TypeOK, QueueInv, Pcs, Awaiting, AtDrain, AtWait, AtRace,
       CapturedAtRest, NoListenerLeft, isWaitingInput

\* A step of driver or game makes at most one call of the input runtime.
LEMMA NextIsInputStep == TypeOK /\ [Next]_vars => InputStep
<1> SUFFICES ASSUME TypeOK, [Next]_vars PROVE InputStep
    OBVIOUS
<1> USE DEF InputStep
<1>1. seen \in Nat
      BY DEF TypeOK
<1>2. CASE UNCHANGED vars
      BY <1>2 DEF vars, inputVars
<1>3. CASE Driver
      BY <1>1, <1>3 DEF Driver, PushChargenKey, StartInit, EnterDrain, DrainFindsWait, DrainRaces,
         RaceDone, RaceError, RaceWait, Capture, PushKey, Cancel, EscSettles,
         EscTimesOut, CrEnds, inputVars
<1>4. CASE GameTask
      BY <1>4, ReplayAssumption DEF GameTask, GameReads, GameWaits, GameEnds, inputVars
<1> QED BY <1>2, <1>3, <1>4 DEF Next

LEMMA NextInv == Inv /\ [Next]_vars => Inv'
<1> SUFFICES ASSUME Inv, [Next]_vars PROVE Inv'
    OBVIOUS
<1>1. QueueInv'
      BY NextIsInputStep, StepKeeps DEF Inv
<1>2. InputTypeOK' /\ NoReaderStarves'
      BY <1>1 DEF QueueInv
<1> USE ReplayAssumption, ReadersAssumption
    DEF Inv, TypeOK, AtDrain, AtWait, AtRace, CapturedAtRest, NoListenerLeft, Pcs, Awaiting
<1>3. CASE PushChargenKey
      BY <1>1, <1>2, <1>3 DEF PushChargenKey, pushInput, driverVars, isWaitingInput
<1>4. CASE StartInit
      BY <1>1, <1>2, <1>4 DEF StartInit, inputVars, isWaitingInput
<1>5. CASE EnterDrain
  <2>1. waitEpoch \in Nat
        BY DEF InputTypeOK
  <2> QED BY <1>1, <1>2, <1>5, <2>1 DEF EnterDrain, inputVars, isWaitingInput
<1>6. CASE DrainFindsWait
      BY <1>1, <1>2, <1>6 DEF DrainFindsWait, inputVars, isWaitingInput, NoReaderStarves
<1>7. CASE DrainRaces
      BY <1>1, <1>2, <1>7 DEF DrainRaces, waitForInputWait, isWaitingInput
<1>8. CASE RaceDone
      BY <1>1, <1>2, <1>8 DEF RaceDone, abortWait, isWaitingInput
<1>9. CASE RaceError
      BY <1>1, <1>2, <1>9 DEF RaceError, abortWait, isWaitingInput
<1>10. CASE RaceWait
      BY <1>1, <1>2, <1>10 DEF RaceWait, waitResolved, isWaitingInput, NoReaderStarves, InputTypeOK
<1>11. CASE Capture
      BY <1>1, <1>2, <1>11 DEF Capture, inputVars, isWaitingInput
<1>12. CASE PushKey
      BY <1>1, <1>2, <1>12 DEF PushKey, pushInput, isWaitingInput
<1>13. CASE Cancel
      BY <1>1, <1>2, <1>13 DEF Cancel, pushInput, inputVars, isWaitingInput
<1>14. CASE EscSettles
      BY <1>1, <1>2, <1>14 DEF EscSettles, inputVars, isWaitingInput
<1>15. CASE EscTimesOut
      BY <1>1, <1>2, <1>15 DEF EscTimesOut, pushInput, isWaitingInput
<1>16. CASE CrEnds
      BY <1>1, <1>2, <1>16 DEF CrEnds, inputVars, isWaitingInput
<1>17. CASE GameReads
      BY <1>1, <1>2, <1>17 DEF GameReads, GameRuns, readQueued, isWaitingInput
<1>18. CASE GameWaits
  <2>1. waitEpoch \in Nat /\ waitListeners \subseteq Nat
        BY DEF InputTypeOK
  <2>2. /\ inputResolver' = Game /\ Game # NoReader
        /\ waitEpoch' = waitEpoch + 1
        /\ waitListeners' = {a \in waitListeners : waitEpoch' <= a}
        BY <1>18 DEF GameWaits, readWaits
  <2>3. /\ task = "running" /\ ~isWaitingInput /\ pc \in Awaiting
        /\ pc' = IF pc = "started" THEN "entered" ELSE pc
        /\ step' = step /\ pending' = pending /\ seen' = seen /\ task' = task
        BY <1>18 DEF GameWaits, GameRuns
  <2>4. isWaitingInput'
        BY <2>2 DEF isWaitingInput
  <2>5. waitListeners' = {}
    <3>1. CASE pc = "race"
          BY <3>1, <2>1, <2>2, <2>3
    <3>2. CASE pc # "race"
          BY <3>2, <2>2
    <3> QED BY <3>1, <3>2
  <2>6. TypeOK' /\ AtDrain' /\ AtWait' /\ NoListenerLeft'
        BY <1>2, <2>3, <2>5
  <2>7. AtRace'
        BY <2>1, <2>2, <2>3, <2>4, <2>5
  <2>8. CapturedAtRest' /\ (pc' = "push" => step' < Keys)
        BY <2>3
  <2> QED BY <1>1, <2>6, <2>7, <2>8
<1>19. CASE GameEnds
      BY <1>1, <1>2, <1>19 DEF GameEnds, GameRuns, inputVars, isWaitingInput
<1>20. CASE UNCHANGED vars
      BY <1>1, <1>2, <1>20 DEF vars, inputVars, driverVars, isWaitingInput
<1> QED BY <1>3, <1>4, <1>5, <1>6, <1>7, <1>8, <1>9, <1>10, <1>11, <1>12, <1>13, <1>14,
           <1>15, <1>16, <1>17, <1>18, <1>19, <1>20 DEF Next, Driver, GameTask

LEMMA SpecInv == Spec => []Inv
BY InitInv, NextInv, PTL DEF Spec

\* Every variable keeps its type.
THEOREM ReplayTypeCorrect == Spec => []TypeOK
BY SpecInv, PTL DEF Inv

\* replaySession() captures a frame, and presses the next key, only when the game is
\* through with the keys before it: it never starts a command beside an unfinished
\* one, and a key pressed into an unfinished one answers the read it waits in.
THEOREM FramesAtRest == Spec => []CapturedAtRest
BY SpecInv, PTL DEF Inv

\* The game never waits in nhgetch() while a key is queued.
THEOREM ReplayNoStarving == Spec => []NoReaderStarves
BY SpecInv, PTL DEF Inv, QueueInv

\* drainUntilInput() aborts the listener of every race that a wait did not end.
THEOREM ListenersGone == Spec => []NoListenerLeft
BY SpecInv, PTL DEF Inv

\* The game gets every key of the session at most once, and in order.
THEOREM ReplayIsFifo == Spec => RefinesFifo
<1>1. Init => Fifo!Init
      BY DEF Init, InputInit, Fifo!Init
<1>2. Inv /\ [Next]_vars => [Fifo!Next]_(Fifo!vars)
      BY NextIsInputStep, StepIsFifo DEF Inv
<1> QED BY <1>1, <1>2, SpecInv, PTL DEF Spec, RefinesFifo, Fifo!Spec

=============================================================================
