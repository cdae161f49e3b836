------------------------- MODULE InputQueue_proofs -------------------------
(***************************************************************************)
(* What the functions of the input runtime preserve, whoever calls them:    *)
(* the lemmas the proofs about ReplayDriver and PageInput rest on.          *)
(***************************************************************************)
EXTENDS InputQueue, SequenceTheorems, TLAPS

\* Keys are neither lost, doubled nor reordered, and nobody waits beside a full queue.
QueueInv == InputTypeOK /\ NoReaderStarves /\ KeysInOrder

\* One call of the input runtime, or none.
InputStep ==
  \/ pushInput \/ readQueued \/ waitResolved
  \/ \E r \in Readers : readWaits(r)
  \/ \E a \in Nat : waitForInputWait(a) \/ abortWait(a)
  \/ UNCHANGED inputVars

-----------------------------------------------------------------------------

\* A fresh runtime has no key and no reader.
LEMMA QueueInit == InputInit => QueueInv
BY DEF InputInit, QueueInv, InputTypeOK, NoReaderStarves, KeysInOrder, isWaitingInput

\* pushInput() gives the key to the reader that waits, whose queue is empty, or
\* puts it behind the keys that are queued.
LEMMA PushKeeps == QueueInv /\ pushInput => QueueInv'
<1> SUFFICES ASSUME QueueInv, pushInput PROVE QueueInv'
    OBVIOUS
<1> USE DEF QueueInv, InputTypeOK, NoReaderStarves, isWaitingInput
<1>1. CASE isWaitingInput
  <2>1. /\ inputQueue' = <<>> /\ received' = Append(received, typed + 1)
        /\ typed' = typed + 1 /\ Len(received) = typed
        BY <1>1 DEF pushInput, KeysInOrder
  <2>2. InputTypeOK' /\ NoReaderStarves'
        BY <1>1, <2>1 DEF pushInput
  <2>3. KeysInOrder'
        BY <2>1, AppendProperties DEF KeysInOrder
  <2> QED BY <2>2, <2>3
<1>2. CASE ~isWaitingInput
  <2>1. /\ inputQueue' = Append(inputQueue, typed + 1) /\ received' = received
        /\ typed' = typed + 1
        BY <1>2 DEF pushInput
  <2>2. InputTypeOK' /\ NoReaderStarves'
        BY <1>2, <2>1 DEF pushInput
  <2>3. /\ Len(inputQueue') = Len(inputQueue) + 1
        /\ \A i \in 1 .. Len(inputQueue) : inputQueue'[i] = inputQueue[i]
        /\ inputQueue'[Len(inputQueue) + 1] = typed + 1
        BY <2>1, AppendProperties
  <2>4. /\ Len(received) \in Nat /\ Len(inputQueue) \in Nat
        /\ Len(received) + Len(inputQueue) = typed
        BY LenProperties DEF KeysInOrder
  <2> HIDE DEF QueueInv, InputTypeOK, NoReaderStarves, isWaitingInput
  <2>5. ASSUME NEW i \in 1 .. Len(inputQueue') PROVE inputQueue'[i] = Len(received') + i
    <3>1. CASE i \in 1 .. Len(inputQueue)
          BY <3>1, <2>1, <2>3 DEF QueueInv, KeysInOrder
    <3>2. CASE i = Len(inputQueue) + 1
          BY <3>2, <2>1, <2>3, <2>4
    <3> QED BY <3>1, <3>2, <2>3, <2>4
  <2>6. KeysInOrder'
    <3>1. Len(received') + Len(inputQueue') = typed'
          BY <2>1, <2>3, <2>4
    <3>2. \A i \in 1 .. Len(received') : received'[i] = i
          BY <2>1 DEF QueueInv, KeysInOrder
    <3> QED BY <2>5, <3>1, <3>2 DEF KeysInOrder
  <2> QED BY <2>2, <2>6 DEF QueueInv
<1> QED BY <1>1, <1>2

\* nhgetch() takes the oldest key of the queue.
LEMMA ReadKeeps == QueueInv /\ readQueued => QueueInv'
<1> SUFFICES ASSUME QueueInv, readQueued PROVE QueueInv'
    OBVIOUS
<1> USE DEF QueueInv, InputTypeOK, NoReaderStarves, isWaitingInput
<1>1. /\ inputQueue # <<>> /\ inputQueue' = Tail(inputQueue)
      /\ received' = Append(received, Head(inputQueue)) /\ typed' = typed
      BY DEF readQueued
<1>2. Head(inputQueue) = Len(received) + 1
      BY <1>1 DEF KeysInOrder
<1>3. InputTypeOK' /\ NoReaderStarves'
      BY <1>1 DEF readQueued
<1>4. KeysInOrder'
  <2>1. /\ Len(received') = Len(received) + 1
        /\ \A i \in 1 .. Len(received) : received'[i] = received[i]
        /\ received'[Len(received) + 1] = Head(inputQueue)
        BY <1>1, HeadTailProperties, AppendProperties
  <2>2. /\ Len(inputQueue') = Len(inputQueue) - 1
        /\ \A i \in 1 .. Len(inputQueue') : inputQueue'[i] = inputQueue[i + 1]
        BY <1>1, HeadTailProperties
  <2>3. Len(received') + Len(inputQueue') = typed'
    <3>1. /\ Len(received) \in Nat /\ Len(inputQueue) \in Nat
          /\ Len(received) + Len(inputQueue) = typed
          BY LenProperties DEF KeysInOrder
    <3> HIDE DEF QueueInv, InputTypeOK, NoReaderStarves, isWaitingInput
    <3> QED BY <1>1, <2>1, <2>2, <3>1
  <2>4. ASSUME NEW i \in 1 .. Len(received') PROVE received'[i] = i
    <3>1. CASE i \in 1 .. Len(received)
          BY <3>1, <2>1 DEF KeysInOrder
    <3>2. CASE i = Len(received) + 1
          BY <3>2, <1>2, <2>1
    <3> QED BY <3>1, <3>2, <2>1, LenProperties
  <2>5. \A i \in 1 .. Len(inputQueue') : inputQueue'[i] = Len(received') + i
        BY <2>1, <2>2 DEF KeysInOrder
  <2> QED BY <2>3, <2>4, <2>5 DEF KeysInOrder
<1> QED BY <1>3, <1>4

\* Nor does any call that moves no key break the order.
LEMMA StepKeeps == QueueInv /\ InputStep => QueueInv'
<1> SUFFICES ASSUME QueueInv, InputStep PROVE QueueInv'
    OBVIOUS
<1>1. CASE pushInput
      BY <1>1, PushKeeps
<1>2. CASE readQueued
      BY <1>2, ReadKeeps
<1> USE DEF QueueInv, InputTypeOK, NoReaderStarves, isWaitingInput
<1>3. CASE waitResolved
      BY <1>3 DEF waitResolved, KeysInOrder
<1>4. ASSUME NEW r \in Readers, readWaits(r) PROVE QueueInv'
  <2>1. inputQueue' = inputQueue /\ received' = received /\ typed' = typed
        BY <1>4 DEF readWaits
  <2>2. KeysInOrder'
        BY <2>1 DEF KeysInOrder
  <2>3. InputTypeOK' /\ NoReaderStarves'
    <3>1. /\ inputResolver' = r /\ waitEpoch' = waitEpoch + 1 /\ inputQueue = <<>>
          /\ waitListeners' \subseteq waitListeners /\ woken' \in {woken, waitEpoch'}
          BY <1>4 DEF readWaits
    <3> QED BY <2>1, <3>1
  <2> QED BY <2>2, <2>3
<1>5. ASSUME NEW a \in Nat, waitForInputWait(a) \/ abortWait(a) PROVE QueueInv'
  <2>1. inputQueue' = inputQueue /\ received' = received /\ typed' = typed
        BY <1>5 DEF waitForInputWait, abortWait
  <2>2. KeysInOrder'
        BY <2>1 DEF KeysInOrder
  <2>3. InputTypeOK' /\ NoReaderStarves'
    <3>1. /\ inputResolver' = inputResolver /\ waitEpoch' = waitEpoch
          /\ waitListeners' \subseteq waitListeners \union {a}
          /\ woken' \in {woken, waitEpoch, 0}
          BY <1>5 DEF waitForInputWait, abortWait
    <3> QED BY <2>1, <3>1
  <2> QED BY <2>2, <2>3
<1>6. CASE UNCHANGED inputVars
      BY <1>6 DEF inputVars, KeysInOrder
<1> QED BY <1>1, <1>2, <1>3, <1>4, <1>5, <1>6 DEF InputStep

\* Every call is a step of the abstract channel, or moves no key.
LEMMA StepIsFifo == QueueInv /\ InputStep => [Fifo!Next]_(Fifo!vars)
<1> SUFFICES ASSUME QueueInv, InputStep PROVE [Fifo!Next]_(Fifo!vars)
    OBVIOUS
<1> USE DEF QueueInv, InputTypeOK, Fifo!vars
<1>1. CASE pushInput
      BY <1>1 DEF pushInput, NoReaderStarves, KeysInOrder, isWaitingInput,
                  Fifo!Next, Fifo!Type, Fifo!TypeAndTake
<1>2. CASE readQueued
  <2>1. Head(inputQueue) = Len(received) + 1 /\ Len(received) < typed
        BY <1>2 DEF readQueued, KeysInOrder
  <2> QED BY <1>2, <2>1 DEF readQueued, Fifo!Next, Fifo!Take
<1>3. CASE ~pushInput /\ ~readQueued
      BY <1>3 DEF InputStep, waitResolved, readWaits, waitForInputWait, abortWait, inputVars
<1> QED BY <1>1, <1>2, <1>3

=============================================================================
