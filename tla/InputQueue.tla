----------------------------- MODULE InputQueue -----------------------------
(***************************************************************************)
(* The input runtime of js/input.js (createInputQueue) and its copy for     *)
(* headless play (js/headless.js createHeadlessInput): a queue of typed     *)
(* keys, at most one reader waiting for the next one, and the epochs by     *)
(* which a replay learns that the game waits.  The functions are operators; *)
(* the modules that extend this one say who calls them.                     *)
(*                                                                         *)
(* Data.  A key is its number in the order of typing, so that the order it  *)
(* is delivered in can be seen; which key it is matters to no property.     *)
(***************************************************************************)
EXTENDS Naturals, Sequences

CONSTANT Readers    \* the tasks that call nhgetch()

NoReader == "none"

ASSUME ReadersAssumption == NoReader \notin Readers

VARIABLES
  inputQueue,      \* keys typed and not yet read
  inputResolver,   \* the reader whose promise the next key resolves
  waitEpoch,       \* how many times a reader started to wait
  waitListeners,   \* the afterEpoch of each pending waitForInputWait()
  woken,           \* the epoch a waitForInputWait() was resolved with, or 0
  typed,           \* history: how many keys were pushed
  received         \* history: the keys read, in the order they were read

inputVars == <<inputQueue, inputResolver, waitEpoch, waitListeners, woken,
               typed, received>>

InputInit ==
  /\ inputQueue = <<>> /\ inputResolver = NoReader
  /\ waitEpoch = 0 /\ waitListeners = {} /\ woken = 0
  /\ typed = 0 /\ received = <<>>

isWaitingInput == inputResolver # NoReader

-----------------------------------------------------------------------------

\* Mutant: the key joins the queue even when a reader waits.
pushInput_queued ==
  /\ typed' = typed + 1
  /\ inputQueue' = Append(inputQueue, typed + 1)
  /\ UNCHANGED <<inputResolver, received, waitEpoch, waitListeners, woken>>

\* Mutant: a key that nobody waits for is dropped.
pushInput_dropped ==
  /\ typed' = typed + 1
  /\ inputResolver' = NoReader
  /\ received' = IF isWaitingInput THEN Append(received, typed + 1) ELSE received
  /\ UNCHANGED <<inputQueue, waitEpoch, waitListeners, woken>>

\* pushInput(ch)
pushInput ==
  /\ typed' = typed + 1
  /\ \/ /\ isWaitingInput
        /\ inputResolver' = NoReader
        /\ received' = Append(received, typed + 1)
        /\ UNCHANGED inputQueue
     \/ /\ ~isWaitingInput
        /\ inputQueue' = Append(inputQueue, typed + 1)
        /\ UNCHANGED <<inputResolver, received>>
  /\ UNCHANGED <<waitEpoch, waitListeners, woken>>

\* Mutant: the last key typed is read first.
readQueued_last ==
  /\ inputQueue # <<>>
  /\ received' = Append(received, inputQueue[Len(inputQueue)])
  /\ inputQueue' = SubSeq(inputQueue, 1, Len(inputQueue) - 1)
  /\ UNCHANGED <<inputResolver, waitEpoch, waitListeners, woken, typed>>

\* nhgetch() when a key is queued: it resolves at once.
readQueued ==
  /\ inputQueue # <<>>
  /\ received' = Append(received, Head(inputQueue))
  /\ inputQueue' = Tail(inputQueue)
  /\ UNCHANGED <<inputResolver, waitEpoch, waitListeners, woken, typed>>

\* Mutant: a second read takes the place of the one that is pending.
readConcurrent_takesOver(reader) ==
  /\ inputQueue = <<>> /\ isWaitingInput
  /\ inputResolver' = reader
  /\ UNCHANGED <<inputQueue, waitEpoch, waitListeners, woken, typed, received>>

\* nhgetch() when another read is pending: it throws.
readConcurrent(reader) ==
  /\ inputQueue = <<>> /\ isWaitingInput
  /\ reader \in Readers
  /\ UNCHANGED inputVars

\* Mutant: waiting starts no epoch.
readWaits_silent(reader) ==
  /\ inputQueue = <<>> /\ ~isWaitingInput
  /\ inputResolver' = reader
  /\ UNCHANGED <<inputQueue, waitEpoch, waitListeners, woken, typed, received>>

\* nhgetch() when there is no key: notifyWaitStarted(), then the reader waits.
readWaits(reader) ==
  /\ inputQueue = <<>> /\ ~isWaitingInput
  /\ inputResolver' = reader
  /\ waitEpoch' = waitEpoch + 1
  /\ waitListeners' = {a \in waitListeners : waitEpoch' <= a}
  /\ woken' = IF waitListeners' = waitListeners THEN woken ELSE waitEpoch'
  /\ UNCHANGED <<inputQueue, typed, received>>

\* waitForInputWait({afterEpoch}): resolved when the game waits since then already,
\* or else when it next does.
waitForInputWait(afterEpoch) ==
  LET waitsAlready == isWaitingInput /\ waitEpoch > afterEpoch
  IN
  /\ woken' = IF waitsAlready THEN waitEpoch ELSE 0
  /\ waitListeners' = IF waitsAlready THEN waitListeners
                                     ELSE waitListeners \union {afterEpoch}
  /\ UNCHANGED <<inputQueue, inputResolver, waitEpoch, typed, received>>

\* The promise of a waitForInputWait() is resolved and its caller goes on.
waitResolved ==
  /\ woken # 0 /\ woken' = 0
  /\ UNCHANGED <<inputQueue, inputResolver, waitEpoch, waitListeners, typed, received>>

\* The abort signal of a waitForInputWait().
abortWait(afterEpoch) ==
  /\ waitListeners' = waitListeners \ {afterEpoch}
  /\ UNCHANGED <<inputQueue, inputResolver, waitEpoch, woken, typed, received>>

-----------------------------------------------------------------------------

InputTypeOK ==
  /\ inputQueue \in Seq(Nat)
  /\ inputResolver \in Readers \union {NoReader}
  /\ waitEpoch \in Nat /\ woken \in Nat
  /\ waitListeners \subseteq Nat
  /\ typed \in Nat /\ received \in Seq(Nat)

\* No reader waits while a key is there for it: the queue fills only when nobody
\* waits, and nobody starts to wait before it is empty.
NoReaderStarves == isWaitingInput => inputQueue = <<>>

\* Read keys and queued keys are the typed keys, in order.
KeysInOrder ==
  /\ Len(received) + Len(inputQueue) = typed
  /\ \A i \in 1 .. Len(received) : received[i] = i
  /\ \A i \in 1 .. Len(inputQueue) : inputQueue[i] = Len(received) + i

Fifo == INSTANCE FifoKeys
RefinesFifo == Fifo!Spec

=============================================================================
