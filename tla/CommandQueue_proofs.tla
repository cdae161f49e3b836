------------------------ MODULE CommandQueue_proofs ------------------------
(***************************************************************************)
(* Proofs about CommandQueue, for any keys and commands and records of any  *)
(* length.                                                                  *)
(***************************************************************************)
EXTENDS CommandQueue, SequenceTheorems, TLAPS

\* The canned letter waits for its command, and no repetition is under way meanwhile; a
\* letter that was left is in the loop or goes with the error message.
AtCanned ==
  \/ CQ_CANNED = <<>>
  \/ CQ_CANNED = <<DoApply, Letter>> /\ pc # "rhack"
  \/ /\ CQ_CANNED = <<Letter>>
     /\ \/ pc = "rhack" /\ cmd = DoApply /\ heard = NoKey /\ ~inDoAgain
        \/ pc = "error"
        \/ pc = "loop" /\ refused

\* Between commands nothing is repeated.
AtRest == pc \in {"loop", "error"} => ~inDoAgain

\* The chain flag of run_command() and what the player is typing agree.
AtChain == chainActive <=> glue # "none"

\* What is read is recorded in a command of the player's own and nowhere else, and a
\* prefix that was typed is still the command when rhack() returns.
AtCommand ==
  /\ repeatRecordMode <=> OwnCommand
  /\ pc = "rhack" => IF inDoAgain THEN chCode = NoKey ELSE chCode \in Prefixes => cmd = chCode

Inv ==
  /\ TypeOK /\ ModesOnlyInCommand /\ RepeatsWhatWasTyped
  /\ AtCanned /\ AtRest /\ AtChain /\ AtCommand

\* The two halves of the types.
QueuesType ==
  /\ CQ_CANNED \in Seq(Node) /\ CQ_REPEAT \in Seq(Node) /\ repeatCopy \in Seq(Node)
  /\ typed \in Seq(Node) /\ kept \in Seq(Node)
  /\ glue \in {"none", "prefix", "broken"}

ModesType ==
  /\ inputModeDoAgain \in BOOLEAN /\ repeatRecordMode \in BOOLEAN
  /\ inDoAgain \in BOOLEAN /\ chainActive \in BOOLEAN /\ pendingPrompt \in BOOLEAN
  /\ pc \in {"loop", "rhack", "turn", "error"}
  /\ chCode \in Keys \union {NoKey} /\ cmd \in Node \union {NoKey}
  /\ heard \in Keys \union {NoKey} /\ refused \in BOOLEAN

-----------------------------------------------------------------------------
(* Sequences *)

\* A key typed to the last command is typed behind what was in front of it.
LEMMA AppendBehind ==
  ASSUME NEW s \in Seq(Node), NEW t \in Seq(Node), NEW k \in Node
  PROVE  Append(s \o t, k) = s \o Append(t, k)
OBVIOUS

\* Nothing in front of a command leaves it alone.
LEMMA NothingBefore ==
  ASSUME NEW t \in Seq(Node)
  PROVE  <<>> \o t = t
OBVIOUS

\* The two nodes handleApply() queues, and what is left of them.
LEMMA CannedNodes ==
  /\ <<DoApply, Letter>> \in Seq(Node) /\ <<DoApply, Letter>> # <<>> /\ <<Letter>> # <<>>
  /\ Head(<<DoApply, Letter>>) = DoApply /\ Tail(<<DoApply, Letter>>) = <<Letter>>
  /\ Head(<<Letter>>) = Letter /\ Tail(<<Letter>>) = <<>>
  /\ <<>> \o <<DoApply, Letter>> = <<DoApply, Letter>>
BY NodeAssumption DEF Node, Fns, Keys

\* What is a key, a command or neither.
LEMMA Kinds ==
  /\ Keys \subseteq Node /\ ExtFns \subseteq Node /\ DoApply \in Node /\ Prefixes \subseteq Keys
  /\ Letter \in Keys /\ Hash \in Keys /\ Apply \in Keys /\ Letter # NoKey /\ DoApply \in Fns
  /\ NoKey \notin Keys /\ NoKey \notin Prefixes /\ NoKey # Hash /\ NoKey \notin Fns
  /\ Hash \notin Prefixes /\ Apply \notin Prefixes
  /\ DoApply \notin Prefixes /\ DoApply \notin ExtFns
  /\ DoApply \notin Keys /\ Letter \notin Fns /\ DoApply # Hash /\ Prefixes \intersect ExtFns = {}
BY NodeAssumption DEF Node, Fns, Keys

-----------------------------------------------------------------------------
(* The inductive invariant *)

LEMMA InitInv == Init => Inv
<1> SUFFICES ASSUME Init PROVE Inv
    OBVIOUS
<1>1. QueuesType
      BY DEF Init, QueuesType
<1>0. ModesType
      BY DEF Init, ModesType
<1>2. RepeatsWhatWasTyped
      BY DEF Init, RepeatsWhatWasTyped, Record
<1>3. ModesOnlyInCommand /\ AtRest /\ AtChain
      BY DEF Init, ModesOnlyInCommand, AtRest, AtChain
<1>4. AtCanned
      BY DEF Init, AtCanned
<1>5. AtCommand
      BY DEF Init, AtCommand, OwnCommand
<1> QED BY <1>0, <1>1, <1>2, <1>3, <1>4, <1>5 DEF Inv, TypeOK, QueuesType, ModesType

\* A read takes its key from the record in a repetition, the letter that waits for the
\* canned command or was left by it, or a typed one, which goes to the record exactly
\* when the player's own command asked.
LEMMA NhgetchReads ==
  ASSUME Inv, NEW key \in Keys, nhgetch(key)
  PROVE  \/ /\ inputModeDoAgain /\ CQ_REPEAT # <<>> /\ CQ_REPEAT' = Tail(CQ_REPEAT)
            /\ UNCHANGED <<CQ_CANNED, histVars>>
         \/ /\ ~inputModeDoAgain /\ CQ_CANNED = <<Letter>> /\ CQ_CANNED' = <<>> /\ key = Letter
            /\ UNCHANGED <<CQ_REPEAT, histVars>>
         \/ /\ OwnCommand /\ CQ_REPEAT' = Append(CQ_REPEAT, key) /\ typed' = Append(typed, key)
            /\ UNCHANGED <<CQ_CANNED, glue, kept>> /\ CQ_CANNED # <<Letter>>
         \/ /\ ~OwnCommand /\ UNCHANGED <<queueVars, histVars>>
            /\ CQ_CANNED = <<Letter>> => inputModeDoAgain
<1>1. CASE popQueuedInputKey(key)
  <2>1. CASE inputModeDoAgain
        BY <1>1, <2>1 DEF nhgetch, popQueuedInputKey, HasQueuedKey, Queue, histVars
  <2>2. CASE ~inputModeDoAgain
    <3>1. CQ_CANNED = <<Letter>>
          BY <1>1, <2>2, CannedNodes, Kinds
             DEF popQueuedInputKey, HasQueuedKey, Queue, Inv, AtCanned
    <3> QED BY <1>1, <2>2, <3>1, CannedNodes
            DEF nhgetch, popQueuedInputKey, HasQueuedKey, Queue, histVars
  <2> QED BY <2>1, <2>2
<1>2. CASE typedKey(key)
  <2>1. CQ_CANNED = <<Letter>> => inputModeDoAgain
        BY <1>2, CannedNodes, Kinds DEF typedKey, HasQueuedKey, Queue
  <2>2. OwnCommand => ~inputModeDoAgain
        BY DEF OwnCommand, Inv, ModesOnlyInCommand
  <2> QED BY <1>2, <2>1, <2>2
          DEF nhgetch, typedKey, Inv, AtCommand, queueVars, histVars
<1> QED BY <1>1, <1>2 DEF nhgetch

\* A read keeps what Ctrl+A goes by in step with what was typed.
LEMMA NhgetchKeeps ==
  ASSUME Inv, NEW key \in Keys, nhgetch(key), UNCHANGED <<inDoAgain, repeatCopy>>
  PROVE  /\ CQ_CANNED' \in Seq(Node) /\ CQ_REPEAT' \in Seq(Node) /\ typed' \in Seq(Node)
         /\ glue' = glue /\ kept' = kept
         /\ RepeatsWhatWasTyped'
         /\ CQ_CANNED' = CQ_CANNED \/ (CQ_CANNED = <<Letter>> /\ CQ_CANNED' = <<>> /\ key = Letter)
<1> USE DEF Inv, TypeOK
<1>1. key \in Node
      BY Kinds
<1>2. CASE inputModeDoAgain /\ CQ_REPEAT # <<>> /\ CQ_REPEAT' = Tail(CQ_REPEAT)
           /\ UNCHANGED <<CQ_CANNED, histVars>>
      BY <1>2 DEF histVars, ModesOnlyInCommand, RepeatsWhatWasTyped, Record
<1>3. CASE ~inputModeDoAgain /\ CQ_CANNED = <<Letter>> /\ CQ_CANNED' = <<>> /\ key = Letter
           /\ UNCHANGED <<CQ_REPEAT, histVars>>
      BY <1>3 DEF histVars, RepeatsWhatWasTyped, Record
<1>4. CASE OwnCommand /\ CQ_REPEAT' = Append(CQ_REPEAT, key) /\ typed' = Append(typed, key)
           /\ UNCHANGED <<CQ_CANNED, glue, kept>> /\ CQ_CANNED # <<Letter>>
  <2>1. CQ_REPEAT = kept \o typed
        BY <1>4 DEF OwnCommand, RepeatsWhatWasTyped, Record
  <2>2. CQ_REPEAT' = kept \o typed'
        BY <1>1, <1>4, <2>1, AppendBehind
  <2>3. Append(CQ_REPEAT, key) \in Seq(Node) /\ Append(typed, key) \in Seq(Node)
        BY <1>1
  <2>4. RepeatsWhatWasTyped'
        BY <1>4, <2>2 DEF OwnCommand, RepeatsWhatWasTyped, Record
  <2> QED BY <1>4, <2>3, <2>4
<1>5. CASE ~OwnCommand /\ UNCHANGED <<queueVars, histVars>>
      BY <1>5 DEF queueVars, histVars, RepeatsWhatWasTyped, Record
<1> QED BY <1>2, <1>3, <1>4, <1>5, NhgetchReads

-----------------------------------------------------------------------------

\* The queues and the histories hold nodes.
LEMMA QueuesTyped == Inv /\ [Next]_vars => QueuesType'
<1> SUFFICES ASSUME Inv, [Next]_vars PROVE QueuesType'
    OBVIOUS
<1> USE Kinds DEF QueuesType, Inv, TypeOK, queueVars, repeatVars, histVars
<1>1. CASE Ask
      BY <1>1, NhgetchKeeps DEF Ask
<1>2. CASE More
      BY <1>2, NhgetchKeeps DEF More
<1>3. CASE Recover
      BY <1>3, NhgetchKeeps DEF Recover
<1>4. ASSUME NEW key \in Keys, TypeCommand(key) PROVE QueuesType'
  <2>1. key \in Node /\ <<key>> \in Seq(Node)
        BY Kinds
  <2>2. Append(CQ_REPEAT, key) \in Seq(Node) /\ Append(typed, key) \in Seq(Node)
        BY <2>1
  <2> QED BY <1>4, <2>1, <2>2 DEF TypeCommand, rhackCore
<1>5. CASE RunCanned
      BY <1>5 DEF RunCanned, rhackCore
<1>6. CASE CtrlA
      BY <1>6 DEF CtrlA, execute_repeat_command
<1>7. CASE CountedCtrlA
      BY <1>7 DEF CountedCtrlA
<1>8. CASE AnswerPrompt
      BY <1>8 DEF AnswerPrompt
<1>9. CASE ReturnUntimed
      BY <1>9 DEF ReturnUntimed, AfterRhack, ResetModes, EndRepeat, NoCommand
<1>10. CASE ReturnTimed
      BY <1>10 DEF ReturnTimed, AfterRhack, ResetModes, NoCommand
<1>11. CASE ApplyWields
      BY <1>11, CannedNodes DEF ApplyWields, AfterRhack, ResetModes, NoCommand
<1>12. CASE RepeatBehindPrefix
      BY <1>12 DEF RepeatBehindPrefix
<1>13. CASE RunExtended
  <2>1. PICK fn \in ExtFns :
          \/ UNCHANGED <<CQ_REPEAT, typed, kept>>
          \/ CQ_REPEAT' = <<fn>> /\ typed' = <<fn>> /\ kept' = <<>>
        BY <1>13 DEF RunExtended
  <2>2. <<fn>> \in Seq(Node)
        BY Kinds
  <2>3. UNCHANGED <<CQ_CANNED, repeatCopy, glue>>
        BY <1>13 DEF RunExtended
  <2>4. CASE UNCHANGED <<CQ_REPEAT, typed, kept>>
        BY <2>3, <2>4
  <2>5. CASE CQ_REPEAT' = <<fn>> /\ typed' = <<fn>> /\ kept' = <<>>
    <3>1. CQ_REPEAT' \in Seq(Node) /\ typed' \in Seq(Node)
          BY <2>2, <2>5
    <3>2. kept' \in Seq(Node)
          BY <2>5
    <3>3. CQ_CANNED' \in Seq(Node) /\ repeatCopy' \in Seq(Node)
          BY <2>3
    <3>4. glue' \in {"none", "prefix", "broken"}
          BY <2>3
    <3> QED BY <3>1, <3>2, <3>3, <3>4
  <2> QED BY <2>1, <2>4, <2>5
<1>14. CASE ExtendedRepeat
      BY <1>14 DEF ExtendedRepeat, execute_repeat_command
<1>15. CASE stop_occupation
      BY <1>15 DEF stop_occupation
<1>16. CASE EndTurn
      BY <1>16 DEF EndTurn, EndRepeat
<1>17. CASE Throw
      BY <1>17 DEF Throw, ResetModes, EndRepeat, NoCommand
<1>18. CASE UNCHANGED vars
      BY <1>18 DEF vars
<1> QED BY <1>1, <1>2, <1>3, <1>4, <1>5, <1>6, <1>7, <1>8, <1>9,
           <1>10, <1>11, <1>12, <1>13, <1>14, <1>15, <1>16, <1>17, <1>18 DEF Next

\* The modes, the command and the place keep their types.
LEMMA ModesTyped == Inv /\ [Next]_vars => ModesType'
<1> SUFFICES ASSUME Inv, [Next]_vars PROVE ModesType'
    OBVIOUS
<1> USE Kinds DEF ModesType, Inv, TypeOK, modeVars, repeatVars, runVars
<1>1. CASE Ask
      BY <1>1, NhgetchKeeps DEF Ask
<1>2. CASE More
      BY <1>2, NhgetchKeeps DEF More
<1>3. CASE Recover
      BY <1>3, NhgetchKeeps DEF Recover
<1>4. ASSUME NEW key \in Keys, TypeCommand(key) PROVE ModesType'
      BY <1>4 DEF TypeCommand, rhackCore
<1>5. CASE RunCanned
  <2>1. Head(CQ_CANNED) \in Node
        BY <1>5 DEF RunCanned, rhackCore
  <2>2. inputModeDoAgain' \in BOOLEAN /\ repeatRecordMode' \in BOOLEAN /\ inDoAgain' \in BOOLEAN
        BY <1>5, Kinds DEF RunCanned, rhackCore
  <2>3. chainActive' \in BOOLEAN /\ pendingPrompt' \in BOOLEAN
        BY <1>5 DEF RunCanned, rhackCore
  <2>4. /\ pc' = "rhack" /\ chCode' = NoKey /\ cmd' = Head(CQ_CANNED) /\ heard' = NoKey
            /\ refused' \in BOOLEAN
        BY <1>5 DEF RunCanned, rhackCore
  <2> QED BY <2>1, <2>2, <2>3, <2>4
<1>6. CASE CtrlA
  <2>1. Head(CQ_REPEAT) \in Node
        BY <1>6 DEF CtrlA, execute_repeat_command
  <2>2. inputModeDoAgain' \in BOOLEAN /\ repeatRecordMode' \in BOOLEAN /\ inDoAgain' \in BOOLEAN
        BY <1>6, Kinds DEF CtrlA, execute_repeat_command
  <2>3. chainActive' \in BOOLEAN /\ pendingPrompt' \in BOOLEAN
        BY <1>6 DEF CtrlA, execute_repeat_command
  <2>4. /\ pc' = "rhack" /\ chCode' = NoKey /\ cmd' = Head(CQ_REPEAT) /\ heard' = NoKey
            /\ refused' \in BOOLEAN
        BY <1>6 DEF CtrlA, execute_repeat_command
  <2> QED BY <2>1, <2>2, <2>3, <2>4
<1>7. CASE CountedCtrlA
      BY <1>7 DEF CountedCtrlA
<1>8. CASE AnswerPrompt
      BY <1>8 DEF AnswerPrompt
<1>9. CASE ReturnUntimed
      BY <1>9 DEF ReturnUntimed, AfterRhack, ResetModes, EndRepeat, NoCommand
<1>10. CASE ReturnTimed
      BY <1>10 DEF ReturnTimed, AfterRhack, ResetModes, NoCommand
<1>11. CASE ApplyWields
      BY <1>11 DEF ApplyWields, AfterRhack, ResetModes, NoCommand
<1>12. CASE RepeatBehindPrefix
      BY <1>12 DEF RepeatBehindPrefix
<1>13. CASE RunExtended
      BY <1>13 DEF RunExtended
<1>14. CASE ExtendedRepeat
  <2>1. Head(CQ_REPEAT) \in Node
        BY <1>14 DEF ExtendedRepeat, execute_repeat_command
  <2>2. inputModeDoAgain' \in BOOLEAN /\ repeatRecordMode' \in BOOLEAN /\ inDoAgain' \in BOOLEAN
        BY <1>14, Kinds DEF ExtendedRepeat, execute_repeat_command
  <2>3. chainActive' \in BOOLEAN /\ pendingPrompt' \in BOOLEAN
        BY <1>14 DEF ExtendedRepeat, execute_repeat_command
  <2>4. /\ pc' = "rhack" /\ chCode' = NoKey /\ cmd' = Head(CQ_REPEAT) /\ heard' = NoKey
            /\ refused' \in BOOLEAN
        BY <1>14 DEF ExtendedRepeat, execute_repeat_command
  <2> QED BY <2>1, <2>2, <2>3, <2>4
<1>15. CASE stop_occupation
      BY <1>15 DEF stop_occupation
<1>16. CASE EndTurn
      BY <1>16 DEF EndTurn, EndRepeat
<1>17. CASE Throw
      BY <1>17 DEF Throw, ResetModes, EndRepeat, NoCommand
<1>18. CASE UNCHANGED vars
      BY <1>18 DEF vars
<1> QED BY <1>1, <1>2, <1>3, <1>4, <1>5, <1>6, <1>7, <1>8, <1>9,
           <1>10, <1>11, <1>12, <1>13, <1>14, <1>15, <1>16, <1>17, <1>18 DEF Next

-----------------------------------------------------------------------------

\* The modes are on in a command only.
LEMMA ModesKeep == Inv /\ [Next]_vars => ModesOnlyInCommand'
<1> SUFFICES ASSUME Inv, [Next]_vars PROVE ModesOnlyInCommand'
    OBVIOUS
<1> USE DEF ModesOnlyInCommand, Inv, TypeOK, AtRest,
           queueVars, modeVars, repeatVars, runVars, histVars
<1>1. CASE Ask
      BY <1>1 DEF Ask
<1>2. CASE More
      BY <1>2 DEF More
<1>3. CASE Recover
      BY <1>3 DEF Recover
<1>4. ASSUME NEW key \in Keys, TypeCommand(key) PROVE ModesOnlyInCommand'
      BY <1>4 DEF TypeCommand, rhackCore
<1>5. CASE RunCanned
      BY <1>5 DEF RunCanned, rhackCore
<1>6. CASE CtrlA
      BY <1>6 DEF CtrlA, execute_repeat_command
<1>7. CASE CountedCtrlA
      BY <1>7 DEF CountedCtrlA
<1>8. CASE AnswerPrompt
      BY <1>8 DEF AnswerPrompt
<1>9. CASE ReturnUntimed
      BY <1>9 DEF ReturnUntimed, AfterRhack, ResetModes, EndRepeat, NoCommand
<1>10. CASE ReturnTimed
      BY <1>10 DEF ReturnTimed, AfterRhack, ResetModes, NoCommand
<1>11. CASE ApplyWields
      BY <1>11 DEF ApplyWields, AfterRhack, ResetModes, NoCommand
<1>12. CASE RepeatBehindPrefix
      BY <1>12 DEF RepeatBehindPrefix
<1>13. CASE RunExtended
      BY <1>13 DEF RunExtended
<1>14. CASE ExtendedRepeat
      BY <1>14 DEF ExtendedRepeat, execute_repeat_command
<1>15. CASE stop_occupation
      BY <1>15 DEF stop_occupation
<1>16. CASE EndTurn
      BY <1>16 DEF EndTurn, EndRepeat
<1>17. CASE Throw
      BY <1>17 DEF Throw, ResetModes, EndRepeat, NoCommand
<1>18. CASE UNCHANGED vars
      BY <1>18 DEF vars
<1> QED BY <1>1, <1>2, <1>3, <1>4, <1>5, <1>6, <1>7, <1>8, <1>9,
           <1>10, <1>11, <1>12, <1>13, <1>14, <1>15, <1>16, <1>17, <1>18 DEF Next

\* No repetition outlives its turn.
LEMMA RestKeeps == Inv /\ [Next]_vars => AtRest'
<1> SUFFICES ASSUME Inv, [Next]_vars PROVE AtRest'
    OBVIOUS
<1> USE DEF AtRest, Inv, TypeOK,
           queueVars, modeVars, repeatVars, runVars, histVars
<1>1. CASE Ask
      BY <1>1 DEF Ask
<1>2. CASE More
      BY <1>2 DEF More
<1>3. CASE Recover
      BY <1>3 DEF Recover
<1>4. ASSUME NEW key \in Keys, TypeCommand(key) PROVE AtRest'
      BY <1>4 DEF TypeCommand, rhackCore
<1>5. CASE RunCanned
      BY <1>5 DEF RunCanned, rhackCore
<1>6. CASE CtrlA
      BY <1>6 DEF CtrlA, execute_repeat_command
<1>7. CASE CountedCtrlA
      BY <1>7 DEF CountedCtrlA
<1>8. CASE AnswerPrompt
      BY <1>8 DEF AnswerPrompt
<1>9. CASE ReturnUntimed
      BY <1>9 DEF ReturnUntimed, AfterRhack, ResetModes, EndRepeat, NoCommand
<1>10. CASE ReturnTimed
      BY <1>10 DEF ReturnTimed, AfterRhack, ResetModes, NoCommand
<1>11. CASE ApplyWields
      BY <1>11 DEF ApplyWields, AfterRhack, ResetModes, NoCommand
<1>12. CASE RepeatBehindPrefix
      BY <1>12 DEF RepeatBehindPrefix
<1>13. CASE RunExtended
      BY <1>13 DEF RunExtended
<1>14. CASE ExtendedRepeat
      BY <1>14 DEF ExtendedRepeat, execute_repeat_command
<1>15. CASE stop_occupation
      BY <1>15 DEF stop_occupation
<1>16. CASE EndTurn
      BY <1>16 DEF EndTurn, EndRepeat
<1>17. CASE Throw
      BY <1>17 DEF Throw, ResetModes, EndRepeat, NoCommand
<1>18. CASE UNCHANGED vars
      BY <1>18 DEF vars
<1> QED BY <1>1, <1>2, <1>3, <1>4, <1>5, <1>6, <1>7, <1>8, <1>9,
           <1>10, <1>11, <1>12, <1>13, <1>14, <1>15, <1>16, <1>17, <1>18 DEF Next

\* The chain flag follows the prefixes that are typed.
LEMMA ChainKeeps == Inv /\ [Next]_vars => AtChain'
<1> SUFFICES ASSUME Inv, [Next]_vars PROVE AtChain'
    OBVIOUS
<1> USE Kinds DEF AtChain, AtCommand, AtRest, Inv, TypeOK,
           queueVars, modeVars, repeatVars, runVars, histVars
<1>1. CASE Ask
      BY <1>1, NhgetchKeeps DEF Ask
<1>2. CASE More
      BY <1>2, NhgetchKeeps DEF More
<1>3. CASE Recover
      BY <1>3, NhgetchKeeps DEF Recover
<1>4. ASSUME NEW key \in Keys, TypeCommand(key) PROVE AtChain'
      BY <1>4 DEF TypeCommand, rhackCore
<1>5. CASE RunCanned
      BY <1>5 DEF RunCanned, rhackCore
<1>6. CASE CtrlA
      BY <1>6 DEF CtrlA, execute_repeat_command
<1>7. CASE CountedCtrlA
      BY <1>7 DEF CountedCtrlA
<1>8. CASE AnswerPrompt
      BY <1>8 DEF AnswerPrompt
<1>9. CASE ReturnUntimed
      BY <1>9 DEF ReturnUntimed, AfterRhack, ResetModes, EndRepeat, NoCommand
<1>10. CASE ReturnTimed
      BY <1>10 DEF ReturnTimed, AfterRhack, ResetModes, NoCommand
<1>11. CASE ApplyWields
      BY <1>11 DEF ApplyWields, AfterRhack, ResetModes, NoCommand
<1>12. CASE RepeatBehindPrefix
      BY <1>12 DEF RepeatBehindPrefix
<1>13. CASE RunExtended
      BY <1>13 DEF RunExtended
<1>14. CASE ExtendedRepeat
      BY <1>14 DEF ExtendedRepeat, execute_repeat_command
<1>15. CASE stop_occupation
      BY <1>15 DEF stop_occupation
<1>16. CASE EndTurn
      BY <1>16 DEF EndTurn, EndRepeat
<1>17. CASE Throw
      BY <1>17 DEF Throw, ResetModes, EndRepeat, NoCommand
<1>18. CASE UNCHANGED vars
      BY <1>18 DEF vars
<1> QED BY <1>1, <1>2, <1>3, <1>4, <1>5, <1>6, <1>7, <1>8, <1>9,
           <1>10, <1>11, <1>12, <1>13, <1>14, <1>15, <1>16, <1>17, <1>18 DEF Next

\* The player's own command is what was typed.
LEMMA CommandKeeps == Inv /\ [Next]_vars => AtCommand'
<1> SUFFICES ASSUME Inv, [Next]_vars PROVE AtCommand'
    OBVIOUS
<1> USE Kinds DEF AtCommand, AtRest, OwnCommand, ModesOnlyInCommand, Inv, TypeOK,
           queueVars, modeVars, repeatVars, runVars, histVars
<1>1. CASE Ask
      BY <1>1 DEF Ask
<1>2. CASE More
      BY <1>2 DEF More
<1>3. CASE Recover
      BY <1>3 DEF Recover
<1>4. ASSUME NEW key \in Keys, TypeCommand(key) PROVE AtCommand'
      BY <1>4 DEF TypeCommand, rhackCore
<1>5. CASE RunCanned
      BY <1>5 DEF RunCanned, rhackCore
<1>6. CASE CtrlA
      BY <1>6 DEF CtrlA, execute_repeat_command
<1>7. CASE CountedCtrlA
      BY <1>7 DEF CountedCtrlA
<1>8. CASE AnswerPrompt
      BY <1>8 DEF AnswerPrompt
<1>9. CASE ReturnUntimed
      BY <1>9 DEF ReturnUntimed, AfterRhack, ResetModes, EndRepeat, NoCommand
<1>10. CASE ReturnTimed
      BY <1>10 DEF ReturnTimed, AfterRhack, ResetModes, NoCommand
<1>11. CASE ApplyWields
      BY <1>11 DEF ApplyWields, AfterRhack, ResetModes, NoCommand
<1>12. CASE RepeatBehindPrefix
      BY <1>12 DEF RepeatBehindPrefix
<1>13. CASE RunExtended
      BY <1>13 DEF RunExtended
<1>14. CASE ExtendedRepeat
      BY <1>14 DEF ExtendedRepeat, execute_repeat_command
<1>15. CASE stop_occupation
      BY <1>15 DEF stop_occupation
<1>16. CASE EndTurn
      BY <1>16 DEF EndTurn, EndRepeat
<1>17. CASE Throw
      BY <1>17 DEF Throw, ResetModes, EndRepeat, NoCommand
<1>18. CASE UNCHANGED vars
      BY <1>18 DEF vars
<1> QED BY <1>1, <1>2, <1>3, <1>4, <1>5, <1>6, <1>7, <1>8, <1>9,
           <1>10, <1>11, <1>12, <1>13, <1>14, <1>15, <1>16, <1>17, <1>18 DEF Next

\* The canned letter stays where it belongs.
LEMMA CannedKeeps == Inv /\ [Next]_vars => AtCanned'
<1> SUFFICES ASSUME Inv, [Next]_vars PROVE AtCanned'
    OBVIOUS
<1> USE Kinds, CannedNodes DEF AtCanned, ModesOnlyInCommand, AtRest, Inv, TypeOK,
           queueVars, modeVars, repeatVars, runVars, histVars
<1>1. CASE Ask
      BY <1>1, NhgetchReads DEF Ask
<1>2. CASE More
      BY <1>2, NhgetchReads DEF More
<1>3. CASE Recover
      BY <1>3, NhgetchReads DEF Recover
<1>4. ASSUME NEW key \in Keys, TypeCommand(key) PROVE AtCanned'
      BY <1>4 DEF TypeCommand, rhackCore
<1>5. CASE RunCanned
      BY <1>5 DEF RunCanned, rhackCore
<1>6. CASE CtrlA
      BY <1>6 DEF CtrlA, execute_repeat_command
<1>7. CASE CountedCtrlA
      BY <1>7 DEF CountedCtrlA
<1>8. CASE AnswerPrompt
      BY <1>8 DEF AnswerPrompt
<1>9. CASE ReturnUntimed
      BY <1>9 DEF ReturnUntimed, AfterRhack, ResetModes, EndRepeat, NoCommand
<1>10. CASE ReturnTimed
      BY <1>10 DEF ReturnTimed, AfterRhack, ResetModes, NoCommand
<1>11. CASE ApplyWields
      BY <1>11 DEF ApplyWields, AfterRhack, ResetModes, NoCommand
<1>12. CASE RepeatBehindPrefix
      BY <1>12 DEF RepeatBehindPrefix
<1>13. CASE RunExtended
      BY <1>13 DEF RunExtended
<1>14. CASE ExtendedRepeat
      BY <1>14 DEF ExtendedRepeat, execute_repeat_command
<1>15. CASE stop_occupation
      BY <1>15 DEF stop_occupation
<1>16. CASE EndTurn
      BY <1>16 DEF EndTurn, EndRepeat
<1>17. CASE Throw
      BY <1>17 DEF Throw, ResetModes, EndRepeat, NoCommand
<1>18. CASE UNCHANGED vars
      BY <1>18 DEF vars
<1> QED BY <1>1, <1>2, <1>3, <1>4, <1>5, <1>6, <1>7, <1>8, <1>9,
           <1>10, <1>11, <1>12, <1>13, <1>14, <1>15, <1>16, <1>17, <1>18 DEF Next

\* What Ctrl+A goes by is what was typed.
LEMMA RecordKeeps == Inv /\ [Next]_vars => RepeatsWhatWasTyped'
<1> SUFFICES ASSUME Inv, [Next]_vars PROVE RepeatsWhatWasTyped'
    OBVIOUS
<1> USE Kinds DEF RepeatsWhatWasTyped, Record, AtRest, AtChain, Inv, TypeOK,
           queueVars, modeVars, repeatVars, runVars, histVars
<1>1. CASE Ask
      BY <1>1, NhgetchKeeps DEF Ask
<1>2. CASE More
      BY <1>2, NhgetchKeeps DEF More
<1>3. CASE Recover
      BY <1>3, NhgetchKeeps DEF Recover
<1>4. ASSUME NEW key \in Keys, TypeCommand(key) PROVE RepeatsWhatWasTyped'
  <2>1. CQ_REPEAT = kept \o typed /\ ~inDoAgain /\ ~inDoAgain' /\ key \in Node
        BY <1>4 DEF TypeCommand, rhackCore
  <2>2. CASE key = Hash
        BY <1>4, <2>2 DEF TypeCommand, rhackCore
  <2>3. CASE key # Hash /\ glue = "prefix"
    <3>1. CQ_REPEAT' = Append(CQ_REPEAT, key) /\ typed' = Append(typed, key) /\ kept' = kept
          BY <1>4, <2>3 DEF TypeCommand
    <3>2. Append(CQ_REPEAT, key) = kept \o Append(typed, key)
          BY <2>1, AppendBehind
    <3> QED BY <2>1, <3>1, <3>2
  <2>4. CASE key # Hash /\ glue = "broken"
    <3>1. CQ_REPEAT' = Append(CQ_REPEAT, key) /\ typed' = <<key>> /\ kept' = CQ_REPEAT
          BY <1>4, <2>4 DEF TypeCommand
    <3>2. Append(CQ_REPEAT, key) = CQ_REPEAT \o <<key>>
          BY <2>1
    <3> QED BY <2>1, <3>1, <3>2
  <2>5. CASE key # Hash /\ glue = "none"
    <3>1. CQ_REPEAT' = <<key>> /\ typed' = <<key>> /\ kept' = <<>>
          BY <1>4, <2>5 DEF TypeCommand
    <3>2. <<>> \o <<key>> = <<key>>
          BY <2>1
    <3> QED BY <2>1, <3>1, <3>2
  <2> QED BY <2>2, <2>3, <2>4, <2>5
<1>5. CASE RunCanned
      BY <1>5 DEF RunCanned, rhackCore
<1>6. CASE CtrlA
      BY <1>6 DEF CtrlA, execute_repeat_command
<1>7. CASE CountedCtrlA
      BY <1>7 DEF CountedCtrlA
<1>8. CASE AnswerPrompt
      BY <1>8 DEF AnswerPrompt
<1>9. CASE ReturnUntimed
      BY <1>9 DEF ReturnUntimed, AfterRhack, ResetModes, EndRepeat, NoCommand
<1>10. CASE ReturnTimed
      BY <1>10 DEF ReturnTimed, AfterRhack, ResetModes, NoCommand
<1>11. CASE ApplyWields
      BY <1>11 DEF ApplyWields, AfterRhack, ResetModes, NoCommand
<1>12. CASE RepeatBehindPrefix
      BY <1>12 DEF RepeatBehindPrefix
<1>13. CASE RunExtended
  <2>1. CASE inDoAgain
        BY <1>13, <2>1 DEF RunExtended
  <2>2. CASE ~inDoAgain
    <3>1. PICK fn \in ExtFns : CQ_REPEAT' = <<fn>> /\ typed' = <<fn>> /\ kept' = <<>>
          BY <1>13, <2>2 DEF RunExtended
    <3>2. <<>> \o <<fn>> = <<fn>> /\ ~inDoAgain'
          BY <1>13, <2>2 DEF RunExtended
    <3> QED BY <3>1, <3>2
  <2> QED BY <2>1, <2>2
<1>14. CASE ExtendedRepeat
      BY <1>14 DEF ExtendedRepeat, execute_repeat_command
<1>15. CASE stop_occupation
      BY <1>15 DEF stop_occupation
<1>16. CASE EndTurn
      BY <1>16 DEF EndTurn, EndRepeat
<1>17. CASE Throw
      BY <1>17 DEF Throw, ResetModes, EndRepeat, NoCommand
<1>18. CASE UNCHANGED vars
      BY <1>18 DEF vars
<1> QED BY <1>1, <1>2, <1>3, <1>4, <1>5, <1>6, <1>7, <1>8, <1>9,
           <1>10, <1>11, <1>12, <1>13, <1>14, <1>15, <1>16, <1>17, <1>18 DEF Next

-----------------------------------------------------------------------------

LEMMA NextInv == Inv /\ [Next]_vars => Inv'
BY QueuesTyped, ModesTyped, ModesKeep, RestKeeps, ChainKeeps, CommandKeeps, CannedKeeps, RecordKeeps
   DEF Inv, TypeOK, QueuesType, ModesType

LEMMA SpecInv == Spec => []Inv
BY InitInv, NextInv, PTL DEF Spec

\* The queues hold keys and commands, and every flag and place is one of those named.
THEOREM QueueTypeCorrect == Spec => []TypeOK
<1>1. Inv => TypeOK
      BY DEF Inv
<1> QED BY <1>1, SpecInv, PTL

\* What nhgetch() reads is taken from the record only in a repetition, and recorded only
\* in a command of the player's own: the finally block of rhackCore() sees to it whether
\* the command returns or throws.
THEOREM ModesEndWithCommand == Spec => []ModesOnlyInCommand
<1>1. Inv => ModesOnlyInCommand
      BY DEF Inv
<1> QED BY <1>1, SpecInv, PTL

\* What Ctrl+A goes by is the last command with what was typed to it (the answers to an
\* extended command excepted, which are not recorded), behind nothing but a command that
\* threw between a prefix and it.
THEOREM RecordIsWhatWasTyped == Spec => []RepeatsWhatWasTyped
<1>1. Inv => RepeatsWhatWasTyped
      BY DEF Inv
<1> QED BY <1>1, SpecInv, PTL

\* The letter that handleApply() queues is behind its command until that reads it, whatever
\* interrupts the turn in between; one that is left was refused or goes with an error.
THEOREM LetterReachesCommand == Spec => []LetterForItsCommand
<1>1. Inv => LetterForItsCommand
      BY DEF Inv, AtCanned, LetterForItsCommand
<1> QED BY <1>1, SpecInv, PTL

-----------------------------------------------------------------------------
(* The refinement *)

LEMMA InitIsInit == Init => DA!Init
BY DEF Init, DA!Init, Record

\* Every step of the program is a step of the promise or none.
LEMMA NextIsNext == Inv /\ [Next]_vars => [DA!Next]_(DA!vars)
<1> SUFFICES ASSUME Inv, [Next]_vars PROVE [DA!Next]_(DA!vars)
    OBVIOUS
<1> USE Kinds DEF Record, Inv, TypeOK, ModesOnlyInCommand, AtRest, AtCommand, OwnCommand,
           DA!Next, DA!Begin, DA!Extend, DA!Repeat, DA!Hear, DA!Done, DA!vars,
           queueVars, modeVars, repeatVars, runVars, histVars
<1>1. CASE Ask
      BY <1>1, NhgetchReads DEF Ask
<1>2. CASE More
      BY <1>2, NhgetchReads DEF More
<1>3. CASE Recover
      BY <1>3, NhgetchReads DEF Recover
<1>4. ASSUME NEW key \in Keys, TypeCommand(key) PROVE [DA!Next]_(DA!vars)
      BY <1>4 DEF TypeCommand, rhackCore
<1>5. CASE RunCanned
      BY <1>5 DEF RunCanned, rhackCore
<1>6. CASE CtrlA
      BY <1>6 DEF CtrlA, execute_repeat_command
<1>7. CASE CountedCtrlA
      BY <1>7 DEF CountedCtrlA
<1>8. CASE AnswerPrompt
      BY <1>8 DEF AnswerPrompt
<1>9. CASE ReturnUntimed
      BY <1>9 DEF ReturnUntimed, AfterRhack, ResetModes, EndRepeat, NoCommand
<1>10. CASE ReturnTimed
      BY <1>10 DEF ReturnTimed, AfterRhack, ResetModes, NoCommand
<1>11. CASE ApplyWields
      BY <1>11 DEF ApplyWields, AfterRhack, ResetModes, NoCommand
<1>12. CASE RepeatBehindPrefix
      BY <1>12 DEF RepeatBehindPrefix
<1>13. CASE RunExtended
      BY <1>13 DEF RunExtended
<1>14. CASE ExtendedRepeat
      BY <1>14 DEF ExtendedRepeat, execute_repeat_command
<1>15. CASE stop_occupation
      BY <1>15 DEF stop_occupation
<1>16. CASE EndTurn
      BY <1>16 DEF EndTurn, EndRepeat
<1>17. CASE Throw
      BY <1>17 DEF Throw, ResetModes, EndRepeat, NoCommand
<1>18. CASE UNCHANGED vars
      BY <1>18 DEF vars
<1> QED BY <1>1, <1>2, <1>3, <1>4, <1>5, <1>6, <1>7, <1>8, <1>9,
           <1>10, <1>11, <1>12, <1>13, <1>14, <1>15, <1>16, <1>17, <1>18 DEF Next

\* A repetition hears what was recorded, in order and nothing else, and leaves the record
\* as it was, however it ends.
THEOREM ImplementsDoAgain == Spec => RefinesDoAgain
<1>1. Inv /\ [Next]_vars => [DA!Next]_(DA!vars)
      BY NextIsNext
<1> QED BY <1>1, InitIsInit, SpecInv, PTL DEF Spec, RefinesDoAgain, DA!Spec

=============================================================================
