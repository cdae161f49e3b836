---------------------------- MODULE CommandQueue ----------------------------
(***************************************************************************)
(* The command queues of js/input.js and all that runs commands around them *)
(* (js/allmain.js run_command, rhackCore, execute_repeat_command,           *)
(* _gameLoopStep, the catch of gameLoop; js/cmd.js rhack; js/apply.js).     *)
(* CQ_REPEAT keeps the last command and the keys it read, for Ctrl+A;       *)
(* CQ_CANNED keeps a command that another one left to be run next.          *)
(*                                                                         *)
(* One task runs it all.  What makes it hard is that every nhgetch(), at a  *)
(* prompt, at a --More--, at the end of a turn or in the catch block, takes *)
(* its key from whichever queue the modes select at that moment, that any   *)
(* step may throw, and that a repetition uses up the queue it was recorded  *)
(* in.                                                                      *)
(*                                                                         *)
(* Data.  A node is a key or an extended command.  A count typed before a   *)
(* command is read while no mode is on and leaves no trace in the queues    *)
(* (cmdq_add_int has no caller): TypeCommand is a command with or without   *)
(* one.                                                                     *)
(***************************************************************************)
EXTENDS Naturals, Sequences

CONSTANTS
  Prefixes,    \* keys of the prefix commands m F G g
  Plain,       \* other command keys; any key may be an answer as well
  Letter,      \* the inventory letter of a pick-axe, which may be any key
  Apply,       \* the key a
  Hash,        \* the key #
  ExtFns,      \* extended commands that record themselves (queueRepeatExtcmd)
  DoApply,     \* the extended command that handleApply() queues
  NoKey,       \* 0, no key
  MaxRecord    \* bound: nodes typed into CQ_REPEAT

Keys == Prefixes \union Plain \union {Apply, Hash}
Fns == ExtFns \union {DoApply}
Node == Keys \union Fns

ASSUME NodeAssumption ==
  /\ Letter \in Keys
  /\ Keys \intersect Fns = {} /\ DoApply \notin ExtFns
  /\ Prefixes \intersect Plain = {} /\ Apply # Hash
  /\ {Apply, Hash} \intersect (Prefixes \union Plain) = {}
  /\ NoKey \notin Node

ASSUME BoundsAssumption == MaxRecord \in Nat

VARIABLES
  CQ_CANNED, CQ_REPEAT,   \* _cmdQueues
  inputModeDoAgain,       \* cmdqInputModeDoAgain: nhgetch() reads CQ_REPEAT
  repeatRecordMode,       \* cmdqRepeatRecordMode: nhgetch() records what is typed
  inDoAgain,              \* game.inDoAgain
  repeatCopy,             \* of execute_repeat_command(), until it returns
  chainActive,            \* game._repeatPrefixChainActive
  pendingPrompt,          \* whether an in-band prompt owns the next key
  pc,                     \* where the task is: loop, rhack, turn, error
  chCode,                 \* what run_command() was given: a key, or NoKey
  cmd,                    \* the command that rhack() runs
  heard,                  \* the last key it read
  refused,                \* history: the last command was a canned one that read no key
  typed,                  \* history: the last command and the keys typed to it
  glue,                   \* history: what ties the next command typed to it
  kept                    \* history: a command that failed behind its prefix

queueVars == <<CQ_CANNED, CQ_REPEAT>>
modeVars == <<inputModeDoAgain, repeatRecordMode>>
repeatVars == <<inDoAgain, repeatCopy>>
runVars == <<pc, chCode, cmd, heard, refused>>
histVars == <<typed, glue, kept>>
vars == <<queueVars, modeVars, repeatVars, chainActive, pendingPrompt, runVars, histVars>>

Init ==
  /\ CQ_CANNED = <<>> /\ CQ_REPEAT = <<>>
  /\ inputModeDoAgain = FALSE /\ repeatRecordMode = FALSE
  /\ inDoAgain = FALSE /\ repeatCopy = <<>>
  /\ chainActive = FALSE /\ pendingPrompt = FALSE
  /\ pc = "loop" /\ chCode = NoKey /\ cmd = NoKey /\ heard = NoKey
  /\ refused = FALSE
  /\ typed = <<>> /\ glue = "none" /\ kept = <<>>

-----------------------------------------------------------------------------
(* Reading a key *)

\* cmdq_queue_kind(): the queue that nhgetch() looks at.
Queue == IF inputModeDoAgain THEN CQ_REPEAT ELSE CQ_CANNED

\* An extended command at the head is not taken for a key.
HasQueuedKey == Queue # <<>> /\ Head(Queue) \notin Fns

popQueuedInputKey(key) ==
  /\ HasQueuedKey /\ key = Head(Queue)
  /\ \/ /\ inputModeDoAgain
        /\ CQ_REPEAT' = Tail(CQ_REPEAT)
        /\ UNCHANGED CQ_CANNED
     \/ /\ ~inputModeDoAgain
        /\ CQ_CANNED' = Tail(CQ_CANNED)
        /\ UNCHANGED CQ_REPEAT
  /\ UNCHANGED typed

\* The player's own command runs, not one he repeats; what is typed to # is a name.
OwnCommand == pc = "rhack" /\ ~inDoAgain /\ chCode # Hash

\* Mutant: whatever is typed while a command runs is recorded, a repetition's keys too.
typedKey_always(key) ==
  /\ ~HasQueuedKey /\ key \in Keys
  /\ \/ /\ repeatRecordMode \/ inputModeDoAgain
        /\ Len(CQ_REPEAT) < MaxRecord
        /\ CQ_REPEAT' = Append(CQ_REPEAT, key)
     \/ /\ ~repeatRecordMode /\ ~inputModeDoAgain
        /\ UNCHANGED CQ_REPEAT
  /\ typed' = IF OwnCommand THEN Append(typed, key) ELSE typed
  /\ UNCHANGED CQ_CANNED

\* The key comes from the input runtime (InputQueue), and is recorded in that mode.
typedKey(key) ==
  /\ ~HasQueuedKey /\ key \in Keys
  /\ \/ /\ repeatRecordMode
        /\ Len(CQ_REPEAT) < MaxRecord
        /\ CQ_REPEAT' = Append(CQ_REPEAT, key)
     \/ /\ ~repeatRecordMode
        /\ UNCHANGED CQ_REPEAT
  /\ typed' = IF OwnCommand THEN Append(typed, key) ELSE typed
  /\ UNCHANGED CQ_CANNED

nhgetch(key) ==
  /\ popQueuedInputKey(key) \/ typedKey(key)
  /\ UNCHANGED <<glue, kept>>

\* rhack() asks: a prompt, a --More--, a menu, or the line after #.  A prefix does not.
Ask ==
  /\ pc = "rhack" /\ cmd \notin Prefixes
  /\ \E key \in Keys : nhgetch(key) /\ heard' = key
  /\ UNCHANGED <<modeVars, repeatVars, chainActive, pendingPrompt, pc, chCode, cmd,
                 refused>>

\* A --More-- that is not rhack()'s: of the turn that followed, or before the next
\* command.
More ==
  /\ pc \in {"turn", "loop"}
  /\ \E key \in Keys : nhgetch(key)
  /\ UNCHANGED <<modeVars, repeatVars, chainActive, pendingPrompt, runVars>>

\* The catch of gameLoop(): the error message is shown until a key is read.
Recover ==
  /\ pc = "error" /\ pc' = "loop"
  /\ \E key \in Keys : nhgetch(key)
  /\ UNCHANGED <<modeVars, repeatVars, chainActive, pendingPrompt, chCode, cmd, heard,
                 refused>>

-----------------------------------------------------------------------------
(* A command begins *)

\* Mutant: the line typed after # is recorded as well.
rhackCore_recordsLine(key, command) ==
  /\ inputModeDoAgain' = FALSE /\ repeatRecordMode' = TRUE
  /\ pc' = "rhack" /\ chCode' = key /\ cmd' = command /\ heard' = NoKey
  /\ refused' = FALSE
  /\ UNCHANGED <<repeatVars, pendingPrompt, chainActive>>

\* rhackCore() sets the modes and calls rhack().
rhackCore(key, command) ==
  /\ inputModeDoAgain' = FALSE /\ repeatRecordMode' = (key # Hash)
  /\ pc' = "rhack" /\ chCode' = key /\ cmd' = command /\ heard' = NoKey
  /\ refused' = FALSE
  /\ UNCHANGED <<repeatVars, pendingPrompt, chainActive>>

\* run_command() records a command that was typed; # leaves that to what it names.
\* A command behind a prefix is added to it.
TypeCommand(key) ==
  /\ pc = "loop" /\ CQ_CANNED = <<>> /\ ~pendingPrompt
  /\ \/ /\ key # Hash /\ chainActive
        /\ Len(CQ_REPEAT) < MaxRecord
        /\ CQ_REPEAT' = Append(CQ_REPEAT, key)
     \/ /\ key # Hash /\ ~chainActive
        /\ CQ_REPEAT' = <<key>>
     \/ key = Hash /\ UNCHANGED CQ_REPEAT
  /\ \/ key = Hash /\ UNCHANGED histVars
     \/ /\ key # Hash
        /\ typed' = IF glue = "prefix" THEN Append(typed, key) ELSE <<key>>
        /\ kept' = CASE glue = "prefix" -> kept
                     [] glue = "broken" -> CQ_REPEAT
                     [] OTHER -> <<>>
        /\ UNCHANGED glue
  /\ rhackCore(key, key)
  /\ UNCHANGED CQ_CANNED

\* Mutant: the key 0 of a canned command is recorded.
RunCanned_recordsZero ==
  /\ pc = "loop" /\ CQ_CANNED # <<>> /\ ~pendingPrompt
  /\ CQ_CANNED' = Tail(CQ_CANNED)
  /\ CQ_REPEAT' = <<NoKey>>
  /\ rhackCore(NoKey, Head(CQ_CANNED))
  /\ UNCHANGED histVars

\* _gameLoopStep() runs what is left in CQ_CANNED before it reads a key: rhack(0) pops
\* it, whatever it is.
RunCanned ==
  /\ pc = "loop" /\ CQ_CANNED # <<>> /\ ~pendingPrompt
  /\ CQ_CANNED' = Tail(CQ_CANNED)
  /\ rhackCore(NoKey, Head(CQ_CANNED))
  /\ UNCHANGED <<CQ_REPEAT, histVars>>

\* execute_repeat_command(): a copy of CQ_REPEAT is kept, and rhack(0) pops the command.
execute_repeat_command ==
  /\ ~inDoAgain /\ CQ_REPEAT # <<>>
  /\ repeatCopy' = CQ_REPEAT /\ inDoAgain' = TRUE
  /\ inputModeDoAgain' = TRUE /\ repeatRecordMode' = FALSE
  /\ CQ_REPEAT' = Tail(CQ_REPEAT)
  /\ pc' = "rhack" /\ chCode' = NoKey /\ cmd' = Head(CQ_REPEAT) /\ heard' = NoKey
  /\ refused' = FALSE
  /\ UNCHANGED CQ_CANNED

CtrlA ==
  /\ pc = "loop" /\ CQ_CANNED = <<>> /\ ~pendingPrompt
  /\ execute_repeat_command
  /\ UNCHANGED <<chainActive, pendingPrompt, histVars>>

\* Behind a count Ctrl+A reaches rhack() as a key, which is no command there.
CountedCtrlA ==
  /\ pc = "loop" /\ CQ_CANNED = <<>> /\ ~pendingPrompt
  /\ chainActive' = FALSE /\ glue' = "none"
  /\ UNCHANGED <<queueVars, modeVars, repeatVars, pendingPrompt, runVars, typed, kept>>

\* promptStep(): an in-band prompt has the key, which no queue records; Ctrl+A is
\* a key 0 to it.  It may be done or ask again, and may take a turn or throw.
AnswerPrompt ==
  /\ pc = "loop" /\ CQ_CANNED = <<>> /\ pendingPrompt
  /\ pendingPrompt' \in BOOLEAN
  /\ \/ pc' \in {"loop", "turn", "error"} /\ UNCHANGED repeatVars
     \/ /\ pc' = "turn"
        /\ CQ_REPEAT # <<>> /\ inDoAgain' = TRUE /\ repeatCopy' = CQ_REPEAT
  /\ UNCHANGED <<queueVars, modeVars, chainActive, chCode, cmd, heard, refused, histVars>>

-----------------------------------------------------------------------------
(* A command ends *)

\* The finally blocks of rhackCore() ...
ResetModes == inputModeDoAgain' = FALSE /\ repeatRecordMode' = FALSE

\* ... and of execute_repeat_command(): cmdq_restore().
EndRepeat ==
  /\ inDoAgain' = FALSE /\ repeatCopy' = <<>>
  /\ CQ_REPEAT' = IF inDoAgain THEN repeatCopy ELSE CQ_REPEAT

NoCommand == chCode' = NoKey /\ cmd' = NoKey /\ heard' = NoKey

\* rhackCore() after rhack(): a prefix is remembered, but not by a repetition.
AfterRhack(timed) ==
  /\ ResetModes
  /\ chainActive' = IF inDoAgain THEN chainActive ELSE ~timed /\ chCode \in Prefixes
  /\ glue' = CASE inDoAgain -> glue
               [] ~inDoAgain /\ chCode \in Prefixes -> "prefix"
               [] OTHER -> "none"
  /\ NoCommand
  /\ UNCHANGED <<typed, kept>>

\* A command that takes no time is over.  It may have left a prompt in its place.  When
\* nothing is left to apply (a nymph took it in the turn of the wielding, and theft stops
\* nothing) handleApply() returns before it reads: the letter of the canned command stays.
ReturnUntimed ==
  /\ pc = "rhack" /\ pc' = "loop"
  /\ pendingPrompt' \in (IF cmd \in Plain THEN BOOLEAN ELSE {FALSE})
  /\ refused' = (cmd = DoApply /\ heard = NoKey)
  /\ AfterRhack(FALSE)
  /\ EndRepeat
  /\ UNCHANGED CQ_CANNED

\* One that takes time is followed by its turn, of which a repetition is a part.  Applying
\* takes none before it has read what to apply.
ReturnTimed ==
  /\ pc = "rhack" /\ pc' = "turn"
  /\ cmd \in {Apply, DoApply} => heard # NoKey
  /\ cmd \notin Prefixes
  /\ AfterRhack(TRUE)
  /\ UNCHANGED <<queueVars, repeatVars, pendingPrompt, refused>>

\* handleApply(): a pick-axe that is not wielded is wielded, which takes the time, and
\* the applying is queued to be done again.
ApplyWields ==
  /\ pc = "rhack" /\ pc' = "turn"
  /\ cmd \in {Apply, DoApply} /\ heard = Letter
  /\ CQ_CANNED' = CQ_CANNED \o <<DoApply, Letter>>
  /\ AfterRhack(TRUE)
  /\ UNCHANGED <<CQ_REPEAT, repeatVars, pendingPrompt, refused>>

\* In a repetition a prefix goes on to the command behind it, except that F, G and g
\* are cancelled if they are in force already.
RepeatBehindPrefix ==
  /\ pc = "rhack" /\ inDoAgain /\ cmd \in Prefixes
  /\ CQ_REPEAT # <<>>
  /\ cmd' = Head(CQ_REPEAT) /\ CQ_REPEAT' = Tail(CQ_REPEAT)
  /\ UNCHANGED <<CQ_CANNED, modeVars, repeatVars, chainActive, pendingPrompt, pc,
                 chCode, heard, refused, histVars>>

\* handleExtendedCommand(): the command named records itself, in place of what was
\* there, and runs.
RunExtended ==
  /\ pc = "rhack" /\ cmd = Hash
  /\ \E fn \in ExtFns :
       /\ cmd' = fn
       /\ \/ inDoAgain /\ UNCHANGED <<CQ_REPEAT, typed, kept>>
          \/ ~inDoAgain /\ CQ_REPEAT' = <<fn>> /\ typed' = <<fn>> /\ kept' = <<>>
  /\ UNCHANGED <<CQ_CANNED, modeVars, repeatVars, chainActive, pendingPrompt, pc,
                 chCode, heard, refused, glue>>

\* #repeat: rhackCore() returns first, then run_command() repeats.
ExtendedRepeat ==
  /\ pc = "rhack" /\ cmd = Hash
  /\ execute_repeat_command
  /\ chainActive' = FALSE /\ glue' = "none"
  /\ UNCHANGED <<pendingPrompt, typed, kept>>

\* Mutant: the queued command is dropped, its letter is not.
stop_occupation_oneNode ==
  /\ pc = "turn"
  /\ CQ_CANNED' = IF CQ_CANNED = <<>> THEN <<>> ELSE Tail(CQ_CANNED)
  /\ pendingPrompt' \in {pendingPrompt, FALSE}
  /\ UNCHANGED <<CQ_REPEAT, modeVars, repeatVars, chainActive, runVars, histVars>>

\* A turn in which something happens to the hero; an occupation ends with its prompt.
stop_occupation ==
  /\ pc = "turn"
  /\ CQ_CANNED' = <<>>
  /\ pendingPrompt' \in {pendingPrompt, FALSE}
  /\ UNCHANGED <<CQ_REPEAT, modeVars, repeatVars, chainActive, runVars, histVars>>

EndTurn ==
  /\ pc = "turn" /\ pc' = "loop"
  /\ EndRepeat
  /\ UNCHANGED <<CQ_CANNED, modeVars, chainActive, pendingPrompt, chCode, cmd, heard,
                 refused, histVars>>

\* Mutant: the modes are reset only behind a rhack() that returns.
Throw_keepsModes ==
  /\ pc # "error" /\ pc' = "error"
  /\ EndRepeat /\ NoCommand
  /\ glue' = IF pc = "rhack" /\ ~inDoAgain /\ glue # "none" THEN "broken" ELSE glue
  /\ UNCHANGED <<CQ_CANNED, modeVars, chainActive, pendingPrompt, refused, typed, kept>>

\* rhack(), the turn or a --More-- in the loop throws.  The finally blocks run; what
\* follows them does not.
Throw ==
  /\ pc # "error" /\ pc' = "error"
  /\ ResetModes /\ EndRepeat /\ NoCommand
  /\ glue' = IF pc = "rhack" /\ ~inDoAgain /\ glue # "none" THEN "broken" ELSE glue
  /\ UNCHANGED <<CQ_CANNED, chainActive, pendingPrompt, refused, typed, kept>>

Next ==
  \/ Ask \/ More \/ Recover
  \/ \E key \in Keys : TypeCommand(key)
  \/ RunCanned \/ CtrlA \/ CountedCtrlA \/ AnswerPrompt
  \/ ReturnUntimed \/ ReturnTimed \/ ApplyWields \/ RepeatBehindPrefix
  \/ RunExtended \/ ExtendedRepeat \/ stop_occupation \/ EndTurn \/ Throw

Spec == Init /\ [][Next]_vars

-----------------------------------------------------------------------------
(* Properties *)

TypeOK ==
  /\ CQ_CANNED \in Seq(Node) /\ CQ_REPEAT \in Seq(Node) /\ repeatCopy \in Seq(Node)
  /\ inputModeDoAgain \in BOOLEAN /\ repeatRecordMode \in BOOLEAN
  /\ inDoAgain \in BOOLEAN /\ chainActive \in BOOLEAN /\ pendingPrompt \in BOOLEAN
  /\ pc \in {"loop", "rhack", "turn", "error"}
  /\ chCode \in Keys \union {NoKey} /\ cmd \in Node \union {NoKey}
  /\ heard \in Keys \union {NoKey} /\ refused \in BOOLEAN
  /\ typed \in Seq(Node) /\ kept \in Seq(Node)
  /\ glue \in {"none", "prefix", "broken"}

\* The record that Ctrl+A goes by, whether a repetition is under way or not.
Record == IF inDoAgain THEN repeatCopy ELSE CQ_REPEAT

\* However commands were repeated, chained, canned or failed in between, what Ctrl+A
\* goes by ends with the last command and what was typed to it, except the answers to an
\* extended command, which # leaves unrecorded (OwnCommand); only a command that threw
\* behind a prefix may still be in front of it.
RepeatsWhatWasTyped == Record = kept \o typed

\* Neither the keys of a turn's messages nor those of the error message are recorded, or
\* taken from the record: the modes are on in rhack() only, and never both.
ModesOnlyInCommand ==
  /\ inputModeDoAgain <=> (pc = "rhack" /\ inDoAgain)
  /\ repeatRecordMode => (pc = "rhack" /\ ~inDoAgain)

\* A letter is never queued without its command in front of it, or that command reading
\* it next: no prompt or --More-- of the turn takes it, and an interruption of the turn
\* takes both.  Only a command that failed, or that had nothing to apply, leaves it: to the
\* error message, or to the loop, whose next --More-- takes it, or which runs it as a
\* command (C empties the queue there, nethack-c/src/cmd.c:3920-3927).
LetterForItsCommand ==
  \/ CQ_CANNED = <<>>
  \/ CQ_CANNED = <<DoApply, Letter>> /\ pc # "rhack"
  \/ /\ CQ_CANNED = <<Letter>>
     /\ \/ pc = "rhack" /\ cmd = DoApply /\ heard = NoKey
        \/ pc = "error"
        \/ pc = "loop" /\ refused

\* A repetition hears the record in order and leaves it as it was.
DA == INSTANCE DoAgain WITH
        record <- Record, repeating <- inputModeDoAgain,
        script <- IF inputModeDoAgain THEN CQ_REPEAT ELSE <<>>

RefinesDoAgain == DA!Spec

=============================================================================
