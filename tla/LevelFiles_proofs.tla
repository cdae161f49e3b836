------------------------- MODULE LevelFiles_proofs --------------------------
(***************************************************************************)
(* Proof, for any number of processes, levels and things, that a hero never *)
(* walks on a level of another game unless recovery mixed the two games.    *)
(* A step is one process's: what the other processes hold and the files     *)
(* they wrote stay theirs (OneStep), so each action is looked at only for   *)
(* its own process and the files it writes.                                 *)
(***************************************************************************)
EXTENDS LevelFiles, TLAPS

-----------------------------------------------------------------------------
(* Types *)

AtGame == {"check", "levels", "arrived", "saving level", "create", "write", "play",
           "leaving", "between", "saving", "saved state", "emptying", "unlocking"}
AtRecovery == {"recovering", "recovered", "unlinking", "tool", "tool state", "tool rest"}
AtStart == {"unborn", "asked", "locked", "newgame"}
Points == AtGame \cup AtRecovery \cup AtStart \cup {"dead"}

Copy == {Empty} \cup Contents
GameMemory ==
  [game : Games, at : Levels, inv : SUBSET Things, made : SUBSET Levels,
   here : SUBSET Things, from : Games, to : Levels, left : Partial(Levels, Copy),
   then : {"play", "levels"}]
RecoveryMemory == [game : Games, state : States, cur : Copy, processed : SUBSET Levels]

Locks == {NoFile, Empty} \cup [kind : {"pid"}, pid : Procs]
           \cup [kind : {"state"}, pid : Procs, state : States]
LevelFileSet == {NoFile, Empty}
  \cup [kind : {"level"}, pid : Procs, game : Games, things : SUBSET Things]
Saves == {NoFile, Empty} \cup [kind : {"head"}, by : Procs]
           \cup [kind : {"save"}, by : Procs, state : States, levels : Partial(Levels, Copy)]

PlacesType == pc \in [Procs -> Points] /\ mem = [p \in Procs |-> mem[p]]

DiskType ==
  /\ lock \in Locks /\ levels \in [Levels -> LevelFileSet] /\ save \in Saves
  /\ readable \in BOOLEAN

HistoryType ==
  /\ rivalry \in BOOLEAN
  /\ now \in [Games -> {Nowhere} \cup Snapshots]
  /\ kept \in [Games -> {Nowhere} \cup Snapshots]
  /\ over \subseteq Games /\ torn \subseteq Games /\ littered \subseteq Games
  /\ mixed \subseteq Games /\ accused \subseteq Games

InvType == PlacesType /\ DiskType /\ HistoryType

-----------------------------------------------------------------------------
(* The invariant *)

\* A level of game h may be found in game g.
Own(g, h) == h = g \/ g \in mixed

\* Before the first checkpoint of a new game, or the one of a level change
Arriving == {"arrived", "saving level", "check", "create", "write"}

\* What a process that plays has in memory; after a restore, the levels still
\* to be put into their files are the save file's.
GameOK(where, x) ==
  /\ x \in GameMemory /\ Own(x.game, x.from)
  /\ now[x.game] # Nowhere
  /\ x.then = "levels" => where \in {"check", "create", "write"}
  /\ where \notin Arriving \/ x.then = "levels" => kept[x.game] # Nowhere
  /\ where = "levels" \/ x.then = "levels" =>
       \A l \in DOMAIN x.left : x.left[l] \in Contents /\ Own(x.game, x.left[l].game)

\* What a process that recovers has in memory
RecoveryOK(where, x) ==
  /\ x \in RecoveryMemory /\ x.state.game = x.game
  /\ kept[x.game] # Nowhere
  /\ where = "tool state" => x.cur = Empty \/ Own(x.game, x.cur.game)

MemoryOK(where, x) ==
  /\ where \in AtGame => GameOK(where, x)
  /\ where \in AtRecovery => RecoveryOK(where, x)
  /\ where \in AtStart \cup {"dead"} => x = NoGame

LockOK(f) == f.kind = "state" => kept[f.state.game] # Nowhere

LevelOK(f) ==
  f.kind = "level" =>
    \/ pc[f.pid] = "dead"
    \/ pc[f.pid] \in AtGame /\ Own(mem[f.pid].game, f.game)

SaveOK(s) ==
  s.kind = "save" =>
    /\ kept[s.state.game] # Nowhere
    /\ s.state.at \in DOMAIN s.levels
    /\ \A l \in DOMAIN s.levels : s.levels[l] = Empty \/ Own(s.state.game, s.levels[l].game)

\* What p has written of a save file
WriterOK(p) ==
  save.kind = "save" /\ save.by = p =>
    /\ pc[p] \notin {"unborn", "tool", "tool state", "saving"}
    /\ pc[p] \in {"saved state", "emptying", "tool rest"} => save.state.game = mem[p].game

IInv ==
  /\ InvType
  /\ \A p \in Procs : MemoryOK(pc[p], mem[p])
  /\ LockOK(lock)
  /\ \A l \in Levels : LevelOK(levels[l])
  /\ SaveOK(save)
  /\ \A p \in Procs : WriterOK(p)

LEMMA LockParts ==
  ASSUME NEW f \in Locks
  PROVE  f.kind = "state" => f.state \in States /\ f.pid \in Procs
BY DEF Locks, NoFile, Empty

LEMMA LevelParts ==
  ASSUME NEW f \in LevelFileSet
  PROVE  /\ f.kind = "level" => f.pid \in Procs /\ f.game \in Games /\ f.things \in SUBSET Things
         /\ f # NoFile /\ f # Empty => f.kind = "level"
BY DEF LevelFileSet, NoFile, Empty

LEMMA SaveParts ==
  ASSUME NEW s \in Saves
  PROVE  /\ s.kind = "save" => /\ s.by \in Procs /\ s.state \in States
                               /\ s.levels \in Partial(Levels, Copy)
         /\ s.kind = "save" =>
              s \in [kind : {"save"}, by : Procs, state : States, levels : Partial(Levels, Copy)]
         /\ s = Empty => s.kind # "save"
         /\ s = NoFile => s.kind # "save"
BY DEF Saves, NoFile, Empty

LEMMA PartialParts ==
  ASSUME NEW f \in Partial(Levels, Copy)
  PROVE  /\ DOMAIN f \in SUBSET Levels /\ \A l \in DOMAIN f : f[l] \in Copy
         /\ f = [l \in DOMAIN f |-> f[l]]
BY DEF Partial

LEMMA PartialMade ==
  ASSUME NEW f, f = [l \in DOMAIN f |-> f[l]], DOMAIN f \in SUBSET Levels,
         \A l \in DOMAIN f : f[l] \in Copy
  PROVE  f \in Partial(Levels, Copy)
<1>1. f \in [DOMAIN f -> Copy]
  OBVIOUS
<1> QED BY <1>1 DEF Partial

LEMMA CopyNotEmpty ==
  ASSUME NEW x \in Contents PROVE x # Empty
<1>1. x.game \in Games /\ DOMAIN x = {"game", "things"}
  BY DEF Contents
<1>2. DOMAIN Empty = {"kind"}
  BY DEF Empty
<1>3. "game" \notin {"kind"} /\ "game" \in {"game", "things"}
  OBVIOUS
<1> QED BY <1>1, <1>2, <1>3

-----------------------------------------------------------------------------
(* One step *)

\* A step of process p: the others keep what they have, and nothing that was
\* known is forgotten.
Remembered ==
  /\ mixed \subseteq mixed'
  /\ \A g \in Games : kept[g] # Nowhere => kept'[g] # Nowhere
  /\ \A g \in Games : now[g] # Nowhere => now'[g] # Nowhere

OneStep(p) ==
  /\ InvType' /\ Remembered
  /\ \A q \in Procs \ {p} : pc'[q] = pc[q] /\ mem'[q] = mem[q]

\* p ends, goes on with the game it has, or had none.
SameGame(p) ==
  \/ pc'[p] = "dead"
  \/ pc'[p] \in AtGame /\ pc[p] \in AtGame /\ mem'[p].game = mem[p].game
  \/ pc[p] \in AtStart \cup AtRecovery

LockWritten ==
  lock' = lock \/ lock'.kind # "state" \/ kept'[lock'.state.game] # Nowhere

LevelsWritten(p) ==
  \A l \in Levels :
    \/ levels'[l] = levels[l] \/ levels'[l].kind # "level"
    \/ /\ levels'[l].pid = p /\ pc'[p] \in AtGame
       /\ Own(mem[p].game, levels[l].game)'

SaveWritten(p) ==
  \/ save' = save \/ save'.kind # "save"
  \/ save'.by = p /\ SaveOK(save)'

LEMMA OwnStays ==
  ASSUME mixed \subseteq mixed', NEW g, NEW h, Own(g, h) PROVE Own(g, h)'
BY DEF Own

LEMMA OthersMemory ==
  ASSUME IInv, NEW p \in Procs, OneStep(p), NEW q \in Procs \ {p}
  PROVE  MemoryOK(pc[q], mem[q])'
<1>1. pc'[q] = pc[q] /\ mem'[q] = mem[q] /\ MemoryOK(pc[q], mem[q])
  BY DEF IInv, OneStep, Remembered
<1> DEFINE x == mem[q]
<1>2. ASSUME pc[q] \in AtGame PROVE GameOK(pc[q], x)'
  <2>1. GameOK(pc[q], x)
    BY <1>1, <1>2 DEF MemoryOK
  <2>2. x.game \in Games
    BY <2>1 DEF GameOK, GameMemory
  <2>3. now'[x.game] # Nowhere
    BY <2>1, <2>2 DEF GameOK, OneStep, Remembered
  <2>4. kept[x.game] # Nowhere => kept'[x.game] # Nowhere
    BY <2>2 DEF OneStep, Remembered
  <2>5. ASSUME NEW g, NEW h, Own(g, h) PROVE Own(g, h)'
    BY <2>5, OwnStays DEF OneStep, Remembered
  <2>6. Own(x.game, x.from)'
    BY <2>1, <2>5, <1>1 DEF GameOK
  <2>7. \A l \in DOMAIN x.left : Own(x.game, x.left[l].game) => Own(x.game, x.left[l].game)'
    BY <2>5, <1>1
  <2> QED BY <2>1, <2>3, <2>4, <2>6, <2>7, <1>1 DEF GameOK
<1>3. ASSUME pc[q] \in AtRecovery PROVE RecoveryOK(pc[q], x)'
  <2>1. RecoveryOK(pc[q], x)
    BY <1>1, <1>3 DEF MemoryOK
  <2>2. x.game \in Games
    BY <2>1 DEF RecoveryOK, RecoveryMemory
  <2>3. kept'[x.game] # Nowhere
    BY <2>1, <2>2 DEF RecoveryOK, OneStep, Remembered
  <2>4. Own(x.game, x.cur.game) => Own(x.game, x.cur.game)'
    BY <1>1 DEF Own, OneStep, Remembered
  <2> QED BY <2>1, <2>3, <2>4, <1>1 DEF RecoveryOK
<1> QED BY <1>1, <1>2, <1>3 DEF MemoryOK

LEMMA Step ==
  ASSUME IInv, NEW p \in Procs, OneStep(p), SameGame(p), MemoryOK(pc[p], mem[p])',
         LockWritten, LevelsWritten(p), SaveWritten(p), WriterOK(p)'
  PROVE  IInv'
<1>1. \A q \in Procs : MemoryOK(pc[q], mem[q])'
  BY OthersMemory
<1>2. LockOK(lock)'
  <2>1. ASSUME lock' = lock, lock.kind = "state" PROVE kept'[lock.state.game] # Nowhere
    <3>1. lock.state.game \in Games
      BY <2>1, LockParts DEF IInv, InvType, DiskType, States
    <3> QED BY <2>1, <3>1 DEF IInv, LockOK, OneStep, Remembered
  <2> QED BY <2>1 DEF LockOK, LockWritten
<1>3. ASSUME NEW l \in Levels PROVE LevelOK(levels[l])'
  <2> DEFINE f == levels[l]
  <2> SUFFICES ASSUME levels'[l] = f, f.kind = "level" PROVE LevelOK(levels[l])'
    BY DEF LevelsWritten, LevelOK
  <2>1. f.pid \in Procs /\ LevelOK(f)
    BY LevelParts DEF IInv, InvType, DiskType
  <2>2. CASE f.pid # p
    <3>1. pc'[f.pid] = pc[f.pid] /\ mem'[f.pid] = mem[f.pid]
      BY <2>1, <2>2 DEF OneStep, Remembered
    <3>2. Own(mem[f.pid].game, f.game) => Own(mem[f.pid].game, f.game)'
      BY <3>1 DEF Own, OneStep, Remembered
    <3> QED BY <2>1, <3>1, <3>2 DEF LevelOK
  <2>3. CASE f.pid = p
    <3>1. pc[p] = "dead" \/ (pc[p] \in AtGame /\ Own(mem[p].game, f.game))
      BY <2>1, <2>3 DEF LevelOK
    <3>2. pc[p] \notin AtStart \cup AtRecovery
      BY <3>1 DEF AtStart, AtRecovery, AtGame
    <3>3. CASE pc'[p] = "dead"
      BY <3>3, <2>3 DEF LevelOK
    <3>4. CASE pc'[p] # "dead"
      <4>1. pc'[p] \in AtGame /\ pc[p] \in AtGame /\ mem'[p].game = mem[p].game
        BY <3>2, <3>4 DEF SameGame
      <4>2. Own(mem[p].game, f.game)
        BY <4>1, <3>1 DEF AtGame
      <4> QED BY <4>1, <4>2, <2>3 DEF LevelOK, Own, OneStep, Remembered
    <3> QED BY <3>3, <3>4
  <2> QED BY <2>2, <2>3
<1>4. SaveOK(save)'
  <2>1. ASSUME save' = save, save.kind = "save" PROVE SaveOK(save)'
    <3>1. SaveOK(save) /\ save.state \in States
      BY <2>1, SaveParts DEF IInv, InvType, DiskType
    <3>2. kept'[save.state.game] # Nowhere
      BY <3>1, <2>1 DEF SaveOK, States, OneStep, Remembered
    <3>3. \A l \in DOMAIN save.levels :
             save.levels[l] = Empty \/ (save.levels[l].game = save.state.game
                                          \/ save.state.game \in mixed')
      BY <3>1, <2>1 DEF SaveOK, Own, OneStep, Remembered
    <3> QED BY <3>1, <3>2, <3>3, <2>1 DEF SaveOK, Own
  <2> QED BY <2>1 DEF SaveWritten, SaveOK
<1>5. \A q \in Procs : WriterOK(q)'
  <2> SUFFICES ASSUME NEW q \in Procs \ {p} PROVE WriterOK(q)'
    OBVIOUS
  <2>1. CASE save' = save
    BY <2>1 DEF IInv, WriterOK, OneStep, Remembered
  <2>2. CASE save'.kind # "save" \/ save'.by = p
    BY <2>2 DEF WriterOK
  <2> QED BY <2>1, <2>2 DEF SaveWritten
<1> QED BY <1>1, <1>2, <1>3, <1>4, <1>5 DEF IInv, OneStep, Remembered

\* Where p goes and what it has then
Moves(p, w, x) ==
  /\ PlacesType'
  /\ pc'[p] = w /\ mem'[p] = x
  /\ \A q \in Procs \ {p} : pc'[q] = pc[q] /\ mem'[q] = mem[q]

LEMMA MovesBy ==
  ASSUME IInv, NEW p \in Procs, NEW w \in Points, NEW x,
         Goto(p, w), mem' = [mem EXCEPT ![p] = x]
  PROVE  Moves(p, w, x)
BY DEF IInv, InvType, PlacesType, Goto, Moves

LEMMA MovesOn ==
  ASSUME IInv, NEW p \in Procs, NEW w \in Points, Goto(p, w), mem' = mem
  PROVE  Moves(p, w, mem[p])
BY DEF IInv, InvType, PlacesType, Goto, Moves

LEMMA MovesNot ==
  ASSUME IInv, NEW p \in Procs, NEW x, pc' = pc, mem' = [mem EXCEPT ![p] = x]
  PROVE  Moves(p, pc[p], x)
BY DEF IInv, InvType, PlacesType, Moves

LEMMA MovesOut ==
  ASSUME IInv, NEW p \in Procs, Exit(p)
  PROVE  Moves(p, "dead", NoGame)
BY MovesBy DEF Exit, Points

LEMMA HistoryStays ==
  ASSUME IInv, now' = now, kept' = kept, over' = over, torn' = torn, littered' = littered,
         rivalry' = rivalry, mixed' = mixed, accused' = accused
  PROVE  HistoryType' /\ Remembered
BY DEF IInv, InvType, HistoryType, Remembered

\* A process that ends may take files with it.
LEMMA Ends ==
  ASSUME IInv, NEW p \in Procs, Exit(p), DiskType', HistoryType', Remembered,
         lock' = lock \/ lock'.kind # "state",
         \A l \in Levels : levels'[l] = levels[l] \/ levels'[l].kind # "level",
         save' = save \/ save'.kind # "save"
  PROVE  IInv'
<1>1. Moves(p, "dead", NoGame)
  BY MovesOut
<1>2. OneStep(p) /\ SameGame(p)
  BY <1>1 DEF OneStep, SameGame, Moves, InvType
<1>3. MemoryOK(pc[p], mem[p])'
  BY <1>1 DEF Moves, MemoryOK, AtGame, AtRecovery
<1>4. LockWritten /\ LevelsWritten(p) /\ SaveWritten(p)
  BY DEF LockWritten, LevelsWritten, SaveWritten
<1>5. WriterOK(p)'
  BY <1>1 DEF Moves, WriterOK
<1> QED BY <1>2, <1>3, <1>4, <1>5, Step

\* A process that goes on may create and delete files as well; what it writes
\* into them is the caller's to show.
LEMMA GoesOn ==
  ASSUME IInv, NEW p \in Procs, NEW w \in Points, NEW x, Moves(p, w, x),
         DiskType', HistoryType', Remembered,
         MemoryOK(w, x)', LockWritten, LevelsWritten(p), SaveWritten(p), WriterOK(p)',
         \/ w \in AtGame /\ pc[p] \in AtGame /\ x.game = mem[p].game
         \/ pc[p] \in AtStart \cup AtRecovery
  PROVE  IInv'
<1>1. OneStep(p) /\ SameGame(p)
  BY DEF OneStep, SameGame, Moves, InvType
<1>2. MemoryOK(pc[p], mem[p])'
  BY DEF Moves
<1> QED BY <1>1, <1>2, Step

\* A process without a game
LEMMA Starts ==
  ASSUME IInv, NEW p \in Procs, NEW w \in AtStart \ {"unborn"}, Moves(p, w, NoGame),
         pc[p] \in AtStart \cup AtRecovery, DiskType', HistoryType', Remembered,
         lock' = lock \/ lock'.kind # "state",
         \A l \in Levels : levels'[l] = levels[l] \/ levels'[l].kind # "level",
         save' = save \/ save'.kind # "save"
  PROVE  IInv'
<1>1. MemoryOK(w, NoGame)'
  BY DEF MemoryOK, AtStart, AtGame, AtRecovery
<1>2. LockWritten /\ LevelsWritten(p) /\ SaveWritten(p)
  BY DEF LockWritten, LevelsWritten, SaveWritten
<1>3. WriterOK(p)
  BY DEF IInv
<1>4. WriterOK(p)'
  BY DEF WriterOK, Moves, AtStart
<1>5. w \in Points
  BY DEF Points
<1> QED BY <1>1, <1>2, <1>4, <1>5, GoesOn

LEMMA NoGameYet ==
  ASSUME IInv, NEW p \in Procs, pc[p] \in AtStart PROVE mem[p] = NoGame
BY DEF IInv, MemoryOK

LEMMA DiskStays ==
  ASSUME IInv, UNCHANGED disk PROVE DiskType'
BY DEF IInv, InvType, DiskType, disk

LEMMA Kinds ==
  /\ NoFile.kind = "none" /\ Empty.kind = "empty"
  /\ \A p \in Procs : PidOnly(p).kind = "pid"
BY DEF NoFile, Empty, PidOnly

\* What a file may become
LEMMA FileTypes ==
  /\ {NoFile, Empty} \subseteq Locks \cap LevelFileSet \cap Saves
  /\ \A p \in Procs : PidOnly(p) \in Locks
  /\ \A p \in Procs, g \in Games, things \in SUBSET Things : LevelFile(p, g, things) \in LevelFileSet
  /\ \A p \in Procs, s \in States, c \in Partial(Levels, Copy) : SaveFile(p, s, c) \in Saves
BY DEF Locks, LevelFileSet, Saves, PidOnly, LevelFile, SaveFile

-----------------------------------------------------------------------------
(* getlock() and recovery *)

LEMMA GetlockFree ==
  ASSUME IInv, NEW p \in Procs, getlock_free(p) PROVE IInv'
<1>1. pc[p] \in AtStart /\ mem[p] = NoGame
  BY NoGameYet DEF getlock_free, MayStart, AtStart
<1>2. Moves(p, "locked", NoGame)
  BY <1>1, MovesOn DEF getlock_free, Points, AtStart
<1>3. DiskType'
  BY FileTypes DEF getlock_free, IInv, InvType, DiskType
<1>4. HistoryType' /\ Remembered
  BY DEF getlock_free, Enters, IInv, InvType, HistoryType, Remembered
<1> QED BY <1>1, <1>2, <1>3, <1>4, Starts, Kinds DEF getlock_free, AtStart

LEMMA GetlockBusy ==
  ASSUME IInv, NEW p \in Procs, getlock_busy(p) PROVE IInv'
<1>1. pc[p] \in AtStart /\ mem[p] = NoGame
  BY NoGameYet DEF getlock_busy, MayStart, AtStart
<1>2. Moves(p, "asked", NoGame)
  BY <1>1, MovesOn DEF getlock_busy, Points, AtStart
<1>3. DiskType' /\ HistoryType' /\ Remembered
  BY DiskStays, HistoryStays DEF getlock_busy, history
<1> QED BY <1>1, <1>2, <1>3, Starts DEF getlock_busy, AtStart, disk

LEMMA AnswerNo ==
  ASSUME IInv, NEW p \in Procs, answer_no(p) PROVE IInv'
<1>1. DiskType' /\ HistoryType' /\ Remembered
  BY DiskStays, HistoryStays DEF answer_no, history
<1> QED BY <1>1, Ends DEF answer_no, disk

LEMMA EraseOldLocks ==
  ASSUME IInv, NEW p \in Procs, eraseoldlocks(p) PROVE IInv'
<1>1. pc[p] \in AtStart /\ mem[p] = NoGame
  BY NoGameYet DEF eraseoldlocks, MayStart, AtStart
<1>2. levels' \in [Levels -> LevelFileSet] /\ \A l \in Levels : levels'[l].kind # "level"
  BY FileTypes, Kinds DEF eraseoldlocks
<1>3. over' \subseteq Games
  <2>1. lock.kind = "state" => lock.state.game \in Games
    BY LockParts DEF IInv, InvType, DiskType, States
  <2>2. save.kind = "save" => save.state.game \in Games
    BY SaveParts DEF IInv, InvType, DiskType, States
  <2>3. over \subseteq Games
    BY DEF IInv, InvType, HistoryType
  <2> QED BY <2>1, <2>2, <2>3 DEF eraseoldlocks
<1>4. HistoryType' /\ Remembered
  BY <1>3 DEF eraseoldlocks, Enters, IInv, InvType, HistoryType, Remembered
<1>5. DiskType'
  BY <1>2, FileTypes DEF eraseoldlocks, IInv, InvType, DiskType
<1>6. CASE lock = NoFile
  BY <1>2, <1>4, <1>5, <1>6, Ends DEF eraseoldlocks
<1>7. CASE lock # NoFile
  <2>1. Moves(p, "locked", NoGame)
    BY <1>1, <1>7, MovesOn DEF eraseoldlocks, Points, AtStart
  <2>2. lock'.kind # "state" /\ save' = save
    BY <1>7, Kinds DEF eraseoldlocks
  <2> QED BY <1>1, <1>2, <1>4, <1>5, <2>1, <2>2, Starts DEF AtStart
<1> QED BY <1>6, <1>7

LEMMA CopiesParts ==
  ASSUME IInv
  PROVE  /\ DOMAIN Copies = {l \in Levels : levels[l] # NoFile}
         /\ \A l \in DOMAIN Copies :
              /\ Copies[l] \in Copy
              /\ \/ Copies[l] = Empty
                 \/ /\ levels[l].kind = "level" /\ Copies[l].game = levels[l].game
                    /\ Copies[l] \in Contents
<1>1. DOMAIN Copies = {l \in Levels : levels[l] # NoFile}
  BY DEF Copies
<1>2. ASSUME NEW l \in DOMAIN Copies
      PROVE  \/ Copies[l] = Empty
             \/ /\ levels[l].kind = "level" /\ Copies[l].game = levels[l].game
                /\ Copies[l] \in Contents
  <2>1. CASE levels[l] = Empty
    BY <2>1 DEF Copies
  <2>2. CASE levels[l] # Empty
    <3>1. levels[l] \in LevelFileSet /\ levels[l] # NoFile
      BY <1>1 DEF IInv, InvType, DiskType
    <3>2. levels[l].kind = "level" /\ levels[l].game \in Games /\ levels[l].things \in SUBSET Things
      BY <3>1, <2>2, LevelParts
    <3>3. Copies[l] = [game |-> levels[l].game, things |-> levels[l].things]
      BY <2>2, <1>1 DEF Copies
    <3> QED BY <3>2, <3>3 DEF Contents
  <2> QED BY <2>1, <2>2
<1> QED BY <1>1, <1>2 DEF Copy

LEMMA RecoverOpen ==
  ASSUME IInv, NEW p \in Procs, recover_open(p) PROVE IInv'
<1>1. pc[p] \in AtStart /\ mem[p] = NoGame
  BY NoGameYet DEF recover_open, AtStart
<1>2. HistoryType' /\ Remembered
  BY DEF recover_open, Enters, IInv, InvType, HistoryType, Remembered
<1>3. DiskType'
  BY FileTypes DEF recover_open, IInv, InvType, DiskType
<1>4. levels' = levels
  BY DEF recover_open
<1>5. CASE Exit(p)
  BY <1>2, <1>3, <1>4, <1>5, Ends, Kinds DEF recover_open
<1>6. CASE ~Exit(p)
  <2>1. /\ lock.kind = "state" /\ levels[lock.state.at] # NoFile
        /\ save' = Empty /\ lock' = lock /\ Goto(p, "recovering")
        /\ mem' = [mem EXCEPT ![p] = Recovery]
    BY <1>6 DEF recover_open
  <2>2. PICK x : x = Recovery
    OBVIOUS
  <2>3. Moves(p, "recovering", x)
    BY <2>1, <2>2, MovesBy DEF Points, AtRecovery
  <2>4. lock.state \in States /\ lock.state.at \in DOMAIN Copies
    BY <2>1, LockParts, CopiesParts DEF IInv, InvType, DiskType, States
  <2>5. x \in RecoveryMemory /\ x.state = lock.state /\ x.game = lock.state.game
    BY <2>2, <2>4, CopiesParts DEF Recovery, RecoveryMemory, States
  <2>6. kept[x.game] # Nowhere /\ kept' = kept
    BY <2>1, <2>5 DEF IInv, LockOK, recover_open
  <2>7. MemoryOK("recovering", x)'
    BY <2>5, <2>6 DEF MemoryOK, RecoveryOK, AtGame, AtRecovery, AtStart
  <2>8. LockWritten /\ LevelsWritten(p) /\ SaveWritten(p) /\ WriterOK(p)'
    BY <2>1, <1>4, Kinds DEF LockWritten, LevelsWritten, SaveWritten, WriterOK
  <2> QED BY <1>1, <1>2, <1>3, <2>3, <2>7, <2>8, GoesOn DEF Points, AtRecovery
<1> QED BY <1>5, <1>6

LEMMA AtRecoveryHas ==
  ASSUME IInv, NEW p \in Procs, pc[p] \in AtRecovery
  PROVE  /\ RecoveryOK(pc[p], mem[p]) /\ mem[p].state \in States /\ mem[p].cur \in Copy
         /\ mem[p].game \in Games /\ mem[p].state.at \in Levels
BY DEF IInv, MemoryOK, RecoveryOK, RecoveryMemory, States

LEMMA RecoverCopy ==
  ASSUME IInv, NEW p \in Procs, recover_copy(p) PROVE IInv'
<1> DEFINE m == mem[p]
           copies == [l \in DOMAIN Copies \cup {m.state.at} |->
                        IF l = m.state.at THEN m.cur ELSE Copies[l]]
<1>1. pc[p] = "recovering" /\ pc[p] \in AtRecovery
  BY DEF recover_copy, AtRecovery
<1>2. /\ m \in RecoveryMemory /\ m.state.game = m.game /\ kept[m.game] # Nowhere
      /\ m.state \in States /\ m.cur \in Copy /\ m.game \in Games /\ m.state.at \in Levels
  BY <1>1, AtRecoveryHas DEF RecoveryOK
<1>3. copies \in Partial(Levels, Copy)
  <2>1. DOMAIN copies \in SUBSET Levels /\ \A l \in DOMAIN copies : copies[l] \in Copy
    BY <1>2, CopiesParts
  <2>2. copies = [l \in DOMAIN copies |-> copies[l]]
    OBVIOUS
  <2> HIDE DEF copies
  <2> QED BY <2>1, <2>2, PartialMade
<1>4. /\ save' = IF save = Empty THEN SaveFile(p, m.state, copies) ELSE save
      /\ mixed' = IF \E l \in DOMAIN copies : Mixes(m.game, copies[l])
                    THEN mixed \cup {m.game} ELSE mixed
      /\ Goto(p, "recovered") /\ kept' = kept
      /\ mem' = [mem EXCEPT ![p].processed = DOMAIN copies]
      /\ lock' = lock /\ levels' = levels
  BY DEF recover_copy
<1>5. DiskType'
  BY <1>2, <1>3, <1>4, FileTypes DEF recover_copy, IInv, InvType, DiskType
<1>6. mixed \subseteq mixed' /\ mixed' \subseteq Games
  BY <1>2, <1>4 DEF IInv, InvType, HistoryType
<1>7. HistoryType' /\ Remembered
  BY <1>6 DEF recover_copy, IInv, InvType, HistoryType, Remembered
<1>8. \A l \in DOMAIN copies : copies[l] = Empty \/ copies[l].game = m.game \/ m.game \in mixed'
  BY <1>4 DEF Mixes
<1>9. SaveWritten(p)
  <2>1. CASE save = Empty
    <3>1. save' = SaveFile(p, m.state, copies) /\ m.state.at \in DOMAIN copies
      BY <2>1, <1>4
    <3> HIDE DEF copies
    <3>2. save'.by = p /\ save'.state = m.state /\ save'.levels = copies
      BY <3>1 DEF SaveFile
    <3>3. SaveOK(save)'
      BY <3>1, <3>2, <1>2, <1>4, <1>8 DEF SaveOK, Own
    <3> QED BY <3>2, <3>3 DEF SaveWritten
  <2>2. CASE save # Empty
    BY <2>2, <1>4 DEF SaveWritten
  <2> QED BY <2>1, <2>2
<1>10. PICK x : x = [m EXCEPT !.processed = DOMAIN copies]
  OBVIOUS
<1>11. Moves(p, "recovered", x)
  <2> HIDE DEF copies
  <2> QED BY <1>4, <1>10, MovesBy DEF Points, AtRecovery
<1>12. MemoryOK("recovered", x)'
  <2>1. DOMAIN copies \in SUBSET Levels
    BY <1>2, CopiesParts
  <2> HIDE DEF copies
  <2>2. x \in RecoveryMemory /\ x.game = m.game /\ x.state = m.state
    BY <1>2, <1>10, <2>1 DEF RecoveryMemory
  <2> QED BY <1>2, <1>4, <2>2 DEF MemoryOK, RecoveryOK, AtGame, AtRecovery, AtStart
<1>13. LockWritten /\ LevelsWritten(p) /\ WriterOK(p)'
  BY <1>4, <1>11 DEF LockWritten, LevelsWritten, WriterOK, Moves
<1> HIDE DEF copies
<1> QED BY <1>1, <1>5, <1>7, <1>9, <1>11, <1>12, <1>13, GoesOn DEF Points, AtRecovery

LEMMA RecoverUnlink ==
  ASSUME IInv, NEW p \in Procs, recover_unlink(p) PROVE IInv'
<1>1. /\ pc[p] = "recovered" /\ pc[p] \in AtRecovery
      /\ lock' = NoFile /\ Goto(p, "unlinking") /\ mem' = mem
      /\ levels' = levels /\ save' = save /\ kept' = kept
  BY DEF recover_unlink, AtRecovery, history
<1>2. DiskType' /\ HistoryType' /\ Remembered
  BY FileTypes, HistoryStays DEF recover_unlink, IInv, InvType, DiskType, history
<1>3. PICK x : x = mem[p]
  OBVIOUS
<1>4. Moves(p, "unlinking", x)
  BY <1>1, <1>3, MovesOn DEF Points, AtRecovery
<1>5. MemoryOK("unlinking", x)'
  BY <1>1, <1>3, AtRecoveryHas DEF MemoryOK, RecoveryOK, AtGame, AtRecovery, AtStart
<1>6. LockWritten /\ LevelsWritten(p) /\ SaveWritten(p) /\ WriterOK(p)'
  BY <1>1, <1>4, Kinds DEF LockWritten, LevelsWritten, SaveWritten, WriterOK, Moves
<1> QED BY <1>1, <1>2, <1>4, <1>5, <1>6, GoesOn DEF Points, AtRecovery

LEMMA RecoverGotlock ==
  ASSUME IInv, NEW p \in Procs, recover_gotlock(p) PROVE IInv'
<1>1. pc[p] \in AtRecovery
  BY DEF recover_gotlock, AtRecovery
<1>2. Moves(p, "locked", NoGame)
  BY MovesBy DEF recover_gotlock, Points, AtStart
<1>3. levels' \in [Levels -> LevelFileSet] 
      /\ \A l \in Levels : levels'[l] = levels[l] \/ levels'[l].kind # "level"
  BY FileTypes, Kinds DEF recover_gotlock, unlink_processed, IInv, InvType, DiskType
<1>4. DiskType' /\ HistoryType' /\ Remembered
  BY <1>3, FileTypes, HistoryStays DEF recover_gotlock, IInv, InvType, DiskType, history
<1> QED BY <1>1, <1>2, <1>3, <1>4, Starts, Kinds DEF recover_gotlock, AtStart

-----------------------------------------------------------------------------
(* Starting from a save file, or anew *)

LEMMA SavedLevels ==
  ASSUME IInv, save.kind = "save", ~(\E l \in DOMAIN save.levels : save.levels[l] = Empty)
  PROVE  /\ save.state \in States /\ kept[save.state.game] # Nowhere
         /\ save.levels \in Partial(Levels, Copy) /\ save.state.at \in DOMAIN save.levels
         /\ \A l \in DOMAIN save.levels :
              save.levels[l] \in Contents /\ Own(save.state.game, save.levels[l].game)
<1>1. save.state \in States /\ save.levels \in Partial(Levels, Copy) /\ SaveOK(save)
  BY SaveParts DEF IInv, InvType, DiskType
<1>2. \A l \in DOMAIN save.levels : save.levels[l] \in Copy
  BY <1>1, PartialParts
<1> QED BY <1>1, <1>2 DEF SaveOK, Copy

LEMMA Restore ==
  ASSUME IInv, NEW p \in Procs, restore_saved_game(p) PROVE IInv'
<1>1. pc[p] = "locked" /\ pc[p] \in AtStart /\ mem[p] = NoGame
  BY NoGameYet DEF restore_saved_game, AtStart
<1>2. kept' = kept /\ over' = over /\ torn' = torn /\ rivalry' = rivalry /\ mixed' = mixed
      /\ accused' = accused
  BY DEF restore_saved_game
<1>3. CASE Goto(p, "newgame") /\ UNCHANGED <<disk, mem, now, littered>>
  <2>1. Moves(p, "newgame", NoGame)
    BY <1>1, <1>3, MovesOn DEF Points, AtStart
  <2>2. DiskType' /\ HistoryType' /\ Remembered
    BY <1>2, <1>3, DiskStays, HistoryStays
  <2> QED BY <1>1, <1>3, <2>1, <2>2, Starts DEF AtStart, disk
<1>4. CASE lock' = NoFile /\ Exit(p) /\ UNCHANGED <<levels, save, readable, now, littered>>
  <2>1. DiskType' /\ HistoryType' /\ Remembered
    BY <1>2, <1>4, FileTypes, HistoryStays DEF IInv, InvType, DiskType
  <2> QED BY <1>4, <2>1, Ends, Kinds
<1>5. CASE /\ save' = NoFile /\ Exit(p)
           /\ UNCHANGED <<readable, now, littered>> /\ UNCHANGED <<lock, levels>>
  <2>1. DiskType' /\ HistoryType' /\ Remembered
    BY <1>2, <1>5, FileTypes, HistoryStays DEF IInv, InvType, DiskType
  <2> QED BY <1>5, <2>1, Ends, Kinds
<1> DEFINE s == save.state
           here == save.levels[s.at]
           y == [game |-> s.game, at |-> s.at, inv |-> s.inv, made |-> s.made,
                 here |-> here.things, from |-> here.game,
                 to |-> s.at, left |-> save.levels, then |-> "levels"]
<1>6. CASE /\ save.kind = "save" /\ ~(\E l \in DOMAIN save.levels : save.levels[l] = Empty)
           /\ readable' = FALSE /\ mem' = [mem EXCEPT ![p] = y]
           /\ now' = [now EXCEPT ![s.game] = kept[s.game]]
           /\ Begins(s.game)
           /\ Goto(p, "check") /\ UNCHANGED save /\ UNCHANGED <<lock, levels>>
  <2>1. /\ s \in States /\ kept[s.game] # Nowhere
        /\ save.levels \in Partial(Levels, Copy) /\ s.at \in DOMAIN save.levels
        /\ \A l \in DOMAIN save.levels :
             save.levels[l] \in Contents /\ Own(s.game, save.levels[l].game)
    BY <1>6, SavedLevels
  <2>2. s.game \in Games /\ s.at \in Levels /\ s.inv \in SUBSET Things /\ s.made \in SUBSET Levels
    BY <2>1 DEF States
  <2>3. here.game \in Games /\ here.things \in SUBSET Things
    BY <2>1 DEF Contents
  <2>4. PICK x : x = y
    OBVIOUS
  <2>5. x \in GameMemory
    BY <2>1, <2>2, <2>3, <2>4 DEF GameMemory
  <2>6. /\ x.game = s.game /\ x.from = here.game /\ x.left = save.levels /\ x.then = "levels"
    BY <2>4
  <2>7. now'[s.game] # Nowhere
    BY <1>6, <2>1, <2>2 DEF IInv, InvType, HistoryType
  <2>8. GameOK("check", x)'
    BY <1>2, <2>1, <2>2, <2>5, <2>6, <2>7 DEF GameOK, Own, Arriving
  <2>9. MemoryOK("check", x)'
    BY <2>8 DEF MemoryOK, AtGame, AtRecovery, AtStart
  <2>10. DiskType'
    BY <1>6 DEF IInv, InvType, DiskType
  <2>11. HistoryType' /\ Remembered
    BY <1>2, <1>6, <2>1, <2>2 DEF Begins, IInv, InvType, HistoryType, Remembered
  <2>12. Moves(p, "check", x)
    BY <1>6, <2>4, MovesBy DEF Points, AtGame
  <2>13. LockWritten /\ LevelsWritten(p) /\ SaveWritten(p)
    BY <1>6 DEF LockWritten, LevelsWritten, SaveWritten
  <2>14. WriterOK(p)'
    BY <2>12 DEF WriterOK, Moves
  <2> QED BY <1>1, <2>9, <2>10, <2>11, <2>12, <2>13, <2>14, GoesOn DEF Points, AtGame
<1> HIDE DEF y, here, s
<1> QED BY <1>3, <1>4, <1>5, <1>6 DEF restore_saved_game, y, here, s

\* What a process that plays has
LEMMA AtGameHas ==
  ASSUME IInv, NEW p \in Procs, pc[p] \in AtGame
  PROVE  LET x == mem[p]
         IN /\ GameOK(pc[p], x) /\ x \in GameMemory
            /\ x.game \in Games /\ x.at \in Levels /\ x.inv \in SUBSET Things
            /\ x.made \in SUBSET Levels /\ x.here \in SUBSET Things /\ x.from \in Games
            /\ x.to \in Levels /\ x.left \in Partial(Levels, Copy)
            /\ x.then \in {"play", "levels"}
            /\ Own(x.game, x.from) /\ now[x.game] \in Snapshots
<1>1. GameOK(pc[p], mem[p])
  BY DEF IInv, MemoryOK
<1>2. mem[p] \in GameMemory
  BY <1>1 DEF GameOK
<1>3. mem[p].game \in Games
  BY <1>2 DEF GameMemory
<1>4. now[mem[p].game] \in Snapshots
  BY <1>1, <1>3 DEF GameOK, IInv, InvType, HistoryType
<1> QED BY <1>1, <1>2, <1>4 DEF GameMemory, GameOK

\* A game goes on where it knows as much.
LEMMA PlaysOn ==
  ASSUME IInv, NEW p \in Procs, pc[p] \in AtGame, NEW w \in AtGame, NEW x,
         Moves(p, w, x), GameOK(w, x)', x.game = mem[p].game,
         DiskType', HistoryType', Remembered,
         LockWritten, LevelsWritten(p), SaveWritten(p), WriterOK(p)'
  PROVE  IInv'
<1>1. MemoryOK(w, x)'
  BY DEF MemoryOK, AtGame, AtRecovery, AtStart
<1> QED BY <1>1, GoesOn DEF Points

LEMMA GameStays ==
  ASSUME NEW w, NEW x, GameOK(w, x), now' = now, kept' = kept, mixed' = mixed
  PROVE  GameOK(w, x)'
BY DEF GameOK, Own

\* A game process that has written nothing of a save file
LEMMA NotWriting ==
  ASSUME IInv, NEW p \in Procs, pc[p] \in AtGame, NEW w \in AtGame, NEW x, Moves(p, w, x),
         save' = save, w \notin {"saving", "saved state", "emptying"}
  PROVE  WriterOK(p)' /\ SaveWritten(p)
BY DEF WriterOK, SaveWritten, Moves, AtGame

LEMMA DeleteSavefile ==
  ASSUME IInv, NEW p \in Procs, delete_savefile(p) PROVE IInv'
<1>1. /\ pc[p] = "levels" /\ pc[p] \in AtGame /\ "play" \in AtGame
      /\ save' = NoFile /\ Goto(p, "play") /\ mem' = mem /\ lock' = lock /\ levels' = levels
  BY DEF delete_savefile, AtGame
<1>2. DiskType' /\ HistoryType' /\ Remembered
  BY FileTypes, HistoryStays DEF delete_savefile, IInv, InvType, DiskType, history
<1>3. PICK x : x = mem[p]
  OBVIOUS
<1>4. Moves(p, "play", x)
  BY <1>1, <1>3, MovesOn DEF Points
<1>5. GameOK("play", x)
  BY <1>1, <1>3, AtGameHas DEF GameOK, Arriving
<1>6. GameOK("play", x)'
  BY <1>5, GameStays DEF delete_savefile, history
<1>7. LockWritten /\ LevelsWritten(p) /\ SaveWritten(p) /\ WriterOK(p)'
  BY <1>1, Kinds DEF LockWritten, LevelsWritten, SaveWritten, WriterOK
<1> QED BY <1>1, <1>2, <1>3, <1>4, <1>6, <1>7, PlaysOn

LEMMA NewGame ==
  ASSUME IInv, NEW p \in Procs, newgame(p) PROVE IInv'
<1>1. pc[p] = "newgame" /\ pc[p] \in AtStart
  BY DEF newgame, AtStart
<1> DEFINE y == [game |-> p, at |-> First, inv |-> Things, made |-> {}, here |-> {},
                 from |-> p, to |-> First, left |-> << >>, then |-> "play"]
           n == [at |-> First, inv |-> Things, made |-> {First}, floor |-> [l \in Levels |-> {}]]
<1>2. /\ mem' = [mem EXCEPT ![p] = y] /\ now' = [now EXCEPT ![p] = n]
      /\ Goto(p, "arrived") /\ UNCHANGED disk
      /\ kept' = kept /\ mixed' = mixed
  BY DEF newgame
<1>3. PICK x : x = y
  OBVIOUS
<1>4. Moves(p, "arrived", x)
  BY <1>2, <1>3, MovesBy DEF Points, AtGame
<1>5. << >> \in Partial(Levels, Copy)
  <2>1. << >> = [l \in DOMAIN << >> |-> << >>[l]] /\ DOMAIN << >> = {}
    OBVIOUS
  <2> QED BY <2>1, PartialMade
<1>6. x \in GameMemory /\ x.game = p /\ x.from = p /\ x.then = "play"
  BY <1>3, <1>5, LevelAssumption DEF GameMemory, Games
<1>7. n \in Snapshots /\ n # Nowhere
  <2>1. n \in Snapshots
    BY LevelAssumption DEF Snapshots
  <2>2. DOMAIN n # DOMAIN Nowhere
    <3>1. "floor" \in DOMAIN n /\ "floor" \notin DOMAIN Nowhere
      BY DEF Nowhere
    <3> QED BY <3>1
  <2> QED BY <2>1, <2>2
<1> HIDE DEF n
<1>8. now'[p] # Nowhere /\ now' \in [Games -> {Nowhere} \cup Snapshots]
      /\ \A g \in Games : now[g] # Nowhere => now'[g] # Nowhere
  BY <1>2, <1>7 DEF IInv, InvType, HistoryType, Games
<1>9. HistoryType' /\ Remembered
  BY <1>8 DEF newgame, Begins, Games, IInv, InvType, HistoryType, Remembered
<1>10. GameOK("arrived", x)'
  BY <1>6, <1>8 DEF GameOK, Own, Arriving
<1>11. MemoryOK("arrived", x)'
  BY <1>10 DEF MemoryOK, AtRecovery, AtStart
<1>12. LockWritten /\ LevelsWritten(p) /\ SaveWritten(p)
  BY <1>2 DEF LockWritten, LevelsWritten, SaveWritten, disk
<1>13. WriterOK(p)'
  BY <1>4 DEF WriterOK, Moves
<1> QED BY <1>1, <1>2, <1>4, <1>9, <1>11, <1>12, <1>13, DiskStays, GoesOn DEF Points, AtGame

LEMMA RestLevelFile ==
  ASSUME IInv, NEW p \in Procs, NEW l \in Levels, restlevelfile(p, l) PROVE IInv'
<1> DEFINE m == mem[p]
           rest == [k \in DOMAIN m.left \ {l} |-> m.left[k]]
<1>1. /\ pc[p] = "levels" /\ pc[p] \in AtGame /\ l \in DOMAIN m.left
      /\ levels' = [levels EXCEPT ![l] = LevelFile(p, m.left[l].game, m.left[l].things)]
      /\ mem' = [mem EXCEPT ![p].left = rest, ![p].made = @ \cup {l}]
      /\ UNCHANGED <<lock, save, readable, pc, history>>
  BY DEF restlevelfile, AtGame
<1>2. /\ GameOK("levels", m) /\ m \in GameMemory /\ m.left \in Partial(Levels, Copy)
      /\ m.made \in SUBSET Levels
  BY <1>1, AtGameHas
<1>3. \A k \in DOMAIN m.left : m.left[k] \in Contents /\ Own(m.game, m.left[k].game)
  BY <1>2 DEF GameOK
<1>4. DOMAIN m.left \in SUBSET Levels /\ \A k \in DOMAIN m.left : m.left[k] \in Copy
  BY <1>2, PartialParts
<1>5. rest \in Partial(Levels, Copy)
  <2>1. rest = [k \in DOMAIN rest |-> rest[k]] /\ DOMAIN rest \in SUBSET Levels
        /\ \A k \in DOMAIN rest : rest[k] \in Copy
    BY <1>4
  <2> HIDE DEF rest
  <2> QED BY <2>1, PartialMade
<1>6. PICK x : x = [m EXCEPT !.left = rest, !.made = @ \cup {l}]
  OBVIOUS
<1>7. mem' = [mem EXCEPT ![p] = x]
  <2> HIDE DEF rest
  <2> QED BY <1>1, <1>6 DEF IInv, InvType, PlacesType
<1>8. x \in GameMemory /\ x.game = m.game /\ x.from = m.from /\ x.then = m.then /\ x.left = rest
  <2> HIDE DEF rest
  <2> QED BY <1>2, <1>5, <1>6 DEF GameMemory
<1>9. GameOK("levels", x)
  BY <1>2, <1>3, <1>8 DEF GameOK
<1>10. Moves(p, "levels", x)
  BY <1>1, <1>7, MovesNot
<1>11. LevelsWritten(p)
  <2>1. m.left[l].game \in Games /\ m.left[l].things \in SUBSET Things
    BY <1>1, <1>3 DEF Contents
  <2>2. Own(m.game, m.left[l].game)
    BY <1>1, <1>3
  <2>3. mem'[p].game = m.game /\ mixed' = mixed /\ pc'[p] \in AtGame
    BY <1>1, <1>8, <1>10 DEF Moves, history
  <2>4. levels'[l].pid = p /\ levels'[l].game = m.left[l].game
    BY <1>1 DEF IInv, InvType, DiskType, LevelFile
  <2>5. Own(mem[p].game, levels[l].game)'
    BY <2>2, <2>3, <2>4 DEF Own
  <2>6. \A k \in Levels \ {l} : levels'[k] = levels[k]
    BY <1>1 DEF IInv, InvType, DiskType
  <2> QED BY <2>3, <2>4, <2>5, <2>6 DEF LevelsWritten
<1>12. DiskType'
  <2>1. m.left[l].game \in Games /\ m.left[l].things \in SUBSET Things
    BY <1>1, <1>3 DEF Contents
  <2>2. LevelFile(p, m.left[l].game, m.left[l].things) \in LevelFileSet
    BY <2>1, FileTypes
  <2> QED BY <1>1, <2>2 DEF IInv, InvType, DiskType
<1>13. HistoryType' /\ Remembered /\ GameOK("levels", x)'
  BY <1>1, <1>9, HistoryStays, GameStays DEF history
<1>14. LockWritten /\ SaveWritten(p) /\ WriterOK(p)'
  BY <1>1, <1>10, NotWriting DEF LockWritten
<1> QED BY <1>1, <1>8, <1>10, <1>11, <1>12, <1>13, <1>14, PlaysOn

-----------------------------------------------------------------------------
(* Playing *)

\* clearlocks() of a game that ends
LEMMA Cleared ==
  ASSUME IInv, NEW p \in Procs, pc[p] \in AtGame, clearlocks(p),
         save' = save \/ save' = NoFile, readable' \in BOOLEAN,
         UNCHANGED <<now, kept, torn, littered, rivalry, mixed>>, accused' \subseteq Games
  PROVE  IInv'
<1>1. mem[p].game \in Games
  BY AtGameHas
<1>2. /\ lock' = NoFile /\ over' = over \cup {mem[p].game} /\ Exit(p)
      /\ levels' = [l \in Levels |-> IF l \in mem[p].made THEN NoFile ELSE levels[l]]
  BY DEF clearlocks
<1>3. \A l \in Levels : levels'[l] = levels[l] \/ levels'[l].kind # "level"
  BY <1>2, Kinds
<1>4. DiskType'
  BY <1>2, FileTypes DEF IInv, InvType, DiskType
<1>5. HistoryType' /\ Remembered
  BY <1>1, <1>2 DEF IInv, InvType, HistoryType, Remembered
<1> QED BY <1>2, <1>3, <1>4, <1>5, Ends, Kinds

LEMMA Tricked ==
  ASSUME IInv, NEW p \in Procs, pc[p] \in AtGame, tricked(p),
         save' = save \/ save' = NoFile, readable' \in BOOLEAN
  PROVE  IInv'
<1>1. mem[p].game \in Games
  BY AtGameHas
<1>2. accused' \subseteq Games
  BY <1>1 DEF tricked, IInv, InvType, HistoryType
<1> QED BY <1>2, Cleared DEF tricked

\* The file of the hero's level is created, and written.
LEMMA LevelCreated ==
  ASSUME IInv, NEW p \in Procs, pc[p] \in AtGame,
         levels' = [levels EXCEPT ![mem[p].at] = Empty]
  PROVE  levels' \in [Levels -> LevelFileSet] /\ LevelsWritten(p)
<1>1. levels' \in [Levels -> LevelFileSet]
  BY FileTypes DEF IInv, InvType, DiskType
<1>2. \A l \in Levels : levels'[l] = levels[l] \/ levels'[l] = Empty
  BY DEF IInv, InvType, DiskType
<1> QED BY <1>1, <1>2, Kinds DEF LevelsWritten

LEMMA LevelSaved ==
  ASSUME IInv, NEW p \in Procs, pc[p] \in AtGame, savelev(p), mixed' = mixed,
         NEW w \in AtGame, NEW x, Moves(p, w, x), x.game = mem[p].game
  PROVE  levels' \in [Levels -> LevelFileSet] /\ LevelsWritten(p)
<1> DEFINE m == mem[p]
           f == LevelFile(p, m.from, m.here)
<1>1. m.at \in Levels /\ m.from \in Games /\ m.here \in SUBSET Things /\ Own(m.game, m.from)
  BY AtGameHas
<1>2. levels' = [levels EXCEPT ![m.at] = IF @ = Empty THEN f ELSE @]
  BY DEF savelev
<1>3. f \in LevelFileSet
  BY <1>1, FileTypes
<1>4. f.pid = p /\ f.game = m.from
  BY DEF LevelFile
<1> HIDE DEF f
<1>5. levels' \in [Levels -> LevelFileSet]
  BY <1>2, <1>3 DEF IInv, InvType, DiskType
<1>6. \A l \in Levels : levels'[l] = levels[l] \/ levels'[l] = f
  BY <1>2 DEF IInv, InvType, DiskType
<1>7. pc'[p] \in AtGame /\ mem'[p].game = m.game
  BY DEF Moves
<1>8. ASSUME NEW l \in Levels, levels'[l] = f PROVE Own(mem[p].game, levels[l].game)'
  BY <1>1, <1>4, <1>7, <1>8 DEF Own
<1> QED BY <1>4, <1>5, <1>6, <1>7, <1>8 DEF LevelsWritten

\* The memory of a game, field by field
LEMMA SetMade ==
  ASSUME NEW m \in GameMemory, NEW v \in SUBSET Levels
  PROVE  LET y == [m EXCEPT !.made = v]
         IN /\ y \in GameMemory /\ y.game = m.game
            /\ y.from = m.from /\ y.left = m.left /\ y.then = m.then
BY DEF GameMemory

LEMMA SetHere ==
  ASSUME NEW m \in GameMemory, NEW v \in SUBSET Things
  PROVE  LET y == [m EXCEPT !.here = v]
         IN /\ y \in GameMemory /\ y.game = m.game
            /\ y.from = m.from /\ y.left = m.left /\ y.then = m.then
BY DEF GameMemory

LEMMA SetTo ==
  ASSUME NEW m \in GameMemory, NEW v \in Levels
  PROVE  LET y == [m EXCEPT !.to = v]
         IN /\ y \in GameMemory /\ y.game = m.game
            /\ y.from = m.from /\ y.left = m.left /\ y.then = m.then
BY DEF GameMemory

LEMMA SetInv ==
  ASSUME NEW m \in GameMemory, NEW v \in SUBSET Things
  PROVE  LET y == [m EXCEPT !.inv = v]
         IN /\ y \in GameMemory /\ y.game = m.game
            /\ y.from = m.from /\ y.left = m.left /\ y.then = m.then /\ y.here = m.here
BY DEF GameMemory

LEMMA SetAt ==
  ASSUME NEW m \in GameMemory, NEW v \in Levels
  PROVE  LET y == [m EXCEPT !.at = v]
         IN /\ y \in GameMemory /\ y.game = m.game
            /\ y.from = m.from /\ y.left = m.left /\ y.then = m.then
BY DEF GameMemory

LEMMA SetFrom ==
  ASSUME NEW m \in GameMemory, NEW v \in Games
  PROVE  LET y == [m EXCEPT !.from = v]
         IN /\ y \in GameMemory /\ y.game = m.game
            /\ y.from = v /\ y.left = m.left /\ y.then = m.then
BY DEF GameMemory

LEMMA SetLeft ==
  ASSUME NEW m \in GameMemory, NEW v \in Partial(Levels, Copy)
  PROVE  LET y == [m EXCEPT !.left = v]
         IN /\ y \in GameMemory /\ y.game = m.game
            /\ y.from = m.from /\ y.left = v /\ y.then = m.then /\ y.made = m.made
BY DEF GameMemory

LEMMA SetThen ==
  ASSUME NEW m \in GameMemory
  PROVE  LET y == [m EXCEPT !.then = "play"]
         IN /\ y \in GameMemory /\ y.game = m.game
            /\ y.from = m.from /\ y.left = m.left /\ y.then = "play"
BY DEF GameMemory

LEMMA SaveCurrentLevel ==
  ASSUME IInv, NEW p \in Procs, save_currentlevel(p) PROVE IInv'
<1> DEFINE m == mem[p]
<1>1. pc[p] \in {"arrived", "saving level"} /\ pc[p] \in AtGame
  BY DEF save_currentlevel, AtGame
<1>2. /\ GameOK(pc[p], m) /\ m \in GameMemory /\ m.at \in Levels /\ m.made \in SUBSET Levels
  BY <1>1, AtGameHas
<1>3. UNCHANGED <<lock, save, readable, history>>
  BY DEF save_currentlevel, create_levelfile
<1>4. HistoryType' /\ Remembered
  BY <1>3, HistoryStays DEF history
<1>5. CASE pc[p] = "arrived"
  <2>1. /\ levels' = [levels EXCEPT ![m.at] = Empty]
        /\ mem' = [mem EXCEPT ![p].made = @ \cup {m.at}] /\ Goto(p, "saving level")
    BY <1>5 DEF save_currentlevel, create_levelfile
  <2>2. PICK x : x = [m EXCEPT !.made = m.made \cup {m.at}]
    OBVIOUS
  <2>3. mem' = [mem EXCEPT ![p] = x]
    BY <2>1, <2>2 DEF IInv, InvType, PlacesType
  <2>4. Moves(p, "saving level", x)
    BY <2>1, <2>3, MovesBy DEF Points, AtGame
  <2>5. x \in GameMemory /\ x.game = m.game /\ x.from = m.from /\ x.left = m.left /\ x.then = m.then
    <3> DEFINE v == m.made \cup {m.at}
    <3>1. v \in SUBSET Levels /\ x = [m EXCEPT !.made = v]
      BY <1>2, <2>2
    <3> HIDE DEF v
    <3> QED BY <1>2, <3>1, SetMade
  <2>6. GameOK("saving level", x)
    BY <1>2, <1>5, <2>5 DEF GameOK, Arriving
  <2>7. GameOK("saving level", x)'
    BY <1>3, <2>6, GameStays DEF history
  <2>8. levels' \in [Levels -> LevelFileSet] /\ LevelsWritten(p)
    BY <1>1, <2>1, LevelCreated
  <2>9. DiskType'
    BY <1>3, <2>8 DEF IInv, InvType, DiskType
  <2>10. LockWritten /\ SaveWritten(p) /\ WriterOK(p)' /\ "saving level" \in AtGame
    BY <1>1, <1>3, <2>4, NotWriting DEF LockWritten, AtGame
  <2> QED BY <1>1, <1>4, <2>4, <2>5, <2>7, <2>8, <2>9, <2>10, PlaysOn
<1>6. CASE pc[p] = "saving level"
  <2>1. savelev(p) /\ Goto(p, "check") /\ mem' = mem /\ mixed' = mixed
    BY <1>6 DEF save_currentlevel, history
  <2>2. PICK x : x = m
    OBVIOUS
  <2>3. Moves(p, "check", x) /\ "check" \in AtGame
    BY <2>1, <2>2, MovesOn DEF Points, AtGame
  <2>4. GameOK("check", x)
    BY <1>2, <1>6, <2>2 DEF GameOK, Arriving
  <2>5. GameOK("check", x)'
    BY <1>3, <2>4, GameStays DEF history
  <2>6. levels' \in [Levels -> LevelFileSet] /\ LevelsWritten(p)
    BY <1>1, <2>1, <2>2, <2>3, LevelSaved
  <2>7. DiskType'
    BY <1>3, <2>6 DEF IInv, InvType, DiskType
  <2>8. LockWritten /\ SaveWritten(p) /\ WriterOK(p)'
    BY <1>1, <1>3, <2>3, NotWriting DEF LockWritten
  <2> QED BY <1>1, <1>4, <2>2, <2>3, <2>5, <2>6, <2>7, <2>8, PlaysOn
<1> QED BY <1>1, <1>5, <1>6

LEMMA SavestateCheck ==
  ASSUME IInv, NEW p \in Procs, savestateinlock_check(p) PROVE IInv'
<1>1. pc[p] = "check" /\ pc[p] \in AtGame /\ "create" \in AtGame /\ save' = save /\ readable' = readable
  BY DEF savestateinlock_check, AtGame
<1>2. CASE tricked(p)
  BY <1>1, <1>2, Tricked DEF IInv, InvType, DiskType
<1>3. CASE ~tricked(p)
  <2>1. Goto(p, "create") /\ UNCHANGED <<lock, levels, mem, history>>
    BY <1>3 DEF savestateinlock_check
  <2>2. PICK x : x = mem[p]
    OBVIOUS
  <2>3. Moves(p, "create", x)
    BY <1>1, <2>1, <2>2, MovesOn DEF Points
  <2>4. GameOK("create", x)
    BY <1>1, <2>2, AtGameHas DEF GameOK, Arriving
  <2>5. GameOK("create", x)' /\ HistoryType' /\ Remembered
    BY <2>1, <2>4, GameStays, HistoryStays DEF history
  <2>6. DiskType' /\ LockWritten /\ LevelsWritten(p) /\ SaveWritten(p) /\ WriterOK(p)'
    BY <1>1, <2>1, <2>3, NotWriting DEF LockWritten, LevelsWritten, IInv, InvType, DiskType
  <2> QED BY <1>1, <2>2, <2>3, <2>5, <2>6, PlaysOn
<1> QED BY <1>2, <1>3

LEMMA SavestateCreate ==
  ASSUME IInv, NEW p \in Procs, savestateinlock_create(p) PROVE IInv'
<1>1. /\ pc[p] = "create" /\ pc[p] \in AtGame /\ "write" \in AtGame
      /\ lock' = Empty /\ Goto(p, "write")
      /\ UNCHANGED <<levels, save, readable, mem, history>>
  BY DEF savestateinlock_create, AtGame
<1>2. PICK x : x = mem[p]
  OBVIOUS
<1>3. Moves(p, "write", x)
  BY <1>1, <1>2, MovesOn DEF Points
<1>4. GameOK("write", x)
  BY <1>1, <1>2, AtGameHas DEF GameOK, Arriving
<1>5. GameOK("write", x)' /\ HistoryType' /\ Remembered
  BY <1>1, <1>4, GameStays, HistoryStays DEF history
<1>6. DiskType'
  BY <1>1, FileTypes DEF IInv, InvType, DiskType
<1>7. LockWritten /\ LevelsWritten(p) /\ SaveWritten(p) /\ WriterOK(p)'
  BY <1>1, <1>3, NotWriting, Kinds DEF LockWritten, LevelsWritten
<1> QED BY <1>1, <1>2, <1>3, <1>5, <1>6, <1>7, PlaysOn

LEMMA StateTyped ==
  ASSUME NEW m \in GameMemory PROVE State(m) \in States /\ State(m).game = m.game /\ State(m).at = m.at
BY DEF GameMemory, State, States

LEMMA SavestateWrite ==
  ASSUME IInv, NEW p \in Procs, savestateinlock_write(p) PROVE IInv'
<1> DEFINE m == mem[p]
           g == m.game
           st == [kind |-> "state", pid |-> p, state |-> State(m)]
<1>1. /\ pc[p] = "write" /\ pc[p] \in AtGame
      /\ lock' = IF lock = Empty THEN st ELSE lock
      /\ kept' = IF m.then = "play" THEN [kept EXCEPT ![g] = now[g]] ELSE kept
      /\ Goto(p, m.then) /\ mem' = [mem EXCEPT ![p].then = "play"]
      /\ UNCHANGED <<levels, save, readable, now, over, torn, littered, rivalry, mixed, accused>>
  BY DEF savestateinlock_write, AtGame
<1>2. /\ GameOK("write", m) /\ m \in GameMemory /\ g \in Games /\ now[g] \in Snapshots
      /\ m.then \in {"play", "levels"} /\ now[g] # Nowhere
  BY <1>1, AtGameHas DEF GameOK
<1>3. /\ kept' \in [Games -> {Nowhere} \cup Snapshots] /\ kept'[g] # Nowhere
      /\ \A h \in Games : kept[h] # Nowhere => kept'[h] # Nowhere
  <2>1. CASE m.then = "play"
    BY <1>1, <1>2, <2>1 DEF IInv, InvType, HistoryType
  <2>2. CASE m.then = "levels"
    BY <1>1, <1>2, <2>2 DEF IInv, InvType, HistoryType, GameOK
  <2> QED BY <1>2, <2>1, <2>2
<1>4. HistoryType' /\ Remembered
  BY <1>1, <1>3 DEF IInv, InvType, HistoryType, Remembered
<1>5. st \in Locks /\ st.state.game = g
  BY <1>2, StateTyped DEF Locks
<1>6. DiskType' /\ LockWritten
  <2> HIDE DEF st
  <2> QED BY <1>1, <1>3, <1>5 DEF LockWritten, IInv, InvType, DiskType
<1>7. PICK x : x = [m EXCEPT !.then = "play"]
  OBVIOUS
<1>8. PICK w : w = m.then
  OBVIOUS
<1>9. w \in AtGame /\ w \in Points /\ w \notin Arriving /\ w \notin {"saving", "saved state", "emptying"}
  BY <1>2, <1>8 DEF AtGame, Points, Arriving
<1>10. mem' = [mem EXCEPT ![p] = x]
  BY <1>1, <1>7 DEF IInv, InvType, PlacesType
<1>11. Moves(p, w, x)
  BY <1>1, <1>8, <1>9, <1>10, MovesBy
<1>12. x \in GameMemory /\ x.game = g /\ x.from = m.from /\ x.left = m.left /\ x.then = "play"
  BY <1>2, <1>7, SetThen
<1>13. GameOK(w, x)'
  BY <1>1, <1>2, <1>3, <1>8, <1>12 DEF GameOK, Own
<1>14. LevelsWritten(p) /\ SaveWritten(p) /\ WriterOK(p)'
  BY <1>1, <1>9, <1>11, NotWriting DEF LevelsWritten
<1> QED BY <1>1, <1>4, <1>6, <1>9, <1>11, <1>12, <1>13, <1>14, PlaysOn

LEMMA SnapshotsKnown == \A n \in Snapshots : n # Nowhere
<1> TAKE n \in Snapshots
<1>1. "floor" \in DOMAIN n /\ "floor" \notin DOMAIN Nowhere
  BY DEF Snapshots, Nowhere
<1> QED BY <1>1

\* What the player knows of his game changes.
LEMMA Noticed ==
  ASSUME IInv, NEW g \in Games, NEW n \in Snapshots, now' = [now EXCEPT ![g] = n],
         UNCHANGED <<kept, over, torn, littered, rivalry, mixed, accused>>
  PROVE  /\ HistoryType' /\ Remembered
         /\ \A w, x : GameOK(w, x) /\ x.game = g => GameOK(w, x)'
<1>1. now'[g] # Nowhere /\ now' \in [Games -> {Nowhere} \cup Snapshots]
      /\ \A h \in Games : now[h] # Nowhere => now'[h] # Nowhere
  BY SnapshotsKnown DEF IInv, InvType, HistoryType
<1>2. HistoryType' /\ Remembered
  BY <1>1 DEF IInv, InvType, HistoryType, Remembered
<1>3. ASSUME NEW w, NEW x, GameOK(w, x), x.game = g PROVE GameOK(w, x)'
  BY <1>1, <1>3 DEF GameOK, Own
<1> QED BY <1>2, <1>3

LEMMA Play ==
  ASSUME IInv, NEW p \in Procs, NEW t \in Things, play(p, t) PROVE IInv'
<1> DEFINE m == mem[p]
           g == m.game
           n == now[g]
<1>1. pc[p] = "play" /\ pc[p] \in AtGame /\ UNCHANGED <<disk, pc, kept, over, torn, littered, rivalry, mixed, accused>>
  BY DEF play, AtGame
<1>2. /\ GameOK("play", m) /\ m \in GameMemory /\ g \in Games /\ n \in Snapshots /\ m.at \in Levels
      /\ m.inv \in SUBSET Things /\ m.here \in SUBSET Things
  BY <1>1, AtGameHas
<1>3. \E x \in GameMemory :
        /\ mem' = [mem EXCEPT ![p] = x]
        /\ x.game = g /\ x.from = m.from /\ x.left = m.left /\ x.then = m.then
  <2>1. CASE mem' = [mem EXCEPT ![p].inv = @ \ {t}, ![p].here = @ \cup {t}]
    <3> DEFINE inv == m.inv \ {t}
               here == m.here \cup {t}
    <3>1. inv \in SUBSET Things /\ here \in SUBSET Things
      BY <1>2
    <3>2. mem' = [mem EXCEPT ![p].inv = inv, ![p].here = here]
      BY <2>1 DEF IInv, InvType, PlacesType
    <3> HIDE DEF inv, here
    <3>3. PICK u : u = [m EXCEPT !.inv = inv]
      OBVIOUS
    <3>4. PICK x : x = [u EXCEPT !.here = here]
      OBVIOUS
    <3>5. u \in GameMemory /\ u.game = g /\ u.from = m.from /\ u.left = m.left /\ u.then = m.then
      BY <1>2, <3>1, <3>3, SetInv
    <3>6. x \in GameMemory /\ x.game = g /\ x.from = m.from /\ x.left = m.left /\ x.then = m.then
      BY <3>1, <3>4, <3>5, SetHere
    <3>7. mem' = [mem EXCEPT ![p] = x]
      BY <3>2, <3>3, <3>4 DEF IInv, InvType, PlacesType
    <3> QED BY <3>6, <3>7
  <2>2. CASE mem' = [mem EXCEPT ![p].here = @ \ {t}, ![p].inv = @ \cup {t}]
    <3> DEFINE inv == m.inv \cup {t}
               here == m.here \ {t}
    <3>1. inv \in SUBSET Things /\ here \in SUBSET Things
      BY <1>2
    <3>2. mem' = [mem EXCEPT ![p].here = here, ![p].inv = inv]
      BY <2>2 DEF IInv, InvType, PlacesType
    <3> HIDE DEF inv, here
    <3>3. PICK u : u = [m EXCEPT !.here = here]
      OBVIOUS
    <3>4. PICK x : x = [u EXCEPT !.inv = inv]
      OBVIOUS
    <3>5. u \in GameMemory /\ u.game = g /\ u.from = m.from /\ u.left = m.left /\ u.then = m.then
      BY <1>2, <3>1, <3>3, SetHere
    <3>6. x \in GameMemory /\ x.game = g /\ x.from = m.from /\ x.left = m.left /\ x.then = m.then
      BY <3>1, <3>4, <3>5, SetInv
    <3>7. mem' = [mem EXCEPT ![p] = x]
      BY <3>2, <3>3, <3>4 DEF IInv, InvType, PlacesType
    <3> QED BY <3>6, <3>7
  <2> QED BY <2>1, <2>2 DEF play
<1>4. \E k \in Snapshots : now' = [now EXCEPT ![g] = k]
  <2> DEFINE a == [n EXCEPT !.inv = n.inv \ {t}, !.floor[m.at] = n.floor[m.at] \cup {t}]
             b == [n EXCEPT !.inv = n.inv \cup {t}, !.floor[m.at] = n.floor[m.at] \ {t}]
  <2>1. a \in Snapshots /\ b \in Snapshots
    BY <1>2 DEF Snapshots
  <2>2. now' = [now EXCEPT ![g] = a] \/ now' = [now EXCEPT ![g] = b]
    BY <1>2 DEF play, IInv, InvType, HistoryType
  <2> QED BY <2>1, <2>2
<1>5. PICK x \in GameMemory :
        /\ mem' = [mem EXCEPT ![p] = x]
        /\ x.game = g /\ x.from = m.from /\ x.left = m.left /\ x.then = m.then
  BY <1>3
<1>10. Moves(p, "play", x)
  BY <1>1, <1>5, MovesNot
<1>11. GameOK("play", x)
  BY <1>2, <1>5 DEF GameOK
<1>12. HistoryType' /\ Remembered /\ GameOK("play", x)'
  BY <1>1, <1>2, <1>4, <1>5, <1>11, Noticed
<1>13. DiskType' /\ LockWritten /\ LevelsWritten(p) /\ SaveWritten(p) /\ WriterOK(p)'
  BY <1>1, <1>10, NotWriting, DiskStays DEF LockWritten, LevelsWritten, disk
<1> QED BY <1>1, <1>5, <1>10, <1>12, <1>13, PlaysOn

LEMMA GotoLevel ==
  ASSUME IInv, NEW p \in Procs, NEW l \in Levels, goto_level(p, l) PROVE IInv'
<1> DEFINE m == mem[p]
           made == m.made \cup {m.at}
<1>1. /\ pc[p] = "play" /\ pc[p] \in AtGame /\ "leaving" \in AtGame
      /\ levels' = [levels EXCEPT ![m.at] = Empty]
      /\ mem' = [mem EXCEPT ![p].made = made, ![p].to = l]
      /\ Goto(p, "leaving") /\ UNCHANGED <<lock, save, readable, history>>
  BY DEF goto_level, AtGame
<1>2. /\ GameOK("play", m) /\ m \in GameMemory /\ m.at \in Levels /\ made \in SUBSET Levels
  BY <1>1, AtGameHas
<1> HIDE DEF made
<1>3. PICK u : u = [m EXCEPT !.made = made]
  OBVIOUS
<1>4. PICK x : x = [u EXCEPT !.to = l]
  OBVIOUS
<1>5. mem' = [mem EXCEPT ![p] = x]
  BY <1>1, <1>3, <1>4 DEF IInv, InvType, PlacesType
<1>6. x \in GameMemory /\ x.game = m.game /\ x.from = m.from /\ x.left = m.left /\ x.then = m.then
  <2>1. u \in GameMemory /\ u.game = m.game /\ u.from = m.from /\ u.left = m.left /\ u.then = m.then
    BY <1>2, <1>3, SetMade
  <2> QED BY <1>4, <2>1, SetTo
<1>7. Moves(p, "leaving", x)
  BY <1>1, <1>5, MovesBy DEF Points
<1>8. GameOK("leaving", x)
  BY <1>2, <1>6 DEF GameOK, Arriving
<1>9. GameOK("leaving", x)' /\ HistoryType' /\ Remembered
  BY <1>1, <1>8, GameStays, HistoryStays DEF history
<1>10. levels' \in [Levels -> LevelFileSet] /\ LevelsWritten(p)
  BY <1>1, LevelCreated
<1>11. DiskType' /\ LockWritten /\ SaveWritten(p) /\ WriterOK(p)'
  BY <1>1, <1>7, <1>10, NotWriting DEF LockWritten, IInv, InvType, DiskType
<1> QED BY <1>1, <1>6, <1>7, <1>9, <1>10, <1>11, PlaysOn

LEMMA GotoLevelSave ==
  ASSUME IInv, NEW p \in Procs, goto_level_save(p) PROVE IInv'
<1> DEFINE m == mem[p]
<1>1. /\ pc[p] = "leaving" /\ pc[p] \in AtGame /\ "between" \in AtGame /\ savelev(p)
      /\ mem' = [mem EXCEPT ![p].here = {}]
      /\ Goto(p, "between") /\ UNCHANGED <<lock, save, readable, history>>
  BY DEF goto_level_save, AtGame
<1>2. GameOK("leaving", m) /\ m \in GameMemory
  BY <1>1, AtGameHas
<1>3. PICK x : x = [m EXCEPT !.here = {}]
  OBVIOUS
<1>4. mem' = [mem EXCEPT ![p] = x]
  BY <1>1, <1>3 DEF IInv, InvType, PlacesType
<1>5. x \in GameMemory /\ x.game = m.game /\ x.from = m.from /\ x.left = m.left /\ x.then = m.then
  <2>1. {} \in SUBSET Things
    OBVIOUS
  <2> QED BY <1>2, <1>3, <2>1, SetHere
<1>6. Moves(p, "between", x)
  BY <1>1, <1>4, MovesBy DEF Points
<1>7. GameOK("between", x)
  BY <1>2, <1>5 DEF GameOK, Arriving
<1>8. GameOK("between", x)' /\ HistoryType' /\ Remembered
  BY <1>1, <1>7, GameStays, HistoryStays DEF history
<1>9. levels' \in [Levels -> LevelFileSet] /\ LevelsWritten(p)
  BY <1>1, <1>5, <1>6, LevelSaved DEF history
<1>10. DiskType' /\ LockWritten /\ SaveWritten(p) /\ WriterOK(p)'
  BY <1>1, <1>6, <1>9, NotWriting DEF LockWritten, IInv, InvType, DiskType
<1> QED BY <1>1, <1>5, <1>6, <1>8, <1>9, <1>10, PlaysOn

LEMMA GotoLevelArrive ==
  ASSUME IInv, NEW p \in Procs, goto_level_arrive(p) PROVE IInv'
<1> DEFINE m == mem[p]
           g == m.game
           l == m.to
           made == l \in m.made
           here == IF made THEN levels[l].things ELSE {}
           from == IF made THEN levels[l].game ELSE m.game
<1>1. pc[p] = "between" /\ pc[p] \in AtGame /\ "arrived" \in AtGame /\ UNCHANGED <<save, readable>>
  BY DEF goto_level_arrive, AtGame
<1>2. /\ GameOK("between", m) /\ m \in GameMemory /\ l \in Levels /\ g \in Games
      /\ now[g] \in Snapshots
  BY <1>1, AtGameHas
<1>3. CASE made /\ (levels[l].kind # "level" \/ levels[l].pid # p)
  <2>1. tricked(p)
    BY <1>3 DEF goto_level_arrive
  <2> QED BY <1>1, <2>1, Tricked DEF IInv, InvType, DiskType
<1>4. CASE ~(made /\ (levels[l].kind # "level" \/ levels[l].pid # p))
  <2>1. /\ mem' = [mem EXCEPT ![p].at = l, ![p].here = here, ![p].from = from]
        /\ now' = [now EXCEPT ![g].at = l, ![g].made = @ \cup {l}]
        /\ Goto(p, "arrived")
        /\ UNCHANGED <<lock, levels, kept, over, torn, littered, rivalry, mixed, accused>>
    BY <1>4 DEF goto_level_arrive
  <2>2. here \in SUBSET Things /\ from \in Games /\ Own(g, from)
    <3>1. CASE made
      <4>1. levels[l].kind = "level" /\ levels[l].pid = p /\ levels[l] \in LevelFileSet
        BY <1>2, <1>4, <3>1 DEF IInv, InvType, DiskType
      <4>2. levels[l].game \in Games /\ levels[l].things \in SUBSET Things
        BY <4>1, LevelParts
      <4>3. Own(g, levels[l].game)
        BY <1>1, <1>2, <4>1 DEF IInv, LevelOK
      <4> QED BY <3>1, <4>2, <4>3
    <3>2. CASE ~made
      BY <1>2, <3>2 DEF Own
    <3> QED BY <3>1, <3>2
  <2> HIDE DEF here, from
  <2>3. PICK u : u = [m EXCEPT !.at = l]
    OBVIOUS
  <2>4. PICK v : v = [u EXCEPT !.here = here]
    OBVIOUS
  <2>5. PICK x : x = [v EXCEPT !.from = from]
    OBVIOUS
  <2>6. mem' = [mem EXCEPT ![p] = x]
    BY <2>1, <2>3, <2>4, <2>5 DEF IInv, InvType, PlacesType
  <2>7. u \in GameMemory /\ u.game = g /\ u.left = m.left /\ u.then = m.then
    BY <1>2, <2>3, SetAt
  <2>8. v \in GameMemory /\ v.game = g /\ v.left = m.left /\ v.then = m.then
    BY <2>2, <2>4, <2>7, SetHere
  <2>9. x \in GameMemory /\ x.game = g /\ x.left = m.left /\ x.then = m.then /\ x.from = from
    BY <2>2, <2>5, <2>8, SetFrom
  <2>10. Moves(p, "arrived", x)
    BY <2>1, <2>6, MovesBy DEF Points, AtGame
  <2>11. GameOK("arrived", x)
    BY <1>2, <2>2, <2>9 DEF GameOK, Arriving
  <2>12. \E k \in Snapshots : now' = [now EXCEPT ![g] = k]
    <3> DEFINE k == [now[g] EXCEPT !.at = l, !.made = now[g].made \cup {l}]
    <3>1. k \in Snapshots
      BY <1>2 DEF Snapshots
    <3>2. now' = [now EXCEPT ![g] = k]
      BY <1>2, <2>1 DEF IInv, InvType, HistoryType
    <3> QED BY <3>1, <3>2
  <2>13. HistoryType' /\ Remembered /\ GameOK("arrived", x)'
    BY <1>2, <2>1, <2>9, <2>11, <2>12, Noticed
  <2>14. DiskType' /\ LockWritten /\ LevelsWritten(p) /\ SaveWritten(p) /\ WriterOK(p)'
    BY <1>1, <2>1, <2>10, NotWriting DEF LockWritten, LevelsWritten, IInv, InvType, DiskType
  <2> QED BY <1>1, <2>9, <2>10, <2>13, <2>14, PlaysOn
<1> QED BY <1>3, <1>4

LEMMA ReallyDone ==
  ASSUME IInv, NEW p \in Procs, really_done(p) PROVE IInv'
<1>1. pc[p] \in AtGame
  BY DEF really_done, AtGame
<1> QED BY <1>1, Cleared DEF really_done, IInv, InvType, DiskType, HistoryType

-----------------------------------------------------------------------------
(* dosave0() *)

LEMMA Dosave ==
  ASSUME IInv, NEW p \in Procs, dosave0(p) PROVE IInv'
<1>1. /\ pc[p] = "play" /\ pc[p] \in AtGame /\ "saving" \in AtGame
      /\ UNCHANGED <<lock, levels, mem, history>>
  BY DEF dosave0, AtGame
<1>2. \/ save' = NoFile /\ readable' = TRUE /\ pc' = pc
      \/ save' = Empty /\ readable' = readable /\ Goto(p, "saving")
  BY DEF dosave0
<1>3. DiskType'
  BY <1>1, <1>2, FileTypes DEF IInv, InvType, DiskType
<1>4. PICK x : x = mem[p]
  OBVIOUS
<1>5. GameOK("play", x) /\ GameOK("saving", x)
  BY <1>1, <1>4, AtGameHas DEF GameOK, Arriving
<1>6. HistoryType' /\ Remembered /\ GameOK("play", x)' /\ GameOK("saving", x)'
  BY <1>1, <1>5, HistoryStays, GameStays DEF history
<1>7. LockWritten /\ LevelsWritten(p) /\ SaveWritten(p) /\ WriterOK(p)'
  BY <1>1, <1>2, Kinds DEF LockWritten, LevelsWritten, SaveWritten, WriterOK
<1>8. CASE pc' = pc
  <2>1. Moves(p, "play", x)
    BY <1>1, <1>4, <1>8 DEF Moves, IInv, InvType, PlacesType
  <2> QED BY <1>1, <1>3, <1>4, <1>6, <1>7, <2>1, PlaysOn
<1>9. CASE Goto(p, "saving")
  <2>1. Moves(p, "saving", x)
    BY <1>1, <1>4, <1>9, MovesOn DEF Points
  <2> QED BY <1>1, <1>3, <1>4, <1>6, <1>7, <2>1, PlaysOn
<1> QED BY <1>2, <1>8, <1>9

LEMMA DosaveState ==
  ASSUME IInv, NEW p \in Procs, dosave0_state(p) PROVE IInv'
<1> DEFINE m == mem[p]
           file == SaveFile(p, State(m), [l \in {m.at} |-> [game |-> m.from, things |-> m.here]])
           left == [l \in m.made \ {m.at} |-> Empty]
<1>1. /\ pc[p] = "saving" /\ pc[p] \in AtGame /\ "saved state" \in AtGame
      /\ save' = IF save = Empty THEN file ELSE save
      /\ mem' = [mem EXCEPT ![p].left = left]
      /\ Goto(p, "saved state") /\ UNCHANGED <<lock, levels, readable, history>>
  BY DEF dosave0_state, AtGame
<1>2. /\ GameOK("saving", m) /\ m \in GameMemory /\ m.at \in Levels /\ m.made \in SUBSET Levels
      /\ m.from \in Games /\ m.here \in SUBSET Things /\ m.game \in Games
  BY <1>1, AtGameHas
<1>3. left \in Partial(Levels, Copy)
  <2>1. left = [l \in DOMAIN left |-> left[l]] /\ DOMAIN left \in SUBSET Levels
        /\ \A l \in DOMAIN left : left[l] \in Copy
    BY <1>2 DEF Copy
  <2> HIDE DEF left
  <2> QED BY <2>1, PartialMade
<1>4. /\ file \in Saves /\ file.by = p /\ file.state = State(m) /\ m.at \in DOMAIN file.levels
      /\ \A l \in DOMAIN file.levels : file.levels[l].game = m.from
  <2> DEFINE here == [l \in {m.at} |-> [game |-> m.from, things |-> m.here]]
  <2>1. here = [l \in DOMAIN here |-> here[l]] /\ DOMAIN here \in SUBSET Levels
        /\ \A l \in DOMAIN here : here[l] \in Copy /\ here[l].game = m.from
    BY <1>2 DEF Copy, Contents
  <2>2. m.at \in DOMAIN here
    OBVIOUS
  <2> HIDE DEF here
  <2>3. here \in Partial(Levels, Copy)
    BY <2>1, PartialMade
  <2>4. SaveFile(p, State(m), here) \in Saves
    BY <1>2, <2>3, StateTyped, FileTypes
  <2> QED BY <2>1, <2>2, <2>4 DEF SaveFile, here
<1> HIDE DEF left, file
<1>5. PICK x : x = [m EXCEPT !.left = left]
  OBVIOUS
<1>6. mem' = [mem EXCEPT ![p] = x]
  BY <1>1, <1>5 DEF IInv, InvType, PlacesType
<1>7. x \in GameMemory /\ x.game = m.game /\ x.from = m.from /\ x.then = m.then
  BY <1>2, <1>3, <1>5, SetLeft
<1>8. Moves(p, "saved state", x)
  BY <1>1, <1>6, MovesBy DEF Points
<1>9. GameOK("saved state", x)
  BY <1>2, <1>7 DEF GameOK, Arriving
<1>10. HistoryType' /\ Remembered /\ GameOK("saved state", x)'
  BY <1>1, <1>9, HistoryStays, GameStays DEF history
<1>11. DiskType' /\ LockWritten /\ LevelsWritten(p)
  BY <1>1, <1>4 DEF LockWritten, LevelsWritten, IInv, InvType, DiskType
<1>12. SaveWritten(p)
  <2>1. CASE save = Empty
    <3>1. save' = file /\ State(m).game = m.game /\ State(m).at = m.at
      BY <1>1, <1>2, <2>1, StateTyped
    <3>2. kept'[m.game] # Nowhere /\ mixed' = mixed
      BY <1>1, <1>2 DEF GameOK, Arriving, history
    <3>3. SaveOK(save)'
      BY <1>2, <1>4, <3>1, <3>2 DEF SaveOK, Own, GameOK
    <3> QED BY <1>4, <3>1, <3>3 DEF SaveWritten
  <2>2. CASE save # Empty
    BY <1>1, <2>2 DEF SaveWritten
  <2> QED BY <2>1, <2>2
<1>13. WriterOK(p)'
  <2>1. CASE save = Empty
    <3>1. save'.state.game = m.game
      BY <1>1, <1>2, <1>4, <2>1, StateTyped
    <3> QED BY <1>7, <1>8, <3>1 DEF WriterOK, Moves
  <2>2. CASE save # Empty
    BY <1>1, <2>2 DEF IInv, WriterOK
  <2> QED BY <2>1, <2>2
<1> QED BY <1>1, <1>7, <1>8, <1>10, <1>11, <1>12, <1>13, PlaysOn

\* A level appended to the save file that p writes
LEMMA AppendsLevel ==
  ASSUME IInv, NEW p \in Procs, NEW l \in Levels, levels[l] # NoFile,
         pc[p] \in {"saved state", "emptying", "tool rest"},
         save' = Appended(p, l), kept' = kept, mixed \subseteq mixed',
         Copies[l] = Empty \/ Copies[l].game = mem[p].game \/ mem[p].game \in mixed'
  PROVE  /\ save' \in Saves
         /\ SaveWritten(p)
         /\ (save'.kind = "save" /\ save'.by = p => save'.state.game = mem[p].game)
<1>1. CASE ~(save.kind = "save" /\ save.by = p)
  <2>1. save' = save
    BY <1>1 DEF Appended
  <2> QED BY <1>1, <2>1 DEF SaveWritten, IInv, InvType, DiskType
<1>2. CASE save.kind = "save" /\ save.by = p
  <2> DEFINE f == [k \in DOMAIN save.levels \cup {l} |->
                     IF k = l THEN Copies[l] ELSE save.levels[k]]
  <2>1. /\ save.state \in States /\ save.levels \in Partial(Levels, Copy) /\ SaveOK(save)
        /\ save \in Saves /\ save.state.game = mem[p].game
    BY <1>2, SaveParts DEF IInv, InvType, DiskType, WriterOK
  <2>2. DOMAIN save.levels \in SUBSET Levels /\ \A k \in DOMAIN save.levels : save.levels[k] \in Copy
    BY <2>1, PartialParts
  <2>3. Copies[l] \in Copy
    BY CopiesParts
  <2>4. f = [k \in DOMAIN f |-> f[k]] /\ DOMAIN f = DOMAIN save.levels \cup {l}
        /\ f[l] = Copies[l]
        /\ \A k \in DOMAIN f : f[k] = Copies[l] \/ (k \in DOMAIN save.levels /\ f[k] = save.levels[k])
    OBVIOUS
  <2>5. save' = [save EXCEPT !.levels = f]
    BY <1>2 DEF Appended
  <2> HIDE DEF f
  <2>6. f \in Partial(Levels, Copy)
    BY <2>2, <2>3, <2>4, PartialMade
  <2>7. save \in [kind : {"save"}, by : Procs, state : States, levels : Partial(Levels, Copy)]
    BY <1>2, <2>1, SaveParts
  <2>8. /\ save' \in [kind : {"save"}, by : Procs, state : States, levels : Partial(Levels, Copy)]
        /\ save'.by = p /\ save'.state = save.state /\ save'.levels = f
    BY <1>2, <2>5, <2>6, <2>7
  <2>9. SaveOK(save)'
    <3>1. kept'[save.state.game] # Nowhere /\ save.state.at \in DOMAIN f
      BY <1>2, <2>1, <2>4 DEF SaveOK
    <3>2. ASSUME NEW k \in DOMAIN f
          PROVE  f[k] = Empty \/ f[k].game = save.state.game \/ save.state.game \in mixed'
      <4>1. CASE f[k] = Copies[l]
        BY <2>1, <4>1
      <4>2. CASE k \in DOMAIN save.levels /\ f[k] = save.levels[k]
        BY <1>2, <2>1, <4>2 DEF SaveOK, Own
      <4> QED BY <2>4, <4>1, <4>2
    <3> QED BY <2>8, <3>1, <3>2 DEF SaveOK, Own
  <2> QED BY <2>1, <2>8, <2>9 DEF SaveWritten, Saves
<1> QED BY <1>1, <1>2

LEMMA DosaveLevel ==
  ASSUME IInv, NEW p \in Procs, NEW l \in Levels, dosave0_level(p, l) PROVE IInv'
<1> DEFINE m == mem[p]
           left == [k \in DOMAIN m.left \ {l} |-> Empty]
           made == m.made \ {l}
<1>1. /\ pc[p] \in {"saved state", "emptying"} /\ pc[p] \in AtGame /\ "emptying" \in AtGame
      /\ l \in DOMAIN m.left
  BY DEF dosave0_level, AtGame
<1>2. /\ GameOK(pc[p], m) /\ m \in GameMemory /\ m.left \in Partial(Levels, Copy)
      /\ m.made \in SUBSET Levels /\ m.game \in Games
  BY <1>1, AtGameHas
<1>3. CASE ~(levels[l].kind = "level" /\ levels[l].pid = p)
  <2>1. /\ tricked(p)
        /\ save' = IF levels[l] = NoFile THEN NoFile ELSE save
        /\ readable' = (readable \/ levels[l] = NoFile)
    BY <1>3 DEF dosave0_level
  <2>2. readable' \in BOOLEAN
    BY <2>1
  <2> QED BY <1>1, <2>1, <2>2, Tricked
<1>4. CASE levels[l].kind = "level" /\ levels[l].pid = p
  <2>1. /\ save' = Appended(p, l)
        /\ levels' = [levels EXCEPT ![l] = NoFile]
        /\ mem' = [mem EXCEPT ![p].left = left, ![p].made = made]
        /\ Goto(p, "emptying") /\ UNCHANGED <<lock, readable, history>>
    BY <1>4 DEF dosave0_level
  <2>2. left \in Partial(Levels, Copy) /\ made \in SUBSET Levels
    <3>1. DOMAIN m.left \in SUBSET Levels
      BY <1>2, PartialParts
    <3>2. left = [k \in DOMAIN left |-> left[k]] /\ DOMAIN left \in SUBSET Levels
          /\ \A k \in DOMAIN left : left[k] \in Copy
      BY <3>1 DEF Copy
    <3>3. made \in SUBSET Levels
      BY <1>2
    <3> HIDE DEF left, made
    <3> QED BY <3>2, <3>3, PartialMade
  <2> HIDE DEF left, made
  <2>3. PICK u : u = [m EXCEPT !.left = left]
    OBVIOUS
  <2>4. PICK x : x = [u EXCEPT !.made = made]
    OBVIOUS
  <2>5. mem' = [mem EXCEPT ![p] = x]
    BY <2>1, <2>3, <2>4 DEF IInv, InvType, PlacesType
  <2>6. u \in GameMemory /\ u.game = m.game /\ u.from = m.from /\ u.then = m.then
    BY <1>2, <2>2, <2>3, SetLeft
  <2>7. x \in GameMemory /\ x.game = m.game /\ x.from = m.from /\ x.then = m.then
    BY <2>2, <2>4, <2>6, SetMade
  <2>8. Moves(p, "emptying", x)
    BY <2>1, <2>5, MovesBy DEF Points, AtGame
  <2>9. GameOK("emptying", x)
    BY <1>1, <1>2, <2>7 DEF GameOK, Arriving
  <2>10. HistoryType' /\ Remembered /\ GameOK("emptying", x)'
    BY <2>1, <2>9, HistoryStays, GameStays DEF history
  <2>11. levels[l] # NoFile /\ (Copies[l] = Empty \/ Own(m.game, Copies[l].game))
    <3>1. levels[l] # NoFile
      BY <1>4, Kinds
    <3>2. Own(m.game, levels[l].game)
      BY <1>1, <1>4 DEF IInv, LevelOK
    <3> QED BY <3>1, <3>2, CopiesParts
  <2>12. /\ save' \in Saves /\ SaveWritten(p)
         /\ (save'.kind = "save" /\ save'.by = p => save'.state.game = m.game)
    BY <1>1, <2>1, <2>11, AppendsLevel DEF history, Own
  <2>13. WriterOK(p)'
    BY <2>7, <2>8, <2>12 DEF WriterOK, Moves
  <2>14. /\ levels' \in [Levels -> LevelFileSet]
         /\ \A k \in Levels : levels'[k] = levels[k] \/ levels'[k] = NoFile
    BY <2>1, FileTypes DEF IInv, InvType, DiskType
  <2>15. DiskType' /\ LockWritten /\ LevelsWritten(p)
    BY <2>1, <2>12, <2>14, Kinds DEF LockWritten, LevelsWritten, IInv, InvType, DiskType
  <2> QED BY <1>1, <2>7, <2>8, <2>10, <2>12, <2>13, <2>15, PlaysOn
<1> QED BY <1>3, <1>4

LEMMA DosaveClose ==
  ASSUME IInv, NEW p \in Procs, dosave0_close(p) PROVE IInv'
<1>1. /\ pc[p] \in AtGame /\ "unlocking" \in AtGame /\ pc[p] \in {"saved state", "emptying"}
      /\ levels' = [levels EXCEPT ![mem[p].at] = NoFile]
      /\ Goto(p, "unlocking") /\ UNCHANGED <<lock, save, readable, mem, history>>
  BY DEF dosave0_close, AtGame
<1>2. PICK x : x = mem[p]
  OBVIOUS
<1>3. Moves(p, "unlocking", x)
  BY <1>1, <1>2, MovesOn DEF Points
<1>4. GameOK("unlocking", x)
  BY <1>1, <1>2, AtGameHas DEF GameOK, Arriving
<1>5. HistoryType' /\ Remembered /\ GameOK("unlocking", x)'
  BY <1>1, <1>4, HistoryStays, GameStays DEF history
<1>6. /\ levels' \in [Levels -> LevelFileSet]
      /\ \A l \in Levels : levels'[l] = levels[l] \/ levels'[l] = NoFile
  BY <1>1, FileTypes DEF IInv, InvType, DiskType
<1>7. DiskType' /\ LockWritten /\ LevelsWritten(p) /\ SaveWritten(p) /\ WriterOK(p)'
  BY <1>1, <1>3, <1>6, NotWriting, Kinds DEF LockWritten, LevelsWritten, IInv, InvType, DiskType
<1> QED BY <1>1, <1>2, <1>3, <1>5, <1>7, PlaysOn

LEMMA DosaveUnlock ==
  ASSUME IInv, NEW p \in Procs, dosave0_unlock(p) PROVE IInv'
<1> DEFINE g == mem[p].game
<1>1. /\ pc[p] \in AtGame /\ lock' = NoFile /\ kept' = [kept EXCEPT ![g] = now[g]] /\ Exit(p)
      /\ UNCHANGED <<levels, save, readable, now, over, torn, littered, rivalry, mixed, accused>>
  BY DEF dosave0_unlock, AtGame
<1>2. g \in Games /\ now[g] \in Snapshots
  BY <1>1, AtGameHas
<1>3. HistoryType' /\ Remembered
  BY <1>1, <1>2, SnapshotsKnown DEF IInv, InvType, HistoryType, Remembered
<1>4. DiskType'
  BY <1>1, FileTypes DEF IInv, InvType, DiskType
<1> QED BY <1>1, <1>3, <1>4, Ends, Kinds

-----------------------------------------------------------------------------
(* The recover utility, and a crash *)

LEMMA RecoverTool ==
  ASSUME IInv, NEW p \in Procs, recover_tool(p) PROVE IInv'
<1>1. /\ pc[p] \in AtStart /\ lock.kind = "state" /\ save' = Empty
      /\ UNCHANGED <<lock, levels, readable, now, kept, over, torn, littered, mixed, accused>>
  BY DEF recover_tool, MayStart, AtStart
<1>2. HistoryType' /\ Remembered
  BY DEF recover_tool, Enters, IInv, InvType, HistoryType, Remembered
<1>3. DiskType'
  BY <1>1, FileTypes DEF IInv, InvType, DiskType
<1>4. CASE Exit(p)
  BY <1>1, <1>2, <1>3, <1>4, Ends, Kinds
<1>5. CASE ~Exit(p)
  <2>1. /\ levels[lock.state.at] # NoFile /\ Goto(p, "tool")
        /\ mem' = [mem EXCEPT ![p] = Recovery]
    BY <1>5 DEF recover_tool
  <2>2. PICK x : x = Recovery
    OBVIOUS
  <2>3. Moves(p, "tool", x)
    BY <2>1, <2>2, MovesBy DEF Points, AtRecovery
  <2>4. lock.state \in States /\ lock.state.at \in DOMAIN Copies
    BY <1>1, <2>1, LockParts, CopiesParts DEF IInv, InvType, DiskType, States
  <2>5. x \in RecoveryMemory /\ x.state = lock.state /\ x.game = lock.state.game
    BY <2>2, <2>4, CopiesParts DEF Recovery, RecoveryMemory, States
  <2>6. kept[x.game] # Nowhere
    BY <1>1, <2>5 DEF IInv, LockOK
  <2>7. MemoryOK("tool", x)'
    BY <1>1, <2>5, <2>6 DEF MemoryOK, RecoveryOK, AtGame, AtRecovery, AtStart
  <2>8. LockWritten /\ LevelsWritten(p) /\ SaveWritten(p) /\ WriterOK(p)'
    BY <1>1, Kinds DEF LockWritten, LevelsWritten, SaveWritten, WriterOK
  <2> QED BY <1>1, <1>2, <1>3, <2>3, <2>7, <2>8, GoesOn DEF Points, AtRecovery
<1> QED BY <1>4, <1>5

\* What a step of the utility has to show, since its memory stays as it is
LEMMA ToolGoesOn ==
  ASSUME IInv, NEW p \in Procs, pc[p] \in AtRecovery, NEW w \in AtRecovery, NEW x, x = mem[p],
         Moves(p, w, x), DiskType',
         UNCHANGED <<now, kept, over, torn, littered, rivalry, accused>>,
         mixed \subseteq mixed', mixed' \subseteq Games,
         w = "tool state" => x.cur = Empty \/ x.cur.game = x.game \/ x.game \in mixed',
         LockWritten, LevelsWritten(p), SaveWritten(p), WriterOK(p)'
  PROVE  IInv'
<1>1. HistoryType' /\ Remembered
  BY DEF IInv, InvType, HistoryType, Remembered
<1>2. RecoveryOK(pc[p], x)
  BY AtRecoveryHas
<1>3. RecoveryOK(w, x)'
  BY <1>2 DEF RecoveryOK, Own
<1>4. MemoryOK(w, x)'
  BY <1>3 DEF MemoryOK, AtGame, AtRecovery, AtStart
<1> QED BY <1>1, <1>4, GoesOn DEF Points

LEMMA FileGone ==
  ASSUME IInv, NEW p \in Procs, NEW l \in Levels, levels' = [levels EXCEPT ![l] = NoFile]
  PROVE  levels' \in [Levels -> LevelFileSet] /\ LevelsWritten(p)
<1>1. /\ levels' \in [Levels -> LevelFileSet]
      /\ \A k \in Levels : levels'[k] = levels[k] \/ levels'[k] = NoFile
  BY FileTypes DEF IInv, InvType, DiskType
<1> QED BY <1>1, Kinds DEF LevelsWritten

LEMMA RecoverToolStep ==
  ASSUME IInv, NEW p \in Procs, recover_tool_step(p) PROVE IInv'
<1> DEFINE m == mem[p]
           rest == {l \in Levels : levels[l] # NoFile}
<1>1. UNCHANGED <<readable, now, kept, over, torn, littered, rivalry, accused>>
  BY DEF recover_tool_step
<1>2. PICK x : x = m
  OBVIOUS
<1>3. CASE /\ pc[p] = "tool"
           /\ save' = IF save = Empty THEN [kind |-> "head", by |-> p] ELSE save
           /\ levels' = [levels EXCEPT ![m.state.at] = NoFile]
           /\ mixed' = IF Mixes(m.game, m.cur) THEN mixed \cup {m.game} ELSE mixed
           /\ Goto(p, "tool state") /\ UNCHANGED <<lock, mem>>
  <2>1. pc[p] \in AtRecovery /\ "tool state" \in AtRecovery
    BY <1>3 DEF AtRecovery
  <2>2. m.game \in Games /\ m.state.at \in Levels
    BY <2>1, AtRecoveryHas
  <2>3. Moves(p, "tool state", x)
    BY <1>2, <1>3, <2>1, MovesOn DEF Points
  <2>4. mixed \subseteq mixed' /\ mixed' \subseteq Games
    BY <1>3, <2>2 DEF IInv, InvType, HistoryType
  <2>5. x.cur = Empty \/ x.cur.game = x.game \/ x.game \in mixed'
    BY <1>2, <1>3 DEF Mixes
  <2>6. [kind |-> "head", by |-> p] \in Saves /\ [kind |-> "head", by |-> p].kind = "head"
    BY DEF Saves
  <2>7. levels' \in [Levels -> LevelFileSet] /\ LevelsWritten(p)
    BY <1>3, <2>2, FileGone
  <2>8. DiskType' /\ LockWritten /\ SaveWritten(p)
    BY <1>1, <1>3, <2>6, <2>7 DEF LockWritten, SaveWritten, IInv, InvType, DiskType
  <2>9. WriterOK(p)'
    <3>1. ~(save.kind = "save" /\ save.by = p)
      BY <1>3 DEF IInv, WriterOK
    <3>2. ~(save'.kind = "save" /\ save'.by = p)
      BY <1>3, <2>6, <3>1
    <3> QED BY <3>2 DEF WriterOK
  <2> QED BY <1>1, <1>2, <2>1, <2>3, <2>4, <2>5, <2>7, <2>8, <2>9, ToolGoesOn
<1>4. CASE /\ pc[p] = "tool state"
           /\ save' = IF save.kind = "head" /\ save.by = p
                        THEN SaveFile(p, m.state, [l \in {m.state.at} |-> m.cur])
                        ELSE save
           /\ lock' = NoFile
           /\ Goto(p, "tool rest") /\ UNCHANGED <<levels, mem, mixed>>
  <2>1. pc[p] \in AtRecovery /\ "tool rest" \in AtRecovery
    BY <1>4 DEF AtRecovery
  <2>2. /\ m.game \in Games /\ m.state.at \in Levels /\ m.state \in States /\ m.cur \in Copy
        /\ m.state.game = m.game /\ kept[m.game] # Nowhere
        /\ m.cur = Empty \/ Own(m.game, m.cur.game)
    BY <1>4, <2>1, AtRecoveryHas DEF RecoveryOK
  <2>3. Moves(p, "tool rest", x)
    BY <1>2, <1>4, <2>1, MovesOn DEF Points
  <2> DEFINE f == [l \in {m.state.at} |-> m.cur]
             file == SaveFile(p, m.state, f)
  <2>4. f = [l \in DOMAIN f |-> f[l]] /\ DOMAIN f = {m.state.at} /\ f[m.state.at] = m.cur
    OBVIOUS
  <2> HIDE DEF f
  <2>5. f \in Partial(Levels, Copy)
    BY <2>2, <2>4, PartialMade
  <2>6. file \in Saves /\ file.by = p /\ file.state = m.state /\ file.levels = f
    BY <2>2, <2>5, FileTypes DEF SaveFile
  <2> HIDE DEF file
  <2>7. save' = IF save.kind = "head" /\ save.by = p THEN file ELSE save
    BY <1>4 DEF file, f
  <2>8. DiskType' /\ LockWritten /\ LevelsWritten(p)
    BY <1>1, <1>4, <2>6, <2>7, FileTypes, Kinds DEF LockWritten, LevelsWritten, IInv, InvType, DiskType
  <2>9. SaveWritten(p)
    <3>1. CASE save' = file
      <4>1. SaveOK(save)'
        BY <1>1, <1>4, <2>2, <2>4, <2>6, <3>1 DEF SaveOK, Own
      <4> QED BY <2>6, <3>1, <4>1 DEF SaveWritten
    <3> QED BY <2>7, <3>1 DEF SaveWritten
  <2>10. WriterOK(p)'
    <3>1. CASE save' = file
      BY <1>2, <2>2, <2>3, <2>6, <3>1 DEF WriterOK, Moves
    <3>2. CASE save' = save
      BY <1>4, <3>2 DEF IInv, WriterOK
    <3> QED BY <2>7, <3>1, <3>2
  <2>11. mixed \subseteq mixed' /\ mixed' \subseteq Games
    BY <1>4 DEF IInv, InvType, HistoryType
  <2> QED BY <1>1, <1>2, <2>1, <2>3, <2>8, <2>9, <2>10, <2>11, ToolGoesOn
<1>5. ASSUME NEW l \in rest,
             /\ pc[p] = "tool rest"
             /\ save' = Appended(p, l)
             /\ levels' = [levels EXCEPT ![l] = NoFile]
             /\ mixed' = IF Mixes(m.game, Copies[l]) THEN mixed \cup {m.game} ELSE mixed,
             UNCHANGED <<lock, pc, mem>>
      PROVE  IInv'
  <2>1. pc[p] \in AtRecovery /\ "tool rest" \in AtRecovery
    BY <1>5 DEF AtRecovery
  <2>2. m.game \in Games
    BY <2>1, AtRecoveryHas
  <2>3. mixed \subseteq mixed' /\ mixed' \subseteq Games
    BY <1>5, <2>2 DEF IInv, InvType, HistoryType
  <2>4. Copies[l] = Empty \/ Copies[l].game = m.game \/ m.game \in mixed'
    BY <1>5 DEF Mixes
  <2>5. /\ save' \in Saves /\ SaveWritten(p)
        /\ (save'.kind = "save" /\ save'.by = p => save'.state.game = m.game)
    BY <1>1, <1>5, <2>3, <2>4, AppendsLevel
  <2>6. Moves(p, "tool rest", x)
    BY <1>2, <1>5 DEF Moves, IInv, InvType, PlacesType
  <2>7. WriterOK(p)'
    BY <1>5, <2>5 DEF WriterOK
  <2>8. levels' \in [Levels -> LevelFileSet] /\ LevelsWritten(p)
    BY <1>5, FileGone
  <2>9. DiskType' /\ LockWritten
    BY <1>1, <1>5, <2>5, <2>8 DEF LockWritten, IInv, InvType, DiskType
  <2> QED BY <1>1, <1>2, <2>1, <2>3, <2>5, <2>6, <2>7, <2>8, <2>9, ToolGoesOn
<1>6. CASE pc[p] = "tool rest" /\ Exit(p) /\ UNCHANGED <<lock, levels, save, mixed>>
  <2>1. DiskType' /\ HistoryType' /\ Remembered
    BY <1>1, <1>6, HistoryStays DEF IInv, InvType, DiskType
  <2> QED BY <1>6, <2>1, Ends
<1> HIDE DEF m
<1> QED BY <1>3, <1>4, <1>5, <1>6 DEF recover_tool_step, recover_tool_copy, m

LEMMA Crash ==
  ASSUME IInv, NEW p \in Procs, crash(p) PROVE IInv'
<1>1. Exit(p) /\ UNCHANGED <<disk, now, kept, over, littered, rivalry, mixed, accused>>
  BY DEF crash
<1>2. torn' \subseteq Games
  <2>1. InPieces(p) => pc[p] \in AtGame \cup AtRecovery
    BY DEF InPieces, AtGame, AtRecovery
  <2>2. InPieces(p) => mem[p].game \in Games
    BY <2>1, AtGameHas, AtRecoveryHas
  <2> QED BY <2>2 DEF crash, IInv, InvType, HistoryType
<1>3. HistoryType' /\ Remembered
  BY <1>1, <1>2 DEF IInv, InvType, HistoryType, Remembered
<1> QED BY <1>1, <1>3, Ends, DiskStays DEF disk

-----------------------------------------------------------------------------
(* The theorems *)

LEMMA InitIInv == Init => IInv
<1> SUFFICES ASSUME Init PROVE IInv
  OBVIOUS
<1>1. InvType
  BY FileTypes DEF Init, InvType, PlacesType, DiskType, HistoryType, Points, AtStart, Games
<1>2. \A p \in Procs : MemoryOK(pc[p], mem[p])
  BY DEF Init, MemoryOK, AtGame, AtRecovery
<1>3. LockOK(lock) /\ (\A l \in Levels : LevelOK(levels[l])) /\ SaveOK(save)
      /\ \A p \in Procs : WriterOK(p)
  BY Kinds DEF Init, LockOK, LevelOK, SaveOK, WriterOK
<1> QED BY <1>1, <1>2, <1>3 DEF IInv

LEMMA NextIInv == IInv /\ [Next]_vars => IInv'
<1> SUFFICES ASSUME IInv, [Next]_vars PROVE IInv'
  OBVIOUS
<1>1. CASE UNCHANGED vars
  BY <1>1 DEF vars, disk, history, IInv, InvType, PlacesType, DiskType, HistoryType,
     MemoryOK, GameOK, RecoveryOK, Own, LockOK, LevelOK, SaveOK, WriterOK
<1>2. ASSUME NEW p \in Procs, Startup(p) PROVE IInv'
  BY <1>2, GetlockFree, GetlockBusy, AnswerNo, EraseOldLocks, RecoverOpen, RecoverCopy,
     RecoverUnlink, RecoverGotlock, Restore, DeleteSavefile, NewGame, RestLevelFile
     DEF Startup
<1>3. ASSUME NEW p \in Procs, Playing(p) PROVE IInv'
  BY <1>3, SaveCurrentLevel, SavestateCheck, SavestateCreate, SavestateWrite, Play,
     GotoLevel, GotoLevelSave, GotoLevelArrive, ReallyDone
     DEF Playing
<1>4. ASSUME NEW p \in Procs, Saving(p) PROVE IInv'
  BY <1>4, Dosave, DosaveState, DosaveLevel, DosaveClose, DosaveUnlock DEF Saving
<1>5. ASSUME NEW p \in Procs, recover_tool(p) \/ recover_tool_step(p) \/ crash(p) PROVE IInv'
  BY <1>5, RecoverTool, RecoverToolStep, Crash
<1> QED BY <1>1, <1>2, <1>3, <1>4, <1>5 DEF Next

\* The inductive invariant: what each process has in memory is its own game's,
\* unless that was mixed; so is a level file that a living process wrote; and a
\* save file is one game's, whoever writes it.
THEOREM FilesAndMemory == Spec => []IInv
BY InitIInv, NextIInv, PTL DEF Spec

\* Every variable of the model keeps its type: no step of getlock(), a save or
\* a recovery leaves a file or a game the next one could not make sense of.
THEOREM LevelTypeCorrect == Spec => []LevelTypeOK
<1>1. IInv => LevelTypeOK
  <2> SUFFICES ASSUME IInv PROVE LevelTypeOK
    OBVIOUS
  <2>1. ASSUME NEW p \in Procs, mem[p] # NoGame PROVE mem[p].game \in Games
    <3>1. pc[p] \in AtGame \cup AtRecovery
      BY <2>1 DEF IInv, InvType, PlacesType, MemoryOK, Points
    <3> QED BY <3>1, AtGameHas, AtRecoveryHas
  <2>2. Copy = {Empty} \cup Contents
    BY DEF Copy
  <2> QED BY <2>1, <2>2 DEF IInv, InvType, DiskType, HistoryType, LevelTypeOK, Locks,
             LevelFileSet, Saves
<1> QED BY <1>1, FilesAndMemory, PTL

\* However many processes share a name, and wherever they crash, save or
\* recover, goto_level() and dorecover() let a hero walk only on levels of his
\* own game, but for a game that recovery put together from two.
THEOREM OwnLevels == Spec => []OwnLevelsOnly
<1>1. IInv => OwnLevelsOnly
  <2> SUFFICES ASSUME IInv, NEW p \in Procs, pc[p] = "play"
               PROVE  mem[p].from = mem[p].game \/ mem[p].game \in mixed
    BY DEF OwnLevelsOnly
  <2>1. pc[p] \in AtGame
    BY DEF AtGame
  <2> QED BY <2>1, AtGameHas DEF Own
<1> QED BY <1>1, FilesAndMemory, PTL

=============================================================================
