----------------------------- MODULE LevelFiles -----------------------------
(***************************************************************************)
(* The files of one character: the level files <lock>.1, <lock>.2 and so    *)
(* on, the file <lock>.0 that is both the lock of the name and the state of *)
(* the last checkpoint, and the save file.  getlock() of unixunix.c, the    *)
(* start of unixmain.c, newgame(), goto_level() with its checkpoint,        *)
(* dosave0(), dorecover(), recover_savefile() and util/recover.c, each cut  *)
(* where a file has changed, since the process can die there.               *)
(*                                                                         *)
(* Several processes may run under one name, since getlock() lets the       *)
(* player destroy or recover a game that is still alive.  A process is also *)
(* its process id, and names the game it began.  What a level or the hero   *)
(* holds is a set of things.                                                *)
(***************************************************************************)
EXTENDS Naturals, FiniteSets

CONSTANTS
  Procs,     \* processes, each of which runs once
  Levels,    \* ledger numbers
  First,     \* the level a game begins on
  Things,    \* what a new hero carries
  MaxAlive,  \* bound: processes that run at the same time...
  MaxBeside  \* ...when they are among the first MaxBeside to start

ASSUME LevelAssumption == First \in Levels /\ MaxAlive \in Nat /\ MaxBeside \in Nat

NoFile == [kind |-> "none"]
Empty == [kind |-> "empty"]        \* created, nothing written yet

VARIABLES
  lock,       \* <lock>.0
  levels,     \* the level files
  save,       \* the save file...
  readable,   \* ...and its mode: FALSE is mode 0
  pc,         \* where each process is
  mem,        \* the game each process has in memory
  \* history
  now,        \* where everything is, as the player of a game knows it
  kept,       \* the same at the last checkpoint or save of the game
  over,       \* games that were ended, by death or by the player's answer
  torn,       \* games whose process died while their files were in pieces
  littered,   \* games begun or resumed beside level files that were left over
  rivalry,    \* files were taken over while another process was at them
  mixed,      \* games recovered with a level of another game in them
  accused     \* games stopped for trickery that were neither over nor torn

disk == <<lock, levels, save, readable>>
history == <<now, kept, over, torn, littered, rivalry, mixed, accused>>
vars == <<disk, pc, mem, history>>

NoGame == [game |-> "none"]
Nowhere == [at |-> "none"]

\* Past getlock(), or rewriting the files from outside
Inside(p) == pc[p] \notin {"unborn", "asked", "dead"}
Alive(p) == pc[p] \notin {"unborn", "dead"}

Init ==
  /\ lock = NoFile /\ levels = [l \in Levels |-> NoFile]
  /\ save = NoFile /\ readable = TRUE
  /\ pc = [p \in Procs |-> "unborn"]
  /\ mem = [p \in Procs |-> NoGame]
  /\ now = [g \in Procs |-> Nowhere] /\ kept = [g \in Procs |-> Nowhere]
  /\ over = {} /\ torn = {} /\ littered = {} /\ rivalry = FALSE
  /\ mixed = {} /\ accused = {}

LevelFile(p, g, things) ==
  [kind |-> "level", pid |-> p, game |-> g, things |-> things]
PidOnly(p) == [kind |-> "pid", pid |-> p]

\* The hero's side of a game: what savegamestate() writes
State(m) == [game |-> m.game, at |-> m.at, inv |-> m.inv, made |-> m.made]

Goto(p, where) == pc' = [pc EXCEPT ![p] = where]
Exit(p) == Goto(p, "dead") /\ mem' = [mem EXCEPT ![p] = NoGame]

\* p takes the files over: is somebody at them already?
Enters(p) == rivalry' = (rivalry \/ \E q \in Procs \ {p} : Inside(q))

\* Game g is begun or resumed: are there level files already?
Begins(g) ==
  littered' = IF \E l \in Levels : levels[l] # NoFile THEN littered \cup {g} ELSE littered

-----------------------------------------------------------------------------
(* unixunix.c: getlock() *)

MayStart(p) ==
  LET alive == {q \in Procs : Alive(q)}
      born == {q \in Procs : pc[q] # "unborn"}
  IN /\ pc[p] = "unborn"
     /\ alive = {} \/ (Cardinality(alive) < MaxAlive /\ Cardinality(born) < MaxBeside)

\* There is no <lock>.0: it is created while HLOCK is held.
getlock_free(p) ==
  /\ MayStart(p) /\ lock = NoFile
  /\ lock' = PidOnly(p) /\ Goto(p, "locked") /\ Enters(p)
  /\ UNCHANGED <<levels, save, readable, mem, now, kept, over, torn, littered, mixed, accused>>

\* There is one.  HLOCK is released while the player decides.
getlock_busy(p) ==
  /\ MayStart(p) /\ lock # NoFile
  /\ Goto(p, "asked")
  /\ UNCHANGED <<disk, mem, history>>

answer_no(p) ==
  /\ pc[p] = "asked"
  /\ Exit(p)
  /\ UNCHANGED <<disk, history>>

\* eraseoldlocks() and gotlock: the player says yes, or the file is three days
\* old, which is not asked about.
eraseoldlocks(p) ==
  /\ pc[p] = "asked" \/ (MayStart(p) /\ lock # NoFile)
  /\ levels' = [l \in Levels |-> NoFile] /\ Enters(p)
  /\ IF lock = NoFile
       THEN Exit(p) /\ UNCHANGED <<lock, over>>
       ELSE /\ lock' = PidOnly(p) /\ Goto(p, "locked")
            /\ over' = over \cup
                 IF lock.kind = "state" THEN {lock.state.game}
                 ELSE IF save.kind = "save" /\ ~readable THEN {save.state.game} ELSE {}
            /\ UNCHANGED mem
  /\ UNCHANGED <<save, readable, now, kept, torn, littered, mixed, accused>>

-----------------------------------------------------------------------------
(* files.c: recover_savefile(), the answer r *)

\* What is there to copy of each level: process ids are not looked at.
Copies == [l \in {k \in Levels : levels[k] # NoFile} |->
             IF levels[l] = Empty
               THEN Empty
               ELSE [game |-> levels[l].game, things |-> levels[l].things]]

\* What recovery holds open, <lock>.0 and the hero's level, and the levels
\* that it has processed
Recovery == [game |-> lock.state.game, state |-> lock.state,
             cur |-> Copies[lock.state.at], processed |-> {}]

Mixes(g, copy) == copy # Empty /\ copy.game # g

\* A lock file without a state is taken for one that recovery left; with a
\* state, the save file is created anew.
recover_open(p) ==
  /\ pc[p] = "asked" /\ Enters(p)
  /\ IF lock.kind = "state" /\ ~(save # NoFile /\ ~readable)
       THEN IF levels[lock.state.at] = NoFile
              THEN /\ save' = NoFile /\ readable' = TRUE
                   /\ Exit(p) /\ UNCHANGED lock
              ELSE /\ save' = Empty /\ readable' = TRUE
                   /\ mem' = [mem EXCEPT ![p] = Recovery]
                   /\ Goto(p, "recovering") /\ UNCHANGED lock
       ELSE /\ lock' = IF lock.kind # "state" /\ save # NoFile THEN NoFile ELSE lock
            /\ Exit(p) /\ UNCHANGED <<save, readable>>
  /\ UNCHANGED <<levels, now, kept, over, torn, littered, mixed, accused>>

SaveFile(p, state, copies) ==
  [kind |-> "save", by |-> p, state |-> state, levels |-> copies]

\* A level appended to the save file that p writes, if it is still there
Appended(p, l) ==
  IF save.kind = "save" /\ save.by = p
    THEN [save EXCEPT !.levels = [k \in DOMAIN @ \cup {l} |->
                                    IF k = l THEN Copies[l] ELSE @[k]]]
    ELSE save

recover_copy(p) ==
  LET m == mem[p]
      copies == [l \in DOMAIN Copies \cup {m.state.at} |->
                   IF l = m.state.at THEN m.cur ELSE Copies[l]]
  IN /\ pc[p] = "recovering"
     /\ save' = IF save = Empty THEN SaveFile(p, m.state, copies) ELSE save
     /\ mixed' = IF \E l \in DOMAIN copies : Mixes(m.game, copies[l])
                   THEN mixed \cup {m.game} ELSE mixed
     /\ mem' = [mem EXCEPT ![p].processed = DOMAIN copies]
     /\ Goto(p, "recovered")
     /\ UNCHANGED <<lock, levels, readable, now, kept, over, torn, littered, rivalry, accused>>

\* Only the levels that were copied are deleted.
unlink_processed(p) ==
  levels' = [l \in Levels |-> IF l \in mem[p].processed THEN NoFile ELSE levels[l]]

\* Mutant: the level files go as they are copied, the lock file last.
recover_unlink_last(p) ==
  /\ pc[p] = "recovered"
  /\ IF \E l \in mem[p].processed : levels[l] # NoFile
       THEN /\ unlink_processed(p)
            /\ UNCHANGED <<lock, pc, mem>>
       ELSE /\ lock' = PidOnly(p) /\ Goto(p, "locked")
            /\ mem' = [mem EXCEPT ![p] = NoGame] /\ UNCHANGED levels
  /\ UNCHANGED <<save, readable, history>>

\* <lock>.0 is unlinked first, then the levels...
recover_unlink(p) ==
  /\ pc[p] = "recovered" /\ lock' = NoFile
  /\ Goto(p, "unlinking")
  /\ UNCHANGED <<levels, save, readable, mem, history>>

\* Mutant: after a recovery the name is not locked again.
recover_gotlock_unlocked(p) ==
  /\ pc[p] = "unlinking"
  /\ unlink_processed(p) /\ Goto(p, "locked")
  /\ mem' = [mem EXCEPT ![p] = NoGame]
  /\ UNCHANGED <<lock, save, readable, history>>

\* ...and getlock() goes on to gotlock.
recover_gotlock(p) ==
  /\ pc[p] = "unlinking"
  /\ unlink_processed(p)
  /\ lock' = PidOnly(p) /\ Goto(p, "locked")
  /\ mem' = [mem EXCEPT ![p] = NoGame]
  /\ UNCHANGED <<save, readable, history>>

-----------------------------------------------------------------------------
(* files.c, restore.c: starting from a save file *)

\* restore_saved_game(), chmod(), and the state as dorecover() reads it.  A
\* save file of mode 0 cannot be opened and counts as none.
restore_saved_game(p) ==
  /\ pc[p] = "locked"
  /\ \/ /\ save = NoFile \/ ~readable
        /\ Goto(p, "newgame") /\ UNCHANGED <<disk, mem, now, littered>>
     \/ /\ save = Empty /\ readable              \* panic(), clearlocks()
        /\ lock' = NoFile /\ Exit(p)
        /\ UNCHANGED <<levels, save, readable, now, littered>>
     \/ /\ save.kind \in {"head", "save"} /\ readable
        /\ IF save.kind = "head" \/ \E l \in DOMAIN save.levels : save.levels[l] = Empty
             THEN /\ save' = NoFile              \* "Error restoring old game."
                  /\ Exit(p) /\ UNCHANGED <<readable, now, littered>>
             ELSE LET s == save.state
                      here == save.levels[s.at]
                  IN /\ readable' = FALSE
                     /\ mem' = [mem EXCEPT ![p] =
                          [game |-> s.game, at |-> s.at, inv |-> s.inv, made |-> s.made,
                           here |-> here.things, from |-> here.game,
                           to |-> s.at, left |-> save.levels, then |-> "levels"]]
                     /\ now' = [now EXCEPT ![s.game] = kept[s.game]]
                     /\ Begins(s.game)
                     /\ Goto(p, "check") /\ UNCHANGED save
        /\ UNCHANGED <<lock, levels>>
  /\ UNCHANGED <<kept, over, torn, rivalry, mixed, accused>>

\* Mutant: a level goes from the save file to its own file as it is.
restlevelfile_raw(p, l) ==
  LET left == mem[p].left
  IN /\ pc[p] = "levels" /\ l \in DOMAIN left
     /\ levels' = [levels EXCEPT ![l] = left[l]]
     /\ mem' = [mem EXCEPT ![p].left = [k \in DOMAIN left \ {l} |-> left[k]]]
     /\ UNCHANGED <<lock, save, readable, pc, history>>

\* restlevelfile(): the current level first, then the others
restlevelfile(p, l) ==
  LET left == mem[p].left
  IN /\ pc[p] = "levels" /\ l \in DOMAIN left
     /\ mem[p].at \in DOMAIN left => l = mem[p].at
     /\ levels' = [levels EXCEPT ![l] = LevelFile(p, left[l].game, left[l].things)]
     /\ mem' = [mem EXCEPT ![p].left = [k \in DOMAIN left \ {l} |-> left[k]],
                           ![p].made = @ \cup {l}]
     /\ UNCHANGED <<lock, save, readable, pc, history>>

delete_savefile(p) ==
  /\ pc[p] = "levels" /\ DOMAIN mem[p].left = {}
  /\ save' = NoFile /\ readable' = TRUE
  /\ Goto(p, "play")
  /\ UNCHANGED <<lock, levels, mem, history>>

-----------------------------------------------------------------------------
(* allmain.c, do.c, save.c: new games, checkpoints, level changes *)

newgame(p) ==
  /\ pc[p] = "newgame"
  /\ mem' = [mem EXCEPT ![p] =
       [game |-> p, at |-> First, inv |-> Things, made |-> {}, here |-> {},
        from |-> p, to |-> First, left |-> << >>, then |-> "play"]]
  /\ now' = [now EXCEPT ![p] = [at |-> First, inv |-> Things, made |-> {First},
                                floor |-> [l \in Levels |-> {}]]]
  /\ Begins(p) /\ Goto(p, "arrived")
  /\ UNCHANGED <<disk, kept, over, torn, rivalry, mixed, accused>>

\* done(TRICKED), as any end of a game, deletes <lock>.0 and the levels that
\* this game has made, whosever they are by now.
clearlocks(p) ==
  /\ lock' = NoFile
  /\ levels' = [l \in Levels |-> IF l \in mem[p].made THEN NoFile ELSE levels[l]]
  /\ over' = over \cup {mem[p].game}
  /\ Exit(p)

tricked(p) ==
  /\ clearlocks(p) /\ accused' = accused \cup ({mem[p].game} \ (over \cup torn))
  /\ UNCHANGED <<now, kept, torn, littered, rivalry, mixed>>

\* The first half of rewriting the file of the hero's level: it is created, or
\* emptied if it is there.
create_levelfile(p) ==
  /\ levels' = [levels EXCEPT ![mem[p].at] = Empty]
  /\ mem' = [mem EXCEPT ![p].made = @ \cup {mem[p].at}]
  /\ UNCHANGED <<lock, save, readable, history>>

\* The second half: savelev()
savelev(p) ==
  levels' = [levels EXCEPT ![mem[p].at] =
               IF @ = Empty THEN LevelFile(p, mem[p].from, mem[p].here) ELSE @]

\* save_currentstate(): the level just reached...
save_currentlevel(p) ==
  \/ pc[p] = "arrived" /\ create_levelfile(p) /\ Goto(p, "saving level")
  \/ /\ pc[p] = "saving level" /\ savelev(p) /\ Goto(p, "check")
     /\ UNCHANGED <<lock, save, readable, mem, history>>

\* ...and savestateinlock(): is <lock>.0 still ours?
savestateinlock_check(p) ==
  /\ pc[p] = "check"
  /\ IF lock.kind \in {"pid", "state"} /\ lock.pid = p
       THEN Goto(p, "create") /\ UNCHANGED <<lock, levels, mem, history>>
       ELSE tricked(p)
  /\ UNCHANGED <<save, readable>>

savestateinlock_create(p) ==
  /\ pc[p] = "create" /\ lock' = Empty
  /\ Goto(p, "write")
  /\ UNCHANGED <<levels, save, readable, mem, history>>

\* The state written, the checkpoint stands: after a restore only when the
\* levels are there too.
savestateinlock_write(p) ==
  LET g == mem[p].game
  IN /\ pc[p] = "write"
     /\ lock' = IF lock = Empty
                  THEN [kind |-> "state", pid |-> p, state |-> State(mem[p])]
                  ELSE lock
     /\ kept' = IF mem[p].then = "play" THEN [kept EXCEPT ![g] = now[g]] ELSE kept
     /\ Goto(p, mem[p].then) /\ mem' = [mem EXCEPT ![p].then = "play"]
     /\ UNCHANGED <<levels, save, readable, now, over, torn, littered, rivalry, mixed, accused>>

\* The hero picks something up or drops it.
play(p, t) ==
  LET m == mem[p]
      g == m.game
  IN /\ pc[p] = "play"
     /\ \/ /\ t \in m.inv
           /\ mem' = [mem EXCEPT ![p].inv = @ \ {t}, ![p].here = @ \cup {t}]
           /\ now' = [now EXCEPT ![g].inv = @ \ {t}, ![g].floor[m.at] = @ \cup {t}]
        \/ /\ t \in m.here
           /\ mem' = [mem EXCEPT ![p].here = @ \ {t}, ![p].inv = @ \cup {t}]
           /\ now' = [now EXCEPT ![g].inv = @ \cup {t}, ![g].floor[m.at] = @ \ {t}]
     /\ UNCHANGED <<disk, pc, kept, over, torn, littered, rivalry, mixed, accused>>

\* goto_level(): the level that is left is rewritten...
goto_level(p, l) ==
  /\ pc[p] = "play" /\ l # mem[p].at
  /\ levels' = [levels EXCEPT ![mem[p].at] = Empty]
  /\ mem' = [mem EXCEPT ![p].made = @ \cup {mem[p].at}, ![p].to = l]
  /\ Goto(p, "leaving")
  /\ UNCHANGED <<lock, save, readable, history>>

goto_level_save(p) ==
  /\ pc[p] = "leaving" /\ savelev(p)
  /\ mem' = [mem EXCEPT ![p].here = {}]
  /\ Goto(p, "between")
  /\ UNCHANGED <<lock, save, readable, history>>

\* Mutant: a level file is read whoever wrote it.
goto_level_arrive_unchecked(p) ==
  LET l == mem[p].to
      g == mem[p].game
      made == l \in mem[p].made
  IN /\ pc[p] = "between"
     /\ IF made /\ levels[l].kind # "level"
          THEN tricked(p)
          ELSE /\ mem' = [mem EXCEPT ![p].at = l,
                            ![p].here = IF made THEN levels[l].things ELSE {},
                            ![p].from = IF made THEN levels[l].game ELSE mem[p].game]
               /\ now' = [now EXCEPT ![g].at = l, ![g].made = @ \cup {l}]
               /\ Goto(p, "arrived")
               /\ UNCHANGED <<lock, levels, kept, over, torn, littered, rivalry, mixed, accused>>
     /\ UNCHANGED <<save, readable>>

\* ...and the other one made, or read if its file is there and ours.
goto_level_arrive(p) ==
  LET l == mem[p].to
      g == mem[p].game
      made == l \in mem[p].made
  IN /\ pc[p] = "between"
     /\ IF made /\ (levels[l].kind # "level" \/ levels[l].pid # p)
          THEN tricked(p)
          ELSE /\ mem' = [mem EXCEPT ![p].at = l,
                            ![p].here = IF made THEN levels[l].things ELSE {},
                            ![p].from = IF made THEN levels[l].game ELSE mem[p].game]
               /\ now' = [now EXCEPT ![g].at = l, ![g].made = @ \cup {l}]
               /\ Goto(p, "arrived")
               /\ UNCHANGED <<lock, levels, kept, over, torn, littered, rivalry, mixed, accused>>
     /\ UNCHANGED <<save, readable>>

\* really_done(): the hero dies or quits.
really_done(p) ==
  /\ pc[p] = "play" /\ clearlocks(p)
  /\ UNCHANGED <<save, readable, now, kept, torn, littered, rivalry, mixed, accused>>

-----------------------------------------------------------------------------
(* save.c: dosave0() *)

\* A save file that can be read is overwritten, if the player likes; one of
\* mode 0 can be neither opened nor created, is deleted, and play goes on.
dosave0(p) ==
  /\ pc[p] = "play"
  /\ IF save # NoFile /\ ~readable
       THEN save' = NoFile /\ readable' = TRUE /\ UNCHANGED pc
       ELSE save' = Empty /\ Goto(p, "saving") /\ UNCHANGED readable
  /\ UNCHANGED <<lock, levels, mem, history>>

\* The current level and the state
dosave0_state(p) ==
  LET m == mem[p]
  IN /\ pc[p] = "saving"
     /\ save' = IF save = Empty
                  THEN SaveFile(p, State(m),
                         [l \in {m.at} |-> [game |-> m.from, things |-> m.here]])
                  ELSE save
     /\ mem' = [mem EXCEPT ![p].left = [l \in m.made \ {m.at} |-> Empty]]
     /\ Goto(p, "saved state")
     /\ UNCHANGED <<lock, levels, readable, history>>

\* Mutant: the levels that were not visited lately are left where they are.
dosave0_level_short(p, l) ==
  /\ pc[p] \in {"saved state", "emptying"} /\ l \in DOMAIN mem[p].left
  /\ levels' = [levels EXCEPT ![l] = NoFile]
  /\ mem' = [mem EXCEPT ![p].left = [k \in DOMAIN @ \ {l} |-> Empty],
                        ![p].made = @ \ {l}]
  /\ Goto(p, "emptying")
  /\ UNCHANGED <<lock, save, readable, history>>

\* Each other level is read, written and its file deleted.
dosave0_level(p, l) ==
  /\ pc[p] \in {"saved state", "emptying"} /\ l \in DOMAIN mem[p].left
  /\ IF levels[l].kind = "level" /\ levels[l].pid = p
       THEN /\ save' = Appended(p, l)
            /\ levels' = [levels EXCEPT ![l] = NoFile]
            /\ mem' = [mem EXCEPT ![p].left = [k \in DOMAIN @ \ {l} |-> Empty],
                                  ![p].made = @ \ {l}]
            /\ Goto(p, "emptying")
            /\ UNCHANGED <<lock, readable, history>>
       ELSE /\ tricked(p)
            /\ save' = IF levels[l] = NoFile THEN NoFile ELSE save
            /\ readable' = (readable \/ levels[l] = NoFile)

\* The file is closed and the current level deleted...
dosave0_close(p) ==
  /\ pc[p] \in {"saved state", "emptying"} /\ DOMAIN mem[p].left = {}
  /\ levels' = [levels EXCEPT ![mem[p].at] = NoFile]
  /\ Goto(p, "unlocking")
  /\ UNCHANGED <<lock, save, readable, mem, history>>

\* ...and then <lock>.0.
dosave0_unlock(p) ==
  LET g == mem[p].game
  IN /\ pc[p] = "unlocking" /\ lock' = NoFile
     /\ kept' = [kept EXCEPT ![g] = now[g]]
     /\ Exit(p)
     /\ UNCHANGED <<levels, save, readable, now, over, torn, littered, rivalry, mixed, accused>>

-----------------------------------------------------------------------------
(* util/recover.c, run from outside: no lock is taken, and each file is *)
(* unlinked as soon as it is copied. *)

recover_tool(p) ==
  /\ MayStart(p) /\ lock.kind = "state" /\ ~(save # NoFile /\ ~readable)
  /\ save' = Empty /\ Enters(p)
  /\ IF levels[lock.state.at] = NoFile
       THEN Exit(p)
       ELSE /\ mem' = [mem EXCEPT ![p] = Recovery]
            /\ Goto(p, "tool")
  /\ UNCHANGED <<lock, levels, readable, now, kept, over, torn, littered, mixed, accused>>

recover_tool_copy(p) ==
  LET m == mem[p]
      rest == {l \in Levels : levels[l] # NoFile}
  IN \/ /\ pc[p] = "tool"
        /\ save' = IF save = Empty THEN [kind |-> "head", by |-> p] ELSE save
        /\ levels' = [levels EXCEPT ![m.state.at] = NoFile]
        /\ mixed' = IF Mixes(m.game, m.cur) THEN mixed \cup {m.game} ELSE mixed
        /\ Goto(p, "tool state") /\ UNCHANGED <<lock, mem>>
     \/ /\ pc[p] = "tool state"
        /\ save' = IF save.kind = "head" /\ save.by = p
                     THEN SaveFile(p, m.state, [l \in {m.state.at} |-> m.cur])
                     ELSE save
        /\ lock' = NoFile
        /\ Goto(p, "tool rest") /\ UNCHANGED <<levels, mem, mixed>>
     \/ /\ pc[p] = "tool rest"
        /\ \E l \in rest :
             /\ save' = Appended(p, l)
             /\ levels' = [levels EXCEPT ![l] = NoFile]
             /\ mixed' = IF Mixes(m.game, Copies[l]) THEN mixed \cup {m.game} ELSE mixed
        /\ UNCHANGED <<lock, pc, mem>>
     \/ /\ pc[p] = "tool rest" /\ rest = {}
        /\ Exit(p) /\ UNCHANGED <<lock, levels, save, mixed>>

recover_tool_step(p) ==
  recover_tool_copy(p) /\ UNCHANGED <<readable, now, kept, over, torn, littered, rivalry, accused>>

-----------------------------------------------------------------------------
(* The process dies: its files stay as they are. *)

\* Where its game is not whole on disk: a level is rewritten and the state is
\* not, the save file is of mode 0, or levels are gone and <lock>.0 is not.
InPieces(p) ==
  pc[p] \in {"arrived", "saving level", "check", "create", "write", "levels",
             "leaving", "between", "emptying", "unlocking",
             "tool state", "tool rest"}

crash(p) ==
  /\ Alive(p) /\ Exit(p)
  /\ torn' = IF InPieces(p) THEN torn \cup {mem[p].game} ELSE torn
  /\ UNCHANGED <<disk, now, kept, over, littered, rivalry, mixed, accused>>

Startup(p) ==
  \/ getlock_free(p) \/ getlock_busy(p) \/ answer_no(p) \/ eraseoldlocks(p)
  \/ recover_open(p) \/ recover_copy(p) \/ recover_unlink(p) \/ recover_gotlock(p)
  \/ restore_saved_game(p) \/ delete_savefile(p) \/ newgame(p)
  \/ \E l \in Levels : restlevelfile(p, l)

Playing(p) ==
  \/ save_currentlevel(p) \/ savestateinlock_check(p)
  \/ savestateinlock_create(p) \/ savestateinlock_write(p)
  \/ \E t \in Things : play(p, t)
  \/ \E l \in Levels : goto_level(p, l)
  \/ goto_level_save(p) \/ goto_level_arrive(p)
  \/ really_done(p)

Saving(p) ==
  \/ dosave0(p) \/ dosave0_state(p) \/ dosave0_close(p) \/ dosave0_unlock(p)
  \/ \E l \in Levels : dosave0_level(p, l)

Next ==
  \E p \in Procs :
    \/ Startup(p) \/ Playing(p) \/ Saving(p)
    \/ recover_tool(p) \/ recover_tool_step(p) \/ crash(p)

Spec == Init /\ [][Next]_vars

-----------------------------------------------------------------------------
(* Properties *)

Games == Procs
States == [game : Games, at : Levels, inv : SUBSET Things, made : SUBSET Levels]
Contents == [game : Games, things : SUBSET Things]
Snapshots == [at : Levels, inv : SUBSET Things, made : SUBSET Levels,
              floor : [Levels -> SUBSET Things]]
Partial(D, R) == UNION {[d -> R] : d \in SUBSET D}

LevelTypeOK ==
  /\ lock \in {NoFile, Empty} \cup [kind : {"pid"}, pid : Procs]
              \cup [kind : {"state"}, pid : Procs, state : States]
  /\ levels \in [Levels -> {NoFile, Empty}
                   \cup [kind : {"level"}, pid : Procs, game : Games, things : SUBSET Things]]
  /\ save \in {NoFile, Empty} \cup [kind : {"head"}, by : Procs]
              \cup [kind : {"save"}, by : Procs, state : States,
                    levels : Partial(Levels, {Empty} \cup Contents)]
  /\ readable \in BOOLEAN /\ rivalry \in BOOLEAN
  /\ \A p \in Procs : Alive(p) /\ mem[p] # NoGame => mem[p].game \in Games
  /\ now \in [Games -> {Nowhere} \cup Snapshots]
  /\ kept \in [Games -> {Nowhere} \cup Snapshots]
  /\ over \subseteq Games /\ torn \subseteq Games /\ littered \subseteq Games
  /\ mixed \subseteq Games /\ accused \subseteq Games

\* Nobody else was at the game's files, it was not ended, not interrupted while
\* they were in pieces, and not begun among what another game left behind.
Undisturbed(g) == ~rivalry /\ g \notin over \cup torn \cup littered

\* While a game is played everything is where its player left it, once: the
\* hero's things and the level in memory, every other level in the file this
\* process wrote.  It holds across level changes, saves, restores, crashes and
\* recoveries.
EverythingInPlace ==
  \A p \in Procs :
    LET m == mem[p]
        n == now[m.game]
    IN pc[p] = "play" /\ Undisturbed(m.game) =>
         /\ m.at = n.at /\ m.inv = n.inv /\ m.made = n.made
         /\ m.here = n.floor[m.at]
         /\ \A l \in m.made \ {m.at} :
              levels[l] = LevelFile(p, m.game, n.floor[l])

\* A state and copies of levels, put together, are the game as it was kept.
IsKept(g, s, copies) ==
  /\ s.game = g /\ s.at = kept[g].at /\ s.inv = kept[g].inv /\ s.made = kept[g].made
  /\ kept[g].made \subseteq DOMAIN copies
  /\ \A l \in kept[g].made : copies[l] = [game |-> g, things |-> kept[g].floor[l]]

\* Where a game can be resumed from: <lock>.0 with the level files, which
\* recovery turns into a save file, or a save file that can be opened.
OnDisk(g) ==
  \/ lock.kind = "state" /\ IsKept(g, lock.state, Copies)
  \/ save.kind = "save" /\ readable /\ IsKept(g, save.state, save.levels)

\* Unless a process is just then taking its files apart, the last checkpoint
\* or save of a game that has not ended can be resumed, exactly as it was,
\* whatever else is under way: playing on, saving, or recovering once more.
LastCheckpointOnDisk ==
  \A g \in Games :
    Undisturbed(g) /\ kept[g] # Nowhere
      /\ ~(\E p \in Procs : InPieces(p) /\ mem[p].game = g)
    => OnDisk(g)

\* The checks for somebody else's files never stop a game whose files nobody
\* else had and that did not die while they were in pieces.
OnlyRivalsAccused == ~rivalry => accused = {}

\* However many processes share the name, a hero never walks on a level of
\* another game, unless recovery, which does not look at process ids, put it
\* into his save file.
OwnLevelsOnly ==
  \A p \in Procs :
    pc[p] = "play" => mem[p].from = mem[p].game \/ mem[p].game \in mixed

\* "Such games can be recovered at the point of the last level change"
\* (src/nethack-c/doc/recover.txt:15): of a game that was interrupted, the
\* last checkpoint is on disk.
RecoveredAtLastLevelChange ==
  \A g \in Games :
    ~rivalry /\ g \notin over /\ kept[g] # Nowhere
      /\ ~(\E p \in Procs : Alive(p) /\ mem[p].game = g)
    => OnDisk(g)

\* "no save file; start a new game" (src/nethack-c/sys/unix/unixmain.c:316):
\* or one of a game the player has ended.
NewGameMeansNoSave ==
  \A p \in Procs :
    pc[p] = "newgame" /\ save.kind = "save" => save.state.game \in over

=============================================================================
