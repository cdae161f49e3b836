# Verification of Mazes of Menace

TLA+ models of this repository, with the TLC runs that check them and the proofs
TLAPS checks. The repository is a JavaScript port of NetHack that runs in a
browser page (`js/`), and the C program it is ported from and compared with
(`nethack-c/`). Modelled are the concurrent core of the port and two parts of
the C program that are hard to test: its burning lights, and its files. Paths
are relative to the repository.

JavaScript runs one task at a time. Everything that can go wrong by timing goes
wrong at an `await`, at a task of the browser (key, click, timer) or because the
page goes away. So an action of the models of the port is what the code does between
two awaits, and the actions of different tasks interleave. The C program is
sequential: there, what can go wrong is the order in which a player, a monster
and the clock come to the same object, and a process that dies, or meets another
one, between two changes of a file. An action is one operation, or what the
program does up to its next change of a file.

## Inventory

| Component | State | Operations | Hard behaviour | Correct when |
|---|---|---|---|---|
| Autosave pipeline (`js/storage.js`) | `menace-autosave`, `_autosaveInFlight`, `_autosavePending`, `_autosaveCancelled` | schedule, compress and write, delete, load | a compression ends after the game went on, or was over; `setItem` throws; the page dies | one compression at a time; the newest snapshot survives; nothing comes back once the game loop has ended |
| Game session (`js/allmain.js`, `js/chargen.js`, `js/nethack.js`, ends in `js/end.js`, `js/cmd.js`, `js/do.js`) | `menace-save`, the game, where the main task waits | boot, restore, decline, reset, new game, command, S, die, survive, quit, disclosure, death screen, menu | menu and unloading at any await; a step that goes on after the game is over; two stored copies | one character at a time; one whose game has ended is gone |
| Input runtime (`js/input.js`, `js/headless.js`) | key queue, pending read, wait epoch, wait listeners | push, read, wait for a wait, abort | a key before or after the read; two readers | each key delivered once and in order; no read forgotten |
| Replay driver (`js/replay_core.js`) | step, startup or command pending, epoch seen | push a key, drain until input, capture, cancel | the command finishes, throws or waits during the race | frames captured at rest; no wait missed |
| Page input (`js/browser_input.js`, `js/promo.js`, catch of `gameLoop`) | game loop and attract mode as readers | key, click, delay, error, recovery | both read; recovery reads too | no read replaced |
| Burn timers and light sources (`nethack-c/src/timeout.c`, `light.c`, `apply.c`, `mkobj.c`, `invent.c`, `do.c`) | `lamplit`, `age`, `timed` of objects, `timer_base`, `light_base`, the same in level files | light, snuff, split, merge, attach, hand over, destroy, burn a turn, change level | three records of one fact; timers that go off while the hero is away or prays | they agree; no timer or light about nothing; a light burns one unit a turn wherever the hero is |
| Level files, checkpoints, save and recovery (`nethack-c/src/files.c`, `save.c`, `restore.c`, `do.c`, `sys/unix/`, `util/recover.c`) | `<lock>.0`, level files, the save file and its mode | start, checkpoint, change level, save, restore, recover, erase, end | a crash between any two changes of a file; a second process under the same name | everything is where the player left it; the last checkpoint can be resumed; nobody walks on a level of another game |
| Command queues and `nhgetch` (`js/input.js`; `js/allmain.js` `run_command`, `rhackCore`, `execute_repeat_command`; `js/cmd.js` `rhack`; `js/apply.js`) | `CQ_CANNED`, `CQ_REPEAT`, the two modes of `nhgetch`, `inDoAgain`, the prefix chain, the pending prompt | type, chain, answer, name after `#`, repeat, queue a command, interrupt, throw | one read serves prompts, messages and errors; a repetition uses up its queue; anything may throw | Ctrl+A repeats what was typed, as often as one likes; a queued letter is its command's, unless that fails or has nothing to apply |
| Origin tokens, modal guard (`js/gstate.js`, `js/origin_awaits.js`, `js/modal_guard.js`) | which await owns the game | begin, end | a throw between begin and end | not modelled yet |
| Message line (`js/display.js`) | `toplin`, `messageNeedsMore`, pending message | stage, `--More--`, acknowledge | a message dropped when a read throws | not modelled yet |
| Turn loop and timers (`js/allmain.js`, `js/timeout.js`) | moves, `multi`, occupation, timer list | one step, timers | interrupted continuations | not modelled yet |
| Bones (`js/bones.js`) | a map per depth | save, take | taken, then restored | not modelled yet |
| Regions, vision, shops, vault, temple (`nethack-c/src/region.c`, `vision.c`, `shk.c`, ...) | their own lists | a turn | bills and regions follow objects and levels | not modelled yet |
| Level generation, monsters, objects, rules, random numbers | the dungeon | a turn | none of timing | not modelled: data, compared with the C program by recorded sessions |
| Record of scores, options; key log, C harness | files | read, write | | not modelled: plain storage, development tools |
| Other games, shell, tools | their own | their own | | not modelled: separate programs |

Interactions: `gameLoop` reads keys from the input runtime and, after a command,
`renderAndAutosave` calls `scheduleAutosave`. The end of the loop calls
`deleteAutosave` and `showGameOver`, which calls `deleteSave`; the prompts with
which `js/end.js` discloses the hero's possessions call `showGameOver` too, from a
step of the loop, and only `deleteSave` comes with it. `init` reads both
stored copies. The menu calls `saveGame`, `deleteSave` and the attract mode
beside the running loop. The replay driver calls `init` and `_gameLoopStep`
itself, in place of `gameLoop`, and watches the input runtime.

In the C program the lights meet the files at a level change: `goto_level`
writes the timers and lights of the level it leaves to its file and reads those
of the level it arrives at, then writes a checkpoint. The two models share that
call and nothing else; `LitObjects` takes the file as part of the level,
`LevelFiles` takes what a level holds as a set of things.

`PROJECT.json` lists the hazards, each at its line, with the properties that
cover it or the reason none does.

## Modules

| Module | What it models |
|---|---|
| `Autosave` | the functions of the pipeline as operators, over its module-level variables |
| `GameSession` | extends it: the page's life and the callers of those functions |
| `CrashRecovery` | abstract: one stored copy that moves forward only and goes when the game loop has ended |
| `InputQueue` | the functions of the input runtime as operators |
| `FifoKeys` | abstract: keys typed, keys received, in order |
| `CommandQueue` | the command queues, `nhgetch` in front of the runtime, and the callers that set its modes |
| `DoAgain` | abstract: a record of a command, heard in order and never changed by hearing it |
| `ReplayDriver` | extends `InputQueue`: the driver and a game that reads as it likes |
| `PageInput` | extends `InputQueue`: the game loop and the attract mode in the page |
| `BurnTimers` | the functions on burn timers and light sources as operators on memory |
| `FuelClock` | abstract: fuel that burns one unit a turn, lights that go out only when it is used up, with no timers in it |
| `LitObjects` | extends `BurnTimers`: what hero, pet, accidents, time and level changes do |
| `LevelFiles` | the processes of one character and the files they share |
| `DocClaims` | statements of `docs/AUTOSAVE.md` and of a comment that the session does not satisfy |
| `MC_*` | small instances for TLC |
| `*_proofs` | theorems; `InputQueue_proofs` holds the lemmas two of them share |

Definitions whose comment starts with "Mutant:" are plausible bugs: putting one
in the place of the definition named before the underscore makes TLC refute the
property that `PROJECT.json` pairs it with.

### Autosave and GameSession

Of a saved game the model keeps its character and the turn it was captured at.
`buildSaveData` keeps references into the running game (`flags`, the entries of
`uprops`), so a text also has `refs`, the turn at which it was stringified.
`runAutosave` is `_runAutosave` up to its await and `gzipDone` the rest of it,
with the `finally` block that starts the snapshot that waits. `writers` are the
texts now being compressed; the code has no such variable, it is the set of
suspended calls, so that a bug that lets two run can be seen. A snapshot that
waited mixes two moments (`docs/AUTOSAVE.md:62` says "restoring puts the player
exactly where they were"), but no part of it is newer than the next snapshot
(`TextsDoNotOverlap`), so that no write takes a part of the stored game back.

`page` is where the main task waits:

| `page` | in the code |
|---|---|
| `closed` | no page |
| `reset` | `handleReset` asks |
| `gunzip` | `loadAutosave` decompresses |
| `prompt`, `declined` | `restoreFromSave` asks; was answered n |
| `chargen` | `init` creates a character |
| `input`, `command` | `_gameLoopStep` waits for a key; runs a command |
| `saved`, `reloading` | `handleSave` waits before its reload; the loop goes on meanwhile |
| `dying` | hit points are 0, `losehp` and `done` wait for keys |
| `over` | after quitting or escaping, whose commands end their step |
| `disclosed` | in `showGameOver`, called by a prompt inside a step |
| `tombstone` | in `showGameOver`, called by `gameLoop` |
| `ended` | `showGameOver` has returned ("Play again?" was answered) |

`gameOver` is the flag. `really_done` sets it in the middle of a command, and the
command runs on; so does the step around it when a wait, an occupation
(`js/allmain.js:2569-2580`) or a canned command (2636-2641) is left, for those
branches do not look at the flag, and the step reads a key at 2667. That key goes to
the prompt `really_done` may have installed (`endPrompt`), whose `onKey` shows the
death screen (`FinishEndgame`, `js/end.js:516-522`) while the autosave is still stored:
`deleteAutosave` comes when the step has returned (`GameOverShown`), and only then is
the game over for `CrashRecovery`. Without such a
step `gameLoop` leaves its loop first (`ShowGameOver`). Nothing in the model limits
how many commands of a dead hero a step runs.

`Unload` stands for closing, reloading and killing the page, possible anywhere.
`written`, `refused` (the last turn whose text `setItem` refused), `scheduled` and
`born` are history variables.

Left out: the metadata keys and the list of saves, saves that cannot be parsed
or have another version, several tabs. A turn is a player turn that took time,
whatever it did.

### InputQueue, ReplayDriver and PageInput

A key is its number in the order of typing. `readQueued`, `readWaits` and
`readConcurrent` are the three outcomes of `nhgetch`. In `ReplayDriver` driver
and game are two tasks of one thread: `Awaiting` are the points of the driver at
which the game may run, and a task that was just called runs first, up to its
first await (`started`). The game reads any number of keys, none included, and
ends or throws at any time. In `PageInput` keys, clicks and delays are tasks of
the browser, taken only when every reader is idle; that is why a loop of
microtasks keeps keys out for ever.

Left out: `clearInputQueue`, `throwOnEmpty`, the text of wait sites, the polling
fallback of `drainUntilInput`.

### CommandQueue and DoAgain

One task types, runs and repeats commands, so nothing interleaves. The state is
in module variables that every `nhgetch` consults: `inputModeDoAgain` says which
queue a read pops, `repeatRecordMode` whether a typed key is recorded. A node of a
queue is a key or an extended command; `HasQueuedKey` is false of the latter,
which only `rhack(0)` pops.

| `pc` | in the code |
|---|---|
| `loop` | `_gameLoopStep` between commands; a key read here is the next command, an answer to a pending prompt, or for a `--More--` |
| `rhack` | in `rhack`, `cmd` being the command it runs and `chCode` what it was called with (0 when it pops) |
| `turn` | the turn after a command; a repetition is not over before its turn is |
| `error` | the catch of `gameLoop`, which waits for a key |

| Action | in the code |
|---|---|
| `Ask`, `More`, `Recover` | a read in a command, of a message outside one, of the error message |
| `TypeCommand`, `RunCanned`, `CtrlA`, `CountedCtrlA`, `AnswerPrompt` | the branches of `_gameLoopStep`, `runOneCommandCycle` and `run_command` |
| `RepeatBehindPrefix`, `RunExtended`, `ExtendedRepeat`, `ApplyWields` | commands that touch the queues: the prefixes in a repetition, `#name`, `#repeat`, applying a pick-axe that is not wielded |
| `ReturnUntimed`, `ReturnTimed`, `EndTurn`, `Throw` | how they end, with the `finally` blocks of `rhackCore` and `execute_repeat_command` |
| `stop_occupation` | `stop_occupation` |

`refused`, `typed`, `glue` and `kept` are history variables: whether the last command
was a canned one that read no key, the last command and the keys
typed to it, whether a prefix that was typed ties the next command to it, and
what a command that threw behind a prefix left in front of the record (the chain
flag is not reset when `rhack` throws, so the next command is added to it).

Abstractions: a command asks any number of times, takes time or not, and may
throw anywhere; any key answers. A count is read while no mode is on and leaves
no node, so a command with a count is `TypeCommand`; Ctrl+A behind a count
reaches `rhack` as a key that is no command (`CountedCtrlA`). The keys a
repetition lacks are typed and not recorded. The canned command asks what to apply
before it does anything, unless nothing can be applied (`js/apply.js:1200-1210`: a
nymph may have taken the pick-axe in the turn of the wielding); then it returns
without a read, `refused` says so, and its letter stays in `CQ_CANNED`, to be taken by
the next `--More--` or run as a command. (The C program empties the queue there,
`nethack-c/src/cmd.c:3920-3927`.) What is typed after `#` is not
recorded either, answers to the extended command included
(`docs/SIMPLIFY_NHGETCH.md` would have them recorded); `RepeatsWhatWasTyped`
says nothing of them. In `DoAgain` a repetition may therefore end early or be
asked for more than was recorded, but never hears a key of the record twice, out
of order, or one that was typed meanwhile.

Left out: the end of the game (in `GameSession`), what a prompt asks, what the prefix
flags do, queued directions and
counts (`cmdq_add_dir`, `cmdq_add_int`, `cmdq_add_userinput`), which nothing in the
program queues, and the replay's direct keys.

### BurnTimers, LitObjects and FuelClock

`BurnTimers` has one operator for each function of `timeout.c`, `light.c`,
`mkobj.c` and `invent.c` that touches a light: from the memory `w` it finds to
the memory it leaves. `w.obj` are the slots objects live in (`NoObject` is a free
one), `w.timers` is `timer_base` as a set, since `insert_timer` keeps it in order
of timeout and `run_timers` takes a least one, and `w.lights[o]` counts the
elements of `light_base` about `o`, since `new_light_core` does not look for an
older one. "Magic times" (`Marks`) are the fuel levels at which the program says
something, so that a lamp has several timers in one life.

| Action of `LitObjects` | in the code |
|---|---|
| `use_lamp`, `use_candelabrum`, `light_cocktail`, `use_candle` | the functions of `apply.c`; the pieces that only talk are left out |
| `snuff_lit`, `catch_lit`, `dip_lamp`, `delobj`, `transfer` | what puts out, lights, fills, destroys an object or moves it between hero, pet and floor, with the merging that `addinv`, `add_to_minv` and `stackobj` do |
| `dopray`, `next_turn` | `dopray`; `moveloop_core` from `moves++`: with the hero invulnerable `nh_timeout` returns before `run_timers` |
| `run_timer`, `timers_done` | one turn of the loop of `run_timers`, and its end |
| `goto_level` | `keepdogs`, `savelev`, `getlev`, `losedogs`, `run_timers` |

`FuelClock` sees of this the fuel of each object (its age and what is left of its
timer, or 0 if that comes to nothing), the set of lights, and whether `run_timers`
is at work (`settling`): then a light whose fuel is used up goes out and nothing
else happens, and at all other times an action touches three objects at most and
makes no fuel. What an overdue light owes is forgotten on purpose. After a prayer
held `run_timers` back a candelabrum can be put out with an age below zero, and when
it is lit again `use_candelabrum` halves that: -3 becomes -1, which is more fuel than
any object had, and still none.

`file[l]` holds the timers and lights in the file of level `l`. `skipped` is a
history variable.

Left out: diluted oil, containers, objects in flight between levels, shops that
bill a lit candle, magic lamps and lit artifacts (which have no timer), light
from monsters, the radius of a light, the other kinds of timers, messages.

### LevelFiles

The configuration is the one of the repository's Unix build: `INSURANCE` and
`SELF_RECOVER` defined (`nethack-c/sys/unix/hints/linux.370:179`), `checkpoint`
on. A process is its process id and names the game it began; a file is what was
written of it, `Empty` as soon as it is created. Each handler is cut where a file
has changed, because `crash` may come there: `goto_level` is `goto_level`
(the level left is emptied), `goto_level_save` (written), `goto_level_arrive`
(the other one made or read), and then `save_currentlevel`, `savestateinlock_*`
are the checkpoint.

| `pc` | in the code |
|---|---|
| `unborn`, `dead` | not started; ended or crashed |
| `asked` | `getlock` waits for the answer about an old game, with HLOCK released |
| `recovering`, `recovered`, `unlinking` | `recover_savefile` before the save file is whole, before and after `<lock>.0` is unlinked |
| `locked`, `newgame` | past `getlock`; no save file |
| `levels` | `dorecover` writes level files |
| `arrived`, `saving level`, `check`, `create`, `write` | the checkpoint: `save_currentstate` |
| `play`, `leaving`, `between` | playing; in `goto_level` |
| `saving`, `saved state`, `emptying`, `unlocking` | in `dosave0` |
| `tool`, `tool state`, `tool rest` | the `recover` utility, run from outside |

`now` is where everything is as a player knows it, `kept` the same at the last
checkpoint; with `over`, `torn`, `littered`, `rivalry`, `mixed` and `accused`
they are history variables, which no guard of the program reads. A game is
`Undisturbed` when it is in none of the first three and there was no rivalry.
`littered` is for games begun or resumed beside level files that were there
already: a recovery that dies between unlinking `<lock>.0` and the levels, or the
`recover` utility when it dies, leaves such files, and `getlock` looks for
`<lock>.0` only. The next recovery of any game under the name copies them into
its save file (`files.c:3000`): the level of another game, or an empty one that
makes `dorecover` delete the save file. The code does nothing against it, so
nothing is claimed of such games but `OwnLevelsOnly`.

Abstractions: a hang-up saves like `dosave0` without the question; a lock too
old is erased like `eraseoldlocks` without the question; `eraseoldlocks` and
`clearlocks` are one step each, as no property depends on how far one of them
got; a save file with an empty level in it ends in "Error restoring old game."
with the file deleted, an empty save file in `panic`; when two processes write
one save file, the one that created it last wins.

Left out: a full disk, the panic save, renaming the hero, the endgame that
discards all levels, wizard and explore mode, other locking schemes.

## Runs

| Run | Checks | Bounds |
|---|---|---|
| `session` | `TypeOK`, `OneInFlightOneWaiting`, `LatestSnapshotKept`, `TextsDoNotOverlap`, `NoAutosaveAfterGame`, `OneCharacter`, `RefinesCrashRecovery`, `WaitingSnapshotLands`; storage may refuse any write | 2 characters, 4 turns |
| `replay` | `TypeOK`, `NoReaderStarves`, `CapturedAtRest`, `NoListenerLeft`, `RefinesFifo`, `ReplayEnds` | 2 chargen keys, 3 session keys |
| `page_input` | `PageTypeOK`, `NoReadForgotten`, `RefinesFifo` | 3 keys |
| `command_queue` | `TypeOK`, `RepeatsWhatWasTyped`, `ModesOnlyInCommand`, `LetterForItsCommand`, `RefinesDoAgain` | 2 prefixes, 2 plain keys, 1 extended command, records of 4 nodes |
| `lit_objects` | `LitTypeOK`, `LitHasLightAndTimer`, `NothingDangling`, `NothingOverdue`, `LateOnlyAfterPrayer`, `RefinesClock` | 6 slots, 2 levels, 5 turns, one magic time, prayers of 2 turns, a candelabrum for one candle, `AgeBand` 2, lamps filled up to 3 |
| `level_files` | `LevelTypeOK`, `EverythingInPlace`, `LastCheckpointOnDisk`, `OnlyRivalsAccused`, `OwnLevelsOnly` | 5 processes, 2 at a time among the first 3, 2 levels, one thing |
| `claim_*` | one statement of a document or comment each, refuted | as above |

Two characters let one outlive the other in storage. With four turns one
snapshot is compressed, one waits and was replaced, and the game is further
still. Three session keys give a key to the startup, to a command and to its
prompt, or to three commands; two chargen keys let keys be left over. With three
keys in the page one is typed ahead in a delay and another behind it.

A record of four nodes holds a prefix, a command behind it and two answers, or a
command that failed behind its prefix and one added to it; a repetition of it
can stop before any of them. Two prefixes let a chain go on behind either; one of
the two plain keys is the letter of the pick-axe, so that a letter taken for a
command would be one. (The properties hold as well when the letter is `a`, `#`, a
prefix or the other key: an inventory letter may be any of them.)

Four stocks are enough for the lights: candles to split and merge, with and
without a candelabrum to fix one on; two potions of oil, which neither merge nor
are relit while they burn; a lamp and a potion to fill it from. In five turns a
candle passes its magic time, goes out, or is found late after a prayer or on a
level the hero comes back to. The two levels are alike (`SYMMETRY`).

Two of the first three processes may be rivals about what the third, or nobody,
left. Five one after the other are what it takes for files of one game to end up
in another: a game is torn, a recovery of it is broken off and leaves a level
without `<lock>.0`, a new game begins beside that level, and two more processes
recover it and play on. (With six, one at a time, the properties hold too.) With
two levels one is in memory and one in its file. One thing is enough to tell a
level's copy from another, since it is on one of them or with the hero. The
processes are alike (`SYMMETRY`). `VIEW` forgets what no property and no later
step can tell apart: what is known of a game that is no longer played or no
longer claimed to be whole, what became of a game nobody has, and, once files
were taken over from a rival, what is on a level but for whose it is.

Deadlock is checked in no run of the input models and not in `level_files`: a
replay ends, a page that reloads is gone, and a process runs once. In `session`,
`command_queue` and `lit_objects` it is checked.

The `claim_*` runs each refute one line of the repository:

- Save & quit on the death screen stores the dead hero (`docs/AUTOSAVE.md`).
- A hero who dies in a step that goes on can be on the death screen with the
  autosave still stored, so that closing the tab there resumes him (a comment of
  `js/allmain.js`).
- Save & quit during an animation delay makes the loop's error recovery spin (a
  comment of `js/allmain.js`).
- A candle whose timer is found late can be in the hero's hands, after a prayer
  (a comment of `nethack-c/src/timeout.c`), and only then (`LateOnlyAfterPrayer`).
- A crash during a level change leaves a game that cannot be recovered at the
  last level change (`nethack-c/doc/recover.txt`).
- After a crash during a restore a new game starts beside the save file of a
  game that is not over (a comment of `nethack-c/sys/unix/unixmain.c`).

The `findings` of `PROJECT.json` quote the lines.

## Fairness

- `GameSession`: weak fairness of `GzipDone` only. The browser finishes a
  compression while the page stays; nobody has to answer a prompt.
- `ReplayDriver`: weak fairness of the driver (promises resolve, timers fire)
  and of the game (a command does not compute for ever: it reads on, waits or
  ends). A waiting game has no step, so this forces no key.
- `CommandQueue`: none; every key is the player's choice.
- `PageInput`: weak fairness of the loop and of delays, and strong fairness of
  `AskForCommand`: a command of several turns has a last one. No key is forced.

The C models state none: a player may stop playing at any time.

## Proofs

For every value of the constants, TLAPS checks:

- `GameSession_proofs`: `TypeCorrect`, `PipelineBounded`, `NothingComesBack`,
  `OneCharacterOnly`, `LatestKept`, `TextsInOrder`, `ImplementsCrashRecovery`.
  `Inv` strengthens what the runs check by what the page holds at each point of
  its life: what is stored is the last character's (`AtStored`), a game is
  offered exactly while it is asked about (`AtBoot`), nothing is under way on a
  page that does not play (`AtRest`), what is under way is the running game's
  (`AtPlay`), and only after the game loop was left can a compression go on whose
  autosave was deleted (`AtDeath`). Without `AtDeath` a compression that ends
  after `deleteAutosave` could not be told from one that may write; without
  `AtBoot` a new game could start beside an older stored one. `NothingComesBack` says
  that what `gameLoop` deletes stays deleted, whoever showed the death screen; it
  says nothing of the death screen a prompt shows before, where the autosave does
  still exist (the claim above).
- `InputQueue_proofs`: every call of the runtime preserves `QueueInv` (queue and
  keys read are the typed keys in order, nobody waits beside a key) and is a
  step of `FifoKeys` or none.
- `ReplayDriver_proofs`: `FramesAtRest`, `ListenersGone`, `ReplayNoStarving`,
  `ReplayIsFifo`. `AtRace` says that while the race is open either its listener
  is there and the epoch it saw is not ahead, or it was resolved and the game
  still waits; from it follow that no listener is left and that a resolved race
  means a waiting game.
- `PageInput_proofs`: `NoReadIsForgotten`, `PageIsFifo`.
- `CommandQueue_proofs`: `QueueTypeCorrect`, `RecordIsWhatWasTyped`,
  `ModesEndWithCommand`, `LetterReachesCommand`, `ImplementsDoAgain`, for any keys
  and records of any length. To what the run checks `Inv` adds that recording is on
  exactly in a command of the player's own (`AtCommand`; else a key could be
  recorded and not be his), that the chain flag agrees with the prefixes that were
  typed (`AtChain`), that nothing is repeated between commands (`AtRest`), and that
  the canned letter and a repetition never meet, nor one left behind (`AtCanned`; else
  the letter's command would read the record). `NhgetchReads` says which of four
  things a read does; every action is then checked against every part.

- `LitObjects_proofs`: `LitTypeCorrect`, `LitCorrect`, `NothingDangles`,
  `NothingIsOverdue`, `LateIsElsewhere`, `ImplementsClock`. Each
  operator of `BurnTimers` is shown to put one object into a new state and to leave
  the others alone (`Put`), each composed handler to change only objects that are in
  memory and to leave them in step (`Changed`). The inductive invariant needs that an object in memory is in step
  there and has nothing in any file (`InvHere`); that one the hero left behind
  is in step in the file of its level, because a level change swaps memory and
  file (`InvAway`); that a timer can be overdue only inside `run_timers` or after
  a skipped turn, and that without a skipped turn what is overdue there is not
  carried (`InvTime`); and that only what exists burns, only a candelabrum is a
  stack of none and not while it burns, and burning oil has all its fuel in its timer (`InvWhole`): without it merging could average over no candles, and a
  potion found late would go out with fuel left.
  That the model implements `FuelClock` rests on the same invariant and on the sum of
  age and timer (`FuelIn`), which every operator keeps or takes from among the
  objects it changes (`Handled`): `begin_burn` and `end_burn` move fuel between the
  two, `splitobj` copies it, an average is no more than the greater of its terms
  (`MeanAtMost`), and `burn_object` lights again what has fuel left, with all of it,
  and nothing else (`Aged`). `TurnStep` and `ArriveStep` are the turn and the level
  change: an object keeps its one timer when that goes into a file or comes out of
  it.
- `LevelFiles_proofs`: `LevelTypeCorrect`, `OwnLevels`. `IInv` says for each
  process what is in its memory at each point of the program, for each level
  file that a living writer's file is of the writer's game, and for the save
  file that it is of one game, and which process may go on writing it. A step is
  one process's, so what the others have and wrote stays theirs (`Step`);
  without `WriterOK` a save overtaken by another process's could not be told
  from one that goes on.
- `CrashSafety_proofs`: `FilesCountedOn`, `InPlace`, `CheckpointOnDisk`,
  `NobodyElseAccused`, for any number of processes, levels and things. The
  invariant `JInv` speaks of runs in which nobody took files over from a living
  process (`~rivalry`; taking over is what `eraseoldlocks` and the recover utility
  let a player do). There the process that goes past `getlock()` is the only one
  (`Alone`). `Place` then says for each point of
  the program what that process finds: whose the lock and the save file are
  (`StartFiles`, `GameFiles`), that the levels a sound game has made are in its
  own files or in what it still has to write (`ToolMade`, `GameMade`), and for
  an undisturbed game which level is in which file with which things on it
  (`ToolWhole`, `GameWhole`). Between processes `Resumable` and `LevelsThere`
  say the same of what is left on disk; a crash turns the first kind of fact
  into the second, which is why a process may die at any point but inside the
  pieces of its own game. The theorems about single files (`IInv` above) supply
  the types and the owners.

Assumptions: the bounds are natural numbers, `StorageMayFail` is a Boolean, and
the readers are the named ones and not the value that stands for none.
`NodeAssumption`: prefixes, other keys, `a`, `#`, extended commands and the key 0
are different things, and an inventory letter is a key. `BurnAssumption` and
`LitAssumption`: magic times are finite sets of positive numbers, and oil has none
(`begin_burn` gives it one timer for all its fuel); the bounds are natural numbers;
a game starts with unlit objects and no empty stack. `LevelAssumption`: a game
begins on a level.

Only model-checked: the liveness properties `WaitingSnapshotLands` and
`ReplayEnds` (liveness under fairness is outside the prover's reach), and the
refuted claims.

## Not modelled

Level generation, combat, monsters and the rules of objects are data and
arithmetic with a random number at every step; the repository compares them with
the C program by recorded sessions, and a model of them would repeat the code.
Random numbers are ISAAC64, a bit-level function. The other games, the shell, the
key log and the C harness are separate programs. The rest of the inventory is in
the plan.

## Plan

1. Done: `Autosave`, `GameSession`, `CrashRecovery`, `InputQueue`, `FifoKeys`,
   `ReplayDriver`, `PageInput`, `CommandQueue`, `DoAgain`, `BurnTimers`,
   `FuelClock`, `LitObjects`, `LevelFiles`, their runs and proofs.
2. `OriginAwait`: the tokens of `gstate.js` and the modal guard; every begin is
   ended, a stale token ends nothing.
3. `Topline`: staging of messages and `--More--`; a message is shown until it is
   acknowledged, composed with `InputQueue`.
4. `Timers` and `TurnLoop`: the timer list (a pure algorithm against a sorted
   reference) and movement, `multi` and occupations.
5. `Bones`: save once, take once, errors between.
6. `LevelFiles`: a full disk and the panic save; `LitObjects`: containers, and
   what monsters do with potions of oil.
