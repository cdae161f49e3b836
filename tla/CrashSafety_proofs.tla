------------------------ MODULE CrashSafety_proofs --------------------------
(***************************************************************************)
(* Proof that the files of LevelFiles survive a crash at any moment, for    *)
(* any number of processes, levels and things: as long as nobody takes the  *)
(* files over from a living process, a game is resumed exactly as it was    *)
(* last kept, everything is where its player left it, and nobody is accused *)
(* of trickery.                                                             *)
(*                                                                         *)
(* Without rivals one process at most is past getlock() (Alone).  Place     *)
(* says what it finds in the files at each of its steps; between processes, *)
(* Resumable and LevelsThere say what the next one can rely on.             *)
(***************************************************************************)
EXTENDS LevelFiles_proofs

-----------------------------------------------------------------------------
(* The invariant *)

\* A game that neither ended nor was broken off while in pieces; it may have
\* been begun beside leftovers.
Sound(g) == g \notin over \cup torn

InHand(g) == \E p \in Procs : InPieces(p) /\ mem[p].game = g

\* What a player knows hangs together.
Coherent(s) ==
  s # Nowhere => s.at \in s.made /\ \A l \in Levels \ s.made : s.floor[l] = {}

StateOf(g, s) == [game |-> g, at |-> s.at, inv |-> s.inv, made |-> s.made]
FileOf(p, g, s, l) == IF l \in s.made THEN LevelFile(p, g, s.floor[l]) ELSE NoFile
CopyOf(g, s, l) == [game |-> g, things |-> s.floor[l]]
Present == {l \in Levels : levels[l] # NoFile}

\* The last checkpoint of g, in the files of process q...
Whole(g, q) ==
  /\ lock = [kind |-> "state", pid |-> q, state |-> StateOf(g, kept[g])]
  /\ \A l \in Levels : levels[l] = FileOf(q, g, kept[g], l)

\* ...and in a save file
Saved(g) ==
  /\ save.kind = "save" /\ readable /\ save.state = StateOf(g, kept[g])
  /\ save.levels = [l \in kept[g].made |-> CopyOf(g, kept[g], l)]

Findable(g) == (\E q \in Procs : Whole(g, q)) \/ (lock.kind # "state" /\ Saved(g))

Resumable(g) == Undisturbed(g) /\ kept[g] # Nowhere /\ ~InHand(g) => Findable(g)

\* The levels that a state speaks of are there.
LevelsThere(g) ==
  Sound(g) /\ ~InHand(g) =>
    /\ lock.kind = "state" /\ lock.state.game = g => lock.state.made \subseteq Present
    /\ lock.kind # "state" /\ save.kind = "save" /\ readable /\ save.state.game = g
         => save.state.made \subseteq DOMAIN save.levels

\* A save file beside a state is of the same game.
OneGame ==
  lock.kind = "state" /\ save.kind = "save" /\ readable => save.state.game = lock.state.game

NoSave == save = NoFile \/ ~readable
OpenSave(p) == save.kind = "save" /\ save.by = p /\ readable
Mine(p, l) == levels[l].kind = "level" /\ levels[l].pid = p

Filling == {"saved state", "emptying", "unlocking"}
Writing == {"check", "create", "write"}

\* Whose the lock and the save file are
StartFiles(p, w, x) ==
  /\ w \in {"locked", "newgame"} => lock = PidOnly(p)
  /\ w = "newgame" => NoSave
  /\ w \in {"recovering", "recovered", "tool", "tool state"} =>
       lock.kind = "state" /\ lock.state = x.state /\ readable
  /\ w \in {"recovering", "tool"} =>
       save = Empty /\ x.state.at \in Present /\ x.cur = Copies[x.state.at]
  /\ w = "recovered" => save = SaveFile(p, x.state, Copies)
  /\ w = "tool state" => save = [kind |-> "head", by |-> p]
  /\ w \in {"unlinking", "tool rest"} => lock = NoFile
  /\ w = "tool rest" => OpenSave(p) /\ save.state = x.state

GameFiles(p, w, x) ==
  /\ w \in {"arrived", "saving level", "check", "create"} =>
       lock.kind \in {"pid", "state"} /\ lock.pid = p
  /\ w = "write" => lock = Empty
  /\ w \in {"levels", "play", "leaving", "between", "saving"} \cup Filling =>
       lock.kind = "state" /\ lock.pid = p
  /\ lock.kind = "state" => lock.state.game = x.game
  /\ w \in {"arrived", "saving level", "levels", "play", "leaving", "between"} \cup Writing => NoSave
  /\ w = "saving" => save = Empty /\ readable
  /\ w \in Filling => OpenSave(p) /\ save.state.game = x.game

\* Sound games: the levels that were made are there, and whose they are
ToolMade(w, x) ==
  /\ w = "tool state" => x.state.made \ {x.state.at} \subseteq Present
  /\ w = "tool rest" => x.state.made \subseteq DOMAIN save.levels \cup Present

GameMade(p, w, x) ==
  /\ w \in {"arrived", "saving level", "play", "leaving", "saving"}
       \/ (w \in Writing /\ x.then = "play") => \A l \in x.made \ {x.at} : Mine(p, l)
  /\ w \in {"saving level", "leaving"} => levels[x.at] = Empty
  /\ w \in Writing /\ x.then = "play" => levels[x.at].kind = "level"
  /\ w = "between" => \A l \in x.made : Mine(p, l)
  /\ w \in Writing /\ x.then = "levels" => x.made \subseteq DOMAIN x.left
  /\ w = "levels" => /\ \A l \in x.made : l \in DOMAIN x.left \/ Mine(p, l)
                     /\ lock.state.made \subseteq x.made
  /\ w \in {"saved state", "emptying"} =>
       \A l \in DOMAIN x.left : Mine(p, l)
  /\ w \in Filling => save.state.made \subseteq DOMAIN save.levels \cup DOMAIN x.left
  /\ w = "unlocking" => DOMAIN x.left = {}

\* Undisturbed games: what is where
ToolWhole(w, x) ==
  LET g == x.game
      k == kept[g]
  IN /\ w \in {"tool state", "tool rest"} => x.state = StateOf(g, k)
     /\ w = "tool state" =>
          /\ x.cur = CopyOf(g, k, k.at)
          /\ \E q \in Procs : \A l \in Levels :
               levels[l] = IF l = k.at THEN NoFile ELSE FileOf(q, g, k, l)
     /\ w = "tool rest" =>
          /\ DOMAIN save.levels \subseteq k.made
          /\ \A l \in DOMAIN save.levels : save.levels[l] = CopyOf(g, k, l)
          /\ \E q \in Procs : \A l \in Levels :
               levels[l] = IF l \in DOMAIN save.levels THEN NoFile ELSE FileOf(q, g, k, l)

GameWhole(p, w, x) ==
  LET g == x.game
      n == now[g]
  IN /\ x.at = n.at /\ x.inv = n.inv /\ x.from = g
     /\ w # "between" => x.here = n.floor[n.at]
     /\ w \in {"saving level", "levels", "play", "leaving", "between", "saving", "saved state"}
               \cup Writing => x.made = n.made
     /\ w = "arrived" => x.made \cup {x.at} = n.made
     /\ w \in {"arrived", "saving level", "play", "leaving", "saving", "saved state"}
          => \A l \in Levels \ {x.at} : levels[l] = FileOf(p, g, n, l)
     /\ w = "between" \/ (w \in Writing /\ x.then = "play")
          => \A l \in Levels : levels[l] = FileOf(p, g, n, l)
     /\ w \in Writing /\ x.then = "levels" =>
          /\ kept[g] = n
          /\ x.left = [l \in n.made |-> CopyOf(g, n, l)]
          /\ \A l \in Levels : levels[l] = NoFile
     /\ w = "levels" =>
          /\ kept[g] = n /\ lock.state = StateOf(g, n)
          /\ DOMAIN x.left \subseteq n.made
          /\ \A l \in DOMAIN x.left : x.left[l] = CopyOf(g, n, l)
          /\ \A l \in Levels : levels[l] = IF l \in DOMAIN x.left THEN NoFile ELSE FileOf(p, g, n, l)
     /\ w \in Filling =>
          /\ save.state = StateOf(g, n)
          /\ DOMAIN save.levels = n.made \ DOMAIN x.left
          /\ \A l \in DOMAIN save.levels : save.levels[l] = CopyOf(g, n, l)
     /\ w \in {"saved state", "emptying"} =>
          /\ DOMAIN x.left \subseteq n.made
          /\ \A l \in DOMAIN x.left : levels[l] = FileOf(p, g, n, l)

AtTool == {"tool state", "tool rest"}

Place(p, w, x) ==
  /\ StartFiles(p, w, x)
  /\ w \in AtTool => (Sound(x.game) => ToolMade(w, x)) /\ (Undisturbed(x.game) => ToolWhole(w, x))
  /\ w \in AtGame => /\ GameFiles(p, w, x)
                     /\ Sound(x.game) => GameMade(p, w, x)
                     /\ Undisturbed(x.game) => GameWhole(p, w, x)

Safe ==
  /\ \A p, q \in Procs : Inside(p) /\ Inside(q) => p = q
  /\ save = NoFile => readable
  /\ accused = {} /\ OneGame
  /\ \A g \in Games : Undisturbed(g) => Coherent(now[g]) /\ Coherent(kept[g])
  /\ \A g \in Games : Resumable(g) /\ LevelsThere(g)
  /\ \A p \in Procs : Inside(p) => Place(p, pc[p], mem[p])

JInv == ~rivalry => Safe

-----------------------------------------------------------------------------
(* One step of the process that is inside *)

Pieces == {"arrived", "saving level", "check", "create", "write", "levels",
           "leaving", "between", "emptying", "unlocking", "tool state", "tool rest"}
Outside == {"unborn", "asked", "dead"}

Alone(p) == \A q \in Procs \ {p} : ~Inside(q)

LEMMA AloneInside ==
  ASSUME Safe, NEW p \in Procs, Inside(p) PROVE Alone(p) /\ Place(p, pc[p], mem[p])
BY DEF Safe, Alone

LEMMA InHandNow ==
  ASSUME NEW p \in Procs, Alone(p), NEW g
  PROVE  InHand(g) <=> pc[p] \in Pieces /\ mem[p].game = g
<1>1. ASSUME NEW q \in Procs, InPieces(q) PROVE q = p
  <2>1. Inside(q)
    BY <1>1 DEF InPieces, Inside
  <2> QED BY <2>1 DEF Alone
<1>2. InPieces(p) <=> pc[p] \in Pieces
  BY DEF InPieces, Pieces
<1> QED BY <1>1, <1>2 DEF InHand

LEMMA InHandNext ==
  ASSUME NEW p \in Procs, Alone(p), NEW w, NEW x, Moves(p, w, x), NEW g
  PROVE  InHand(g)' <=> w \in Pieces /\ x.game = g
<1>1. \A q \in Procs : InPieces(q)' => q = p
  BY DEF Alone, InPieces, Inside, Moves
<1>2. InPieces(p)' <=> w \in Pieces
  BY DEF InPieces, Pieces, Moves
<1>3. mem'[p] = x
  BY DEF Moves
<1> QED BY <1>1, <1>2, <1>3 DEF InHand

\* What a step of p has to show
LEMMA Stepped ==
  ASSUME IInv, NEW p \in Procs, Alone(p), NEW w, NEW x, Moves(p, w, x),
         save' = NoFile => readable', accused' = {}, OneGame',
         \A g \in Games : Undisturbed(g)' => Coherent(now'[g]) /\ Coherent(kept'[g]),
         \A g \in Games : Resumable(g)' /\ LevelsThere(g)',
         w \notin Outside => Place(p, w, x)'
  PROVE  Safe'
<1>1. \A q \in Procs : Inside(q)' => q = p
  BY DEF Alone, Inside, Moves
<1>2. Inside(p)' => w \notin Outside
  BY DEF Inside, Outside, Moves
<1>3. Inside(p)' => Place(p, pc[p], mem[p])'
  BY <1>2 DEF Moves
<1>4. \A q \in Procs : Inside(q)' => Place(q, pc[q], mem[q])'
  BY <1>1, <1>3
<1>5. \A q, r \in Procs : Inside(q)' /\ Inside(r)' => q = r
  BY <1>1
<1> QED BY <1>4, <1>5 DEF Safe

\* While a game is played or being written, no other game is waiting.
LEMMA NoOther ==
  ASSUME Safe, NEW p \in Procs, pc[p] \in AtGame,
         NEW h \in Games, h # mem[p].game, Undisturbed(h), kept[h] # Nowhere
  PROVE  FALSE
<1>1. Inside(p)
  BY DEF Inside, AtGame
<1>2. Alone(p) /\ GameFiles(p, pc[p], mem[p])
  BY <1>1, AloneInside DEF Place
<1>3. ~InHand(h)
  BY <1>2, InHandNow
<1>4. (\E q \in Procs : Whole(h, q)) \/ (lock.kind # "state" /\ Saved(h))
  BY <1>3 DEF Safe, Resumable, Findable
<1>5. ~\E q \in Procs : Whole(h, q)
  <2> SUFFICES ASSUME NEW q \in Procs, Whole(h, q) PROVE FALSE
    OBVIOUS
  <2>1. lock.kind = "state" /\ lock.state = StateOf(h, kept[h])
    BY DEF Whole
  <2>2. lock.state.game = h
    BY <2>1 DEF StateOf
  <2> QED BY <1>2, <2>1, <2>2 DEF GameFiles
<1>6. save.kind = "save" /\ readable /\ save.state.game = h
  BY <1>4, <1>5 DEF Saved, StateOf
<1>7. save # NoFile /\ save # Empty
  BY <1>6, Kinds
<1>8. pc[p] \in {"arrived", "saving level", "levels", "play", "leaving", "between"} \cup Writing
        \/ pc[p] = "saving" \/ pc[p] \in Filling
  BY DEF AtGame, Writing, Filling
<1> QED BY <1>2, <1>6, <1>7, <1>8 DEF GameFiles, NoSave

\* A step from one point of a game to the next
LEMMA PlaysSafely ==
  ASSUME IInv, Safe, ~rivalry, NEW p \in Procs, pc[p] \in AtGame,
         NEW w \in AtGame, NEW x, Moves(p, w, x), x.game = mem[p].game,
         \A h \in Games \ {x.game} : kept'[h] = kept[h] /\ now'[h] = now[h],
         UNCHANGED <<over, torn, littered, rivalry, accused>>,
         save' = NoFile => readable',
         Undisturbed(x.game) => Coherent(now'[x.game]) /\ Coherent(kept'[x.game]),
         w \notin Pieces => Resumable(x.game)' /\ LevelsThere(x.game)',
         GameFiles(p, w, x)',
         Sound(x.game) => GameMade(p, w, x)',
         Undisturbed(x.game) => GameWhole(p, w, x)'
  PROVE  Safe'
<1>1. Alone(p)
  BY AloneInside DEF Inside, AtGame
<1>2. \A g \in Games : (Undisturbed(g)' <=> Undisturbed(g)) /\ (Sound(g)' <=> Sound(g))
  BY DEF Undisturbed, Sound
<1>3. ASSUME NEW h \in Games, h # x.game PROVE Resumable(h)' /\ LevelsThere(h)'
  <2>1. Resumable(h)'
    BY <1>2, <1>3, NoOther DEF Resumable, Findable
  <2>2. lock'.kind = "state" => lock'.state.game # h
    BY <1>3 DEF GameFiles
  <2>3. ~(lock'.kind # "state" /\ save'.kind = "save" /\ readable' /\ save'.state.game = h)
    <3>1. w \in {"arrived", "saving level", "levels", "play", "leaving", "between"} \cup Writing
            \/ w = "saving" \/ w \in Filling
      BY DEF AtGame, Writing, Filling
    <3> QED BY <3>1, <1>3, Kinds DEF GameFiles, NoSave
  <2> QED BY <2>1, <2>2, <2>3 DEF LevelsThere
<1>4. ASSUME x.game \in Games PROVE Resumable(x.game)' /\ LevelsThere(x.game)'
  <2>1. CASE w \in Pieces
    BY <2>1, <1>1, InHandNext DEF Resumable, Findable, LevelsThere
  <2>2. CASE w \notin Pieces
    BY <2>2
  <2> QED BY <2>1, <2>2
<1>5. \A g \in Games : Undisturbed(g)' => Coherent(now'[g]) /\ Coherent(kept'[g])
  BY <1>2 DEF Safe
<1>6. Place(p, w, x)'
  <2>1. w \notin {"locked", "newgame", "recovering", "recovered", "tool", "tool state",
                  "unlinking", "tool rest"}
    BY DEF AtGame
  <2>2. StartFiles(p, w, x)'
    BY <2>1 DEF StartFiles
  <2>3. w \notin AtTool
    BY <2>1 DEF AtTool
  <2>4. mem[p].game \in Games
    BY AtGameHas
  <2>5. Sound(x.game)' => GameMade(p, w, x)'
    BY <1>2, <2>4
  <2>6. Undisturbed(x.game)' => GameWhole(p, w, x)'
    BY <1>2, <2>4
  <2> QED BY <2>2, <2>3, <2>5, <2>6 DEF Place
<1>7. accused' = {}
  BY DEF Safe
<1>8. \A g \in Games : Resumable(g)' /\ LevelsThere(g)'
  BY <1>3, <1>4
<1>9. OneGame'
  <2>1. w \in {"arrived", "saving level", "levels", "play", "leaving", "between"} \cup Writing
          \/ w = "saving" \/ w \in Filling
    BY DEF AtGame, Writing, Filling
  <2>2. NoSave' \/ save' = Empty \/ save'.state.game = x.game
    BY <2>1 DEF GameFiles
  <2>3. lock'.kind = "state" => lock'.state.game = x.game
    BY DEF GameFiles
  <2> QED BY <2>2, <2>3, Kinds DEF OneGame, NoSave
<1> QED BY <1>1, <1>5, <1>6, <1>7, <1>8, <1>9, Stepped

-----------------------------------------------------------------------------
(* Facts about files and memories *)

LEMMA AtGameSafe ==
  ASSUME IInv, Safe, NEW p \in Procs, pc[p] \in AtGame
  PROVE  LET m == mem[p]
         IN /\ Alone(p) /\ m \in GameMemory /\ m.game \in Games
            /\ now[m.game] \in Snapshots /\ now[m.game] # Nowhere
            /\ m.at \in Levels /\ m.made \in SUBSET Levels
            /\ GameFiles(p, pc[p], m)
            /\ Sound(m.game) => GameMade(p, pc[p], m)
            /\ Undisturbed(m.game) =>
                 /\ GameWhole(p, pc[p], m)
                 /\ Coherent(now[m.game]) /\ Coherent(kept[m.game])
<1>1. Inside(p)
  BY DEF Inside, AtGame
<1>2. /\ mem[p] \in GameMemory /\ mem[p].game \in Games /\ now[mem[p].game] \in Snapshots
      /\ mem[p].at \in Levels /\ mem[p].made \in SUBSET Levels
  BY AtGameHas
<1>3. now[mem[p].game] # Nowhere
  BY <1>2, SnapshotsKnown
<1>4. Alone(p) /\ Place(p, pc[p], mem[p])
  BY <1>1, AloneInside
<1>5. Undisturbed(mem[p].game) => Coherent(now[mem[p].game]) /\ Coherent(kept[mem[p].game])
  BY <1>2 DEF Safe
<1> QED BY <1>2, <1>3, <1>4, <1>5 DEF Place

\* Nothing but levels and the memory changes.
LEMMA FilesStay ==
  ASSUME NEW p, NEW v, NEW y, GameFiles(p, v, y), NEW w, NEW x, x.game = y.game,
         UNCHANGED <<lock, save, readable>>,
         \/ v \in {"arrived", "saving level", "check", "create"}
              /\ w \in {"arrived", "saving level", "check", "create"}
         \/ v \in {"levels", "play", "leaving", "between"}
              /\ w \in {"levels", "play", "leaving", "between", "arrived"}
  PROVE  GameFiles(p, w, x)'
<1>1. NoSave' <=> NoSave
  BY DEF NoSave
<1> QED BY <1>1 DEF GameFiles, Writing, Filling

LEMMA LevelFileParts ==
  ASSUME NEW p, NEW g, NEW t
  PROVE  LET f == LevelFile(p, g, t)
         IN f.kind = "level" /\ f.pid = p /\ f.game = g /\ f.things = t /\ f # NoFile /\ f # Empty
BY DEF LevelFile, NoFile, Empty

LEMMA SnapshotParts ==
  ASSUME NEW g, NEW s
  PROVE  /\ StateOf(g, s).game = g /\ StateOf(g, s).at = s.at
         /\ StateOf(g, s).inv = s.inv /\ StateOf(g, s).made = s.made
BY DEF StateOf

LEMMA FileOfParts ==
  ASSUME NEW p, NEW g, NEW s, NEW l
  PROVE  /\ l \in s.made => FileOf(p, g, s, l) = LevelFile(p, g, s.floor[l])
         /\ l \notin s.made => FileOf(p, g, s, l) = NoFile
BY DEF FileOf

\* The memory of a game, field by field
LEMMA MadeSet ==
  ASSUME NEW m \in GameMemory, NEW v, NEW y, y = [m EXCEPT !.made = v]
  PROVE  /\ y.made = v /\ y.game = m.game /\ y.at = m.at /\ y.inv = m.inv /\ y.here = m.here
         /\ y.from = m.from /\ y.to = m.to /\ y.left = m.left /\ y.then = m.then
BY DEF GameMemory

LEMMA ThenSet ==
  ASSUME NEW m \in GameMemory, NEW v, NEW y, y = [m EXCEPT !.then = v]
  PROVE  /\ y.then = v /\ y.game = m.game /\ y.at = m.at /\ y.inv = m.inv /\ y.here = m.here
         /\ y.from = m.from /\ y.to = m.to /\ y.left = m.left /\ y.made = m.made
BY DEF GameMemory

LEMMA HereSet ==
  ASSUME NEW m \in GameMemory, NEW v, NEW y, y = [m EXCEPT !.here = v]
  PROVE  /\ y.here = v /\ y.game = m.game /\ y.at = m.at /\ y.inv = m.inv /\ y.made = m.made
         /\ y.from = m.from /\ y.to = m.to /\ y.left = m.left /\ y.then = m.then
BY DEF GameMemory

LEMMA LeftSet ==
  ASSUME NEW m \in GameMemory, NEW v, NEW y, y = [m EXCEPT !.left = v]
  PROVE  /\ y.left = v /\ y.game = m.game /\ y.at = m.at /\ y.inv = m.inv /\ y.made = m.made
         /\ y.from = m.from /\ y.to = m.to /\ y.here = m.here /\ y.then = m.then
BY DEF GameMemory

-----------------------------------------------------------------------------
(* The checkpoint *)

LEMMA SafeSaveCurrentLevel ==
  ASSUME IInv, Safe, ~rivalry, NEW p \in Procs, save_currentlevel(p) PROVE Safe'
<1> DEFINE m == mem[p]
           g == m.game
<1>1. pc[p] \in {"arrived", "saving level"} /\ pc[p] \in AtGame
  BY DEF save_currentlevel, AtGame
<1>2. /\ m \in GameMemory /\ g \in Games /\ m.at \in Levels /\ m.made \in SUBSET Levels
      /\ now[g] # Nowhere /\ GameFiles(p, pc[p], m)
      /\ Sound(g) => GameMade(p, pc[p], m)
      /\ Undisturbed(g) =>
           GameWhole(p, pc[p], m) /\ Coherent(now[g]) /\ Coherent(kept[g])
  BY <1>1, AtGameSafe
<1>3. UNCHANGED <<lock, save, readable, history>>
  BY DEF save_currentlevel, create_levelfile
<1>4. levels \in [Levels -> LevelFileSet]
  BY DEF IInv, InvType, DiskType
<1>5. CASE pc[p] = "arrived"
  <2>1. /\ levels' = [levels EXCEPT ![m.at] = Empty]
        /\ mem' = [mem EXCEPT ![p].made = @ \cup {m.at}] /\ Goto(p, "saving level")
    BY <1>5 DEF save_currentlevel, create_levelfile
  <2>2. PICK x : x = [m EXCEPT !.made = m.made \cup {m.at}]
    OBVIOUS
  <2>3. mem' = [mem EXCEPT ![p] = x]
    BY <2>1, <2>2 DEF IInv, InvType, PlacesType
  <2>4. Moves(p, "saving level", x) /\ "saving level" \in AtGame /\ "saving level" \in Pieces
    BY <2>1, <2>3, MovesBy DEF Points, AtGame, Pieces
  <2>5. /\ x.made = m.made \cup {m.at} /\ x.game = m.game /\ x.at = m.at /\ x.inv = m.inv
        /\ x.here = m.here /\ x.from = m.from
    BY <1>2, <2>2, MadeSet
  <2>6. levels'[m.at] = Empty /\ \A l \in Levels \ {m.at} : levels'[l] = levels[l]
    BY <1>2, <1>4, <2>1
  <2>7. GameFiles(p, "saving level", x)'
    BY <1>2, <1>3, <1>5, <2>5, FilesStay
  <2>8. Sound(g) => GameMade(p, "saving level", x)'
    BY <1>2, <1>5, <2>5, <2>6 DEF GameMade, Mine, Writing, Filling
  <2>9. Undisturbed(g) => GameWhole(p, "saving level", x)'
    BY <1>2, <1>3, <1>5, <2>5, <2>6 DEF GameWhole, Writing, Filling, history, FileOf
  <2> QED BY <1>1, <1>2, <1>3, <2>4, <2>5, <2>7, <2>8, <2>9, PlaysSafely DEF history, Safe
<1>6. CASE pc[p] = "saving level"
  <2>1. savelev(p) /\ Goto(p, "check") /\ mem' = mem
    BY <1>6 DEF save_currentlevel
  <2>2. PICK x : x = m
    OBVIOUS
  <2>3. Moves(p, "check", x) /\ "check" \in AtGame /\ "check" \in Pieces
    BY <2>1, <2>2, MovesOn DEF Points, AtGame, Pieces
  <2>4. /\ levels'[m.at] = IF levels[m.at] = Empty THEN LevelFile(p, m.from, m.here) ELSE levels[m.at]
        /\ \A l \in Levels \ {m.at} : levels'[l] = levels[l]
    BY <1>2, <1>4, <2>1 DEF savelev
  <2>5. GameFiles(p, "check", x)'
    BY <1>2, <1>3, <1>6, <2>2, FilesStay
  <2>6. x.then = "play"
    BY <1>1, <1>6, <2>2, AtGameHas DEF GameOK
  <2>7. Sound(g) => levels'[m.at] = LevelFile(p, m.from, m.here)
    BY <1>2, <1>6, <2>4 DEF GameMade
  <2>8. Sound(g) => GameMade(p, "check", x)'
    <3> SUFFICES ASSUME Sound(g) PROVE GameMade(p, "check", x)'
      OBVIOUS
    <3>1. levels'[x.at].kind = "level"
      BY <2>2, <2>7, LevelFileParts
    <3>2. \A l \in x.made \ {x.at} : Mine(p, l)'
      BY <1>2, <1>6, <2>2, <2>4 DEF GameMade, Mine
    <3> QED BY <2>6, <3>1, <3>2 DEF GameMade, Writing, Filling
  <2>9. Undisturbed(g) => GameWhole(p, "check", x)'
    <3> SUFFICES ASSUME Undisturbed(g) PROVE GameWhole(p, "check", x)'
      OBVIOUS
    <3>1. levels'[m.at] = LevelFile(p, m.from, m.here)
      BY <2>7 DEF Undisturbed, Sound
    <3>2. m.at \in now[g].made
      BY <1>2, <1>6 DEF GameWhole, Coherent
    <3>3. now' = now /\ x.here = now[g].floor[m.at] /\ x.from = g /\ x.at = now[g].at /\ m.at = x.at
          /\ x.made = now[g].made /\ x.inv = now[g].inv
      BY <1>2, <1>3, <1>6, <2>2 DEF GameWhole, history
    <3>4. levels'[m.at] = FileOf(p, g, now[g], m.at)
      BY <2>2, <3>1, <3>2, <3>3 DEF FileOf
    <3>5. \A l \in Levels \ {m.at} : levels'[l] = FileOf(p, g, now[g], l)
      BY <1>2, <1>6, <2>2, <2>4 DEF GameWhole
    <3>6. \A l \in Levels : levels'[l] = FileOf(p, g, now[g], l)
      BY <3>4, <3>5
    <3>7. \A l \in Levels : FileOf(p, g, now'[g], l) = FileOf(p, g, now[g], l)
      BY <3>3
    <3> QED BY <2>2, <2>6, <3>3, <3>6, <3>7 DEF GameWhole, Writing, Filling
  <2> QED BY <1>1, <1>2, <1>3, <2>2, <2>3, <2>5, <2>8, <2>9, PlaysSafely DEF history, Safe
<1> QED BY <1>1, <1>5, <1>6

\* Between two checks of a checkpoint the levels stay as they are.
LEMMA LevelsStay ==
  ASSUME NEW p, NEW v \in Writing, NEW w \in Writing, NEW x,
         UNCHANGED <<levels, now, kept>>
  PROVE  /\ GameMade(p, v, x) => GameMade(p, w, x)'
         /\ GameWhole(p, v, x) => GameWhole(p, w, x)'
<1>1. \A l \in x.made : Mine(p, l) => Mine(p, l)'
  BY DEF Mine
<1>2. GameMade(p, v, x) => GameMade(p, w, x)'
  BY <1>1 DEF GameMade, Writing, Filling, Mine
<1>3. \A l : FileOf(p, x.game, now'[x.game], l) = FileOf(p, x.game, now[x.game], l)
  OBVIOUS
<1>4. GameWhole(p, v, x) => GameWhole(p, w, x)'
  BY <1>3 DEF GameWhole, Writing, Filling
<1> QED BY <1>2, <1>4

LEMMA SafeSavestateCheck ==
  ASSUME IInv, Safe, ~rivalry, NEW p \in Procs, savestateinlock_check(p) PROVE Safe'
<1> DEFINE m == mem[p]
           g == m.game
<1>1. pc[p] = "check" /\ pc[p] \in AtGame /\ UNCHANGED <<save, readable>>
  BY DEF savestateinlock_check, AtGame
<1>2. /\ GameFiles(p, pc[p], m)
      /\ Sound(g) => GameMade(p, pc[p], m)
      /\ Undisturbed(g) =>
           GameWhole(p, pc[p], m) /\ Coherent(now[g]) /\ Coherent(kept[g])
  BY <1>1, AtGameSafe
<1>3. Goto(p, "create") /\ UNCHANGED <<lock, levels, mem, history>>
  BY <1>1, <1>2 DEF GameFiles, savestateinlock_check
<1>4. PICK x : x = m
  OBVIOUS
<1>5. /\ Moves(p, "create", x) /\ "create" \in AtGame /\ "create" \in Pieces
      /\ "create" \in Writing /\ pc[p] \in Writing
  BY <1>1, <1>3, <1>4, MovesOn DEF Points, AtGame, Pieces, Writing
<1>6. GameFiles(p, "create", x)'
  BY <1>1, <1>2, <1>3, <1>4, FilesStay
<1>7. (Sound(g) => GameMade(p, "create", x)') /\ (Undisturbed(g) => GameWhole(p, "create", x)')
  BY <1>2, <1>3, <1>4, <1>5, LevelsStay DEF history
<1> QED BY <1>1, <1>2, <1>3, <1>4, <1>5, <1>6, <1>7, PlaysSafely DEF history, Safe

LEMMA SafeSavestateCreate ==
  ASSUME IInv, Safe, ~rivalry, NEW p \in Procs, savestateinlock_create(p) PROVE Safe'
<1> DEFINE m == mem[p]
           g == m.game
<1>1. /\ pc[p] = "create" /\ pc[p] \in AtGame /\ lock' = Empty /\ Goto(p, "write")
      /\ UNCHANGED <<levels, save, readable, mem, history>>
  BY DEF savestateinlock_create, AtGame
<1>2. /\ GameFiles(p, pc[p], m)
      /\ Sound(g) => GameMade(p, pc[p], m)
      /\ Undisturbed(g) =>
           GameWhole(p, pc[p], m) /\ Coherent(now[g]) /\ Coherent(kept[g])
  BY <1>1, AtGameSafe
<1>3. PICK x : x = m
  OBVIOUS
<1>4. /\ Moves(p, "write", x) /\ "write" \in AtGame /\ "write" \in Pieces
      /\ "write" \in Writing /\ pc[p] \in Writing
  BY <1>1, <1>3, MovesOn DEF Points, AtGame, Pieces, Writing
<1>5. GameFiles(p, "write", x)'
  <2>1. NoSave'
    BY <1>1, <1>2 DEF GameFiles, NoSave, Writing
  <2> QED BY <1>1, <2>1, Kinds DEF GameFiles, Writing, Filling
<1>6. (Sound(g) => GameMade(p, "write", x)') /\ (Undisturbed(g) => GameWhole(p, "write", x)')
  BY <1>1, <1>2, <1>3, <1>4, LevelsStay DEF history
<1> QED BY <1>1, <1>2, <1>3, <1>4, <1>5, <1>6, PlaysSafely DEF history, Safe

LEMMA StateParts ==
  ASSUME NEW m
  PROVE  /\ State(m).game = m.game /\ State(m).at = m.at /\ State(m).inv = m.inv
         /\ State(m).made = m.made
         /\ \A s : m.at = s.at /\ m.inv = s.inv /\ m.made = s.made => State(m) = StateOf(m.game, s)
BY DEF State, StateOf

LEMMA SafeSavestateWrite ==
  ASSUME IInv, Safe, ~rivalry, NEW p \in Procs, savestateinlock_write(p) PROVE Safe'
<1> DEFINE m == mem[p]
           g == m.game
           st == [kind |-> "state", pid |-> p, state |-> State(m)]
<1>1. /\ pc[p] = "write" /\ pc[p] \in AtGame /\ pc[p] \in Writing
      /\ lock' = IF lock = Empty THEN st ELSE lock
      /\ kept' = IF m.then = "play" THEN [kept EXCEPT ![g] = now[g]] ELSE kept
      /\ Goto(p, m.then) /\ mem' = [mem EXCEPT ![p].then = "play"]
      /\ UNCHANGED <<levels, save, readable, now, over, torn, littered, rivalry, mixed, accused>>
  BY DEF savestateinlock_write, AtGame, Writing
<1>2. /\ Alone(p) /\ m \in GameMemory /\ g \in Games /\ now[g] # Nowhere /\ m.at \in Levels
      /\ m.made \in SUBSET Levels /\ GameFiles(p, pc[p], m)
      /\ Sound(g) => GameMade(p, pc[p], m)
      /\ Undisturbed(g) =>
           GameWhole(p, pc[p], m) /\ Coherent(now[g]) /\ Coherent(kept[g])
  BY <1>1, AtGameSafe
<1>3. m.then \in {"play", "levels"} /\ kept \in [Games -> {Nowhere} \cup Snapshots]
  BY <1>2 DEF GameMemory, IInv, InvType, HistoryType
<1>4. lock' = st
  BY <1>1, <1>2 DEF GameFiles
<1>5. st.kind = "state" /\ st.pid = p /\ st.state = State(m)
  OBVIOUS
<1> HIDE DEF st
<1>6. PICK x : x = [m EXCEPT !.then = "play"]
  OBVIOUS
<1>7. /\ x.then = "play" /\ x.game = m.game /\ x.at = m.at /\ x.inv = m.inv /\ x.here = m.here
      /\ x.from = m.from /\ x.left = m.left /\ x.made = m.made
  BY <1>2, <1>6, ThenSet
<1>8. PICK w : w = m.then
  OBVIOUS
<1>9. w \in AtGame /\ w \in Points /\ (w = "play" \/ w = "levels")
  BY <1>3, <1>8 DEF AtGame, Points
<1>10. mem' = [mem EXCEPT ![p] = x]
  BY <1>1, <1>6 DEF IInv, InvType, PlacesType
<1>11. Moves(p, w, x)
  BY <1>1, <1>8, <1>9, <1>10, MovesBy
<1>12. NoSave'
  BY <1>1, <1>2 DEF GameFiles, NoSave
<1>13. GameFiles(p, w, x)'
  BY <1>4, <1>5, <1>7, <1>9, <1>12, StateParts DEF GameFiles, Writing, Filling
<1>14. CASE w = "play"
  <2>1. kept' = [kept EXCEPT ![g] = now[g]] /\ kept'[g] = now[g]
    BY <1>1, <1>2, <1>3, <1>8, <1>14
  <2>2. Sound(g) => \A l \in m.made \ {m.at} : Mine(p, l)
    BY <1>1, <1>2, <1>8, <1>14 DEF GameMade
  <2>3. Sound(g) => levels[m.at].kind = "level"
    BY <1>1, <1>2, <1>8, <1>14 DEF GameMade
  <2>4. Sound(g) => GameMade(p, "play", x)'
    BY <1>1, <1>7, <2>2 DEF GameMade, Mine, Writing, Filling
  <2>5. Undisturbed(g) =>
          /\ m.at = now[g].at /\ m.inv = now[g].inv /\ m.made = now[g].made
          /\ m.from = g /\ m.here = now[g].floor[m.at]
          /\ \A l \in Levels : levels[l] = FileOf(p, g, now[g], l)
    BY <1>1, <1>2, <1>8, <1>14 DEF GameWhole
  <2>6. Undisturbed(g) => GameWhole(p, "play", x)'
    <3>1. \A l : FileOf(p, g, now'[g], l) = FileOf(p, g, now[g], l)
      BY <1>1
    <3> QED BY <1>1, <1>7, <2>5, <3>1 DEF GameWhole, Writing, Filling
  <2>7. Resumable(x.game)'
    <3> SUFFICES ASSUME Undisturbed(g) PROVE Whole(x.game, p)'
      BY <1>1, <1>7 DEF Undisturbed, Resumable, Findable
    <3>1. State(m) = StateOf(g, now[g])
      BY <2>5 DEF State, StateOf
    <3>2. kept'[g] = now[g]
      BY <2>1
    <3>3. lock' = [kind |-> "state", pid |-> p, state |-> StateOf(g, kept'[g])]
      BY <1>4, <3>1, <3>2 DEF st
    <3>4. \A l \in Levels : levels'[l] = FileOf(p, g, kept'[g], l)
      BY <1>1, <2>1, <2>5
    <3> QED BY <1>7, <3>3, <3>4 DEF Whole
  <2>8. LevelsThere(x.game)'
    <3> SUFFICES ASSUME Sound(g) PROVE lock'.state.made \subseteq Present'
      BY <1>1, <1>4, <1>5, <1>7 DEF Sound, LevelsThere
    <3>1. lock'.state.made = m.made
      BY <1>4, <1>5, StateParts
    <3>2. \A l \in m.made : levels[l].kind = "level"
      BY <2>2, <2>3 DEF Mine
    <3>3. \A l \in m.made : levels[l] # NoFile
      BY <3>2, Kinds
    <3> QED BY <1>1, <1>2, <3>1, <3>3 DEF Present
  <2>9. Undisturbed(g) => Coherent(now'[g]) /\ Coherent(kept'[g])
    BY <1>1, <1>2, <2>1
  <2>10. \A h \in Games \ {g} : kept'[h] = kept[h]
    BY <1>3, <2>1
  <2> QED BY <1>1, <1>2, <1>7, <1>9, <1>11, <1>13, <1>14, <2>4, <2>6, <2>7, <2>8, <2>9, <2>10,
             PlaysSafely DEF Safe
<1>15. CASE w = "levels"
  <2>1. kept' = kept /\ m.then = "levels" /\ w \in Pieces
    BY <1>1, <1>8, <1>15 DEF Pieces
  <2>2. Sound(g) => GameMade(p, "levels", x)'
    <3> SUFFICES ASSUME Sound(g) PROVE GameMade(p, "levels", x)'
      OBVIOUS
    <3>1. m.made \subseteq DOMAIN m.left
      BY <1>1, <1>2, <2>1 DEF GameMade
    <3>2. lock'.state.made = m.made
      BY <1>4, <1>5, StateParts
    <3> QED BY <1>7, <3>1, <3>2 DEF GameMade, Writing, Filling
  <2>3. Undisturbed(g) => GameWhole(p, "levels", x)'
    <3> SUFFICES ASSUME Undisturbed(g) PROVE GameWhole(p, "levels", x)'
      OBVIOUS
    <3>1. /\ m.at = now[g].at /\ m.inv = now[g].inv /\ m.made = now[g].made
          /\ m.from = g /\ m.here = now[g].floor[m.at]
          /\ kept[g] = now[g] /\ m.left = [l \in now[g].made |-> CopyOf(g, now[g], l)]
          /\ \A l \in Levels : levels[l] = NoFile
      BY <1>1, <1>2, <2>1 DEF GameWhole
    <3>2. lock'.state = StateOf(g, now[g])
      BY <1>4, <1>5, <3>1, StateParts
    <3>3. DOMAIN m.left = now[g].made /\ \A l \in DOMAIN m.left : m.left[l] = CopyOf(g, now[g], l)
      BY <3>1
    <3>4. \A l \in Levels : levels[l] = IF l \in DOMAIN m.left THEN NoFile ELSE FileOf(p, g, now[g], l)
      BY <3>1, <3>3 DEF FileOf
    <3>5. \A l : /\ FileOf(p, g, now'[g], l) = FileOf(p, g, now[g], l)
                 /\ CopyOf(g, now'[g], l) = CopyOf(g, now[g], l)
      BY <1>1
    <3>6. StateOf(g, now'[g]) = StateOf(g, now[g])
      BY <1>1
    <3> QED BY <1>1, <1>7, <2>1, <3>1, <3>2, <3>3, <3>4, <3>5, <3>6 DEF GameWhole, Writing, Filling
  <2> QED BY <1>1, <1>2, <1>7, <1>9, <1>11, <1>13, <1>15, <2>1, <2>2, <2>3, PlaysSafely DEF Safe
<1> QED BY <1>9, <1>14, <1>15

-----------------------------------------------------------------------------
(* Files and memory are brought back *)

LEMMA LockIs ==
  ASSUME NEW f \in Locks, f.kind = "state"
  PROVE  f = [kind |-> "state", pid |-> f.pid, state |-> f.state]
BY DEF Locks, NoFile, Empty

\* The files of a game that is not in pieces can be relied on as before.
LEMMA ReliesOn ==
  ASSUME Safe, NEW p \in Procs, Alone(p), pc[p] \notin Pieces, NEW g \in Games,
         UNCHANGED <<lock, levels, over, torn, littered, rivalry>>, kept'[g] = kept[g],
         UNCHANGED <<save, readable>> \/ lock.kind = "state"
  PROVE  Resumable(g)' /\ LevelsThere(g)'
<1>1. ~InHand(g)
  BY InHandNow
<1>2. Resumable(g) /\ LevelsThere(g)
  BY DEF Safe
<1>3. Resumable(g)'
  <2> SUFFICES ASSUME Undisturbed(g), kept[g] # Nowhere
               PROVE  ((\E q \in Procs : Whole(g, q)) \/ (lock.kind # "state" /\ Saved(g)))'
    BY DEF Resumable, Findable, Undisturbed
  <2>1. (\E q \in Procs : Whole(g, q)) \/ (lock.kind # "state" /\ Saved(g))
    BY <1>1, <1>2 DEF Resumable, Findable
  <2>2. ASSUME NEW q \in Procs, Whole(g, q) PROVE Whole(g, q)'
    BY <2>2 DEF Whole
  <2>3. ASSUME lock.kind # "state", Saved(g) PROVE Saved(g)'
    BY <2>3 DEF Saved
  <2> QED BY <2>1, <2>2, <2>3
<1>4. LevelsThere(g)'
  BY <1>1, <1>2 DEF LevelsThere, Sound, Present
<1> QED BY <1>3, <1>4

LEMMA SafeRestLevelFile ==
  ASSUME IInv, Safe, ~rivalry, NEW p \in Procs, NEW l \in Levels, restlevelfile(p, l)
  PROVE  Safe'
<1> DEFINE m == mem[p]
           g == m.game
           rest == [k \in DOMAIN m.left \ {l} |-> m.left[k]]
           f == LevelFile(p, m.left[l].game, m.left[l].things)
<1>1. /\ pc[p] = "levels" /\ pc[p] \in AtGame /\ l \in DOMAIN m.left
      /\ levels' = [levels EXCEPT ![l] = f]
      /\ mem' = [mem EXCEPT ![p].left = rest, ![p].made = @ \cup {l}]
      /\ UNCHANGED <<lock, save, readable, pc, history>>
  BY DEF restlevelfile, AtGame
<1>2. /\ m \in GameMemory /\ GameFiles(p, pc[p], m)
      /\ Sound(g) => GameMade(p, pc[p], m)
      /\ Undisturbed(g) =>
           GameWhole(p, pc[p], m) /\ Coherent(now[g]) /\ Coherent(kept[g])
  BY <1>1, AtGameSafe
<1>3. DOMAIN rest = DOMAIN m.left \ {l} /\ \A k \in DOMAIN rest : rest[k] = m.left[k]
  OBVIOUS
<1>4. levels'[l] = f /\ \A k \in Levels \ {l} : levels'[k] = levels[k]
  BY <1>1 DEF IInv, InvType, DiskType
<1>5. f.kind = "level" /\ f.pid = p
  BY LevelFileParts
<1> HIDE DEF rest, f
<1>6. PICK y : y = [m EXCEPT !.left = rest]
  OBVIOUS
<1>7. PICK x : x = [y EXCEPT !.made = m.made \cup {l}]
  OBVIOUS
<1>8. y \in [game : Games, at : Levels, inv : SUBSET Things, made : SUBSET Levels,
             here : SUBSET Things, from : Games, to : Levels, left : {rest},
             then : {"play", "levels"}]
  BY <1>2, <1>6 DEF GameMemory
<1>9. mem' = [mem EXCEPT ![p] = x]
  BY <1>1, <1>6, <1>7, <1>2 DEF IInv, InvType, PlacesType, GameMemory
<1>10. /\ x.left = rest /\ x.made = m.made \cup {l} /\ x.game = m.game /\ x.at = m.at
       /\ x.inv = m.inv /\ x.here = m.here /\ x.from = m.from
  <2>1. /\ y.left = rest /\ y.made = m.made /\ y.game = m.game /\ y.at = m.at
        /\ y.inv = m.inv /\ y.here = m.here /\ y.from = m.from
    BY <1>2, <1>6, LeftSet
  <2>2. /\ x.left = y.left /\ x.made = m.made \cup {l} /\ x.game = y.game /\ x.at = y.at
        /\ x.inv = y.inv /\ x.here = y.here /\ x.from = y.from
    BY <1>7, <1>8
  <2> QED BY <2>1, <2>2
<1>11. Moves(p, "levels", x) /\ "levels" \in AtGame /\ "levels" \in Pieces
  BY <1>1, <1>9, MovesNot DEF AtGame, Pieces
<1>12. GameFiles(p, "levels", x)'
  BY <1>1, <1>2, <1>10, FilesStay
<1>13. Sound(g) => GameMade(p, "levels", x)'
  <2> SUFFICES ASSUME Sound(g) PROVE GameMade(p, "levels", x)'
    OBVIOUS
  <2>1. \A k \in x.made : k \in DOMAIN rest \/ Mine(p, k)'
    BY <1>1, <1>2, <1>3, <1>4, <1>5, <1>10 DEF GameMade, Mine, GameMemory
  <2>2. lock'.state.made \subseteq x.made
    BY <1>1, <1>2, <1>10 DEF GameMade
  <2> QED BY <1>10, <2>1, <2>2 DEF GameMade, Writing, Filling
<1>14. Undisturbed(g) => GameWhole(p, "levels", x)'
  <2> SUFFICES ASSUME Undisturbed(g) PROVE GameWhole(p, "levels", x)'
    OBVIOUS
  <2>1. now' = now /\ kept' = kept /\ lock' = lock
    BY <1>1 DEF history
  <2> DEFINE n == now[g]
  <2>2. /\ m.at = n.at /\ m.inv = n.inv /\ m.from = g /\ m.here = n.floor[n.at] /\ m.made = n.made
        /\ kept[g] = n /\ lock.state = StateOf(g, n) /\ DOMAIN m.left \subseteq n.made
        /\ \A k \in DOMAIN m.left : m.left[k] = CopyOf(g, n, k)
        /\ \A k \in Levels : levels[k] = IF k \in DOMAIN m.left THEN NoFile ELSE FileOf(p, g, n, k)
    BY <1>1, <1>2 DEF GameWhole
  <2>3. m.left[l] = CopyOf(g, n, l) /\ l \in n.made
    BY <1>1, <2>2
  <2>4. f = FileOf(p, g, n, l)
    BY <2>3 DEF f, FileOf, CopyOf
  <2>5. \A k \in Levels : levels'[k] = IF k \in DOMAIN rest THEN NoFile ELSE FileOf(p, g, n, k)
    BY <1>3, <1>4, <2>2, <2>4
  <2>6. \A k : /\ FileOf(p, g, now'[g], k) = FileOf(p, g, n, k)
               /\ CopyOf(g, now'[g], k) = CopyOf(g, n, k)
    BY <2>1
  <2>7. StateOf(g, now'[g]) = StateOf(g, n) /\ x.made = n.made
    BY <2>1, <2>2, <2>3, <1>10
  <2> HIDE DEF n
  <2>8. now'[g] = n /\ kept'[g] = n
    BY <2>1, <2>2 DEF n
  <2> QED BY <1>3, <1>10, <2>1, <2>2, <2>5, <2>6, <2>7, <2>8 DEF GameWhole, Writing, Filling
<1> QED BY <1>1, <1>2, <1>10, <1>11, <1>12, <1>13, <1>14, PlaysSafely DEF history, Safe

LEMMA SafeDeleteSavefile ==
  ASSUME IInv, Safe, ~rivalry, NEW p \in Procs, delete_savefile(p) PROVE Safe'
<1> DEFINE m == mem[p]
           g == m.game
<1>1. /\ pc[p] = "levels" /\ pc[p] \in AtGame /\ DOMAIN m.left = {}
      /\ save' = NoFile /\ readable' = TRUE /\ Goto(p, "play")
      /\ UNCHANGED <<lock, levels, mem, history>>
  BY DEF delete_savefile, AtGame
<1>2. /\ m.made \in SUBSET Levels /\ GameFiles(p, pc[p], m)
      /\ Sound(g) => GameMade(p, pc[p], m)
      /\ Undisturbed(g) =>
           GameWhole(p, pc[p], m) /\ Coherent(now[g]) /\ Coherent(kept[g])
  BY <1>1, AtGameSafe
<1>3. PICK x : x = m
  OBVIOUS
<1>4. Moves(p, "play", x) /\ "play" \in AtGame
  BY <1>1, <1>3, MovesOn DEF Points, AtGame
<1>5. GameFiles(p, "play", x)'
  BY <1>1, <1>2, <1>3 DEF GameFiles, NoSave, Writing, Filling
<1>6. Sound(g) => (\A l \in m.made : Mine(p, l)) /\ lock.state.made \subseteq m.made
  BY <1>1, <1>2 DEF GameMade
<1>7. Sound(g) => GameMade(p, "play", x)'
  BY <1>1, <1>3, <1>6 DEF GameMade, Mine, Writing, Filling
<1>8. Undisturbed(g) =>
        /\ m.at = now[g].at /\ m.inv = now[g].inv /\ m.from = g /\ m.here = now[g].floor[now[g].at]
        /\ m.made = now[g].made /\ kept[g] = now[g] /\ lock.state = StateOf(g, now[g])
        /\ \A l \in Levels : levels[l] = FileOf(p, g, now[g], l)
  BY <1>1, <1>2 DEF GameWhole
<1>9. Undisturbed(g) => GameWhole(p, "play", x)'
  <2>1. now' = now /\ \A l : FileOf(p, g, now'[g], l) = FileOf(p, g, now[g], l)
    BY <1>1 DEF history
  <2> QED BY <1>1, <1>3, <1>8, <2>1 DEF GameWhole, Writing, Filling
<1>10. Resumable(x.game)'
  <2> SUFFICES ASSUME Undisturbed(g) PROVE Whole(x.game, p)'
    BY <1>1, <1>3 DEF Undisturbed, Resumable, Findable, history
  <2>1. lock.kind = "state" /\ lock.pid = p
    BY <1>1, <1>2 DEF GameFiles
  <2>2. lock = [kind |-> "state", pid |-> p, state |-> StateOf(g, kept[g])]
    BY <2>1, <1>8, LockIs DEF IInv, InvType, DiskType
  <2> QED BY <1>1, <1>3, <1>8, <2>2 DEF Whole, history
<1>11. LevelsThere(x.game)'
  <2> SUFFICES ASSUME Sound(g) PROVE lock'.state.made \subseteq Present'
    BY <1>1, <1>2, <1>3, Kinds DEF Sound, LevelsThere, history
  <2>1. \A l \in m.made : levels[l] # NoFile
    BY <1>6, Kinds DEF Mine
  <2> QED BY <1>1, <1>2, <1>6, <2>1 DEF Present
<1> QED BY <1>1, <1>2, <1>3, <1>4, <1>5, <1>7, <1>9, <1>10, <1>11, PlaysSafely DEF history, Safe

-----------------------------------------------------------------------------
(* Play *)

LEMMA SafePlay ==
  ASSUME IInv, Safe, ~rivalry, NEW p \in Procs, NEW t \in Things, play(p, t) PROVE Safe'
<1> DEFINE m == mem[p]
           g == m.game
           n == now[g]
<1>1. /\ pc[p] = "play" /\ pc[p] \in AtGame
      /\ UNCHANGED <<disk, pc, kept, over, torn, littered, rivalry, mixed, accused>>
  BY DEF play, AtGame
<1>2. /\ Alone(p) /\ m \in GameMemory /\ g \in Games /\ n \in Snapshots /\ m.at \in Levels
      /\ GameFiles(p, pc[p], m)
      /\ Sound(g) => GameMade(p, pc[p], m)
      /\ Undisturbed(g) => GameWhole(p, pc[p], m) /\ Coherent(n) /\ Coherent(kept[g])
  BY <1>1, AtGameSafe
<1>3. \E inv, here, ninv, nhere :
        /\ mem' = [mem EXCEPT ![p].inv = inv, ![p].here = here]
        /\ now' = [now EXCEPT ![g].inv = ninv, ![g].floor[m.at] = nhere]
        /\ m.inv = n.inv /\ m.here = n.floor[m.at] => inv = ninv /\ here = nhere
  <2>1. CASE /\ mem' = [mem EXCEPT ![p].inv = @ \ {t}, ![p].here = @ \cup {t}]
             /\ now' = [now EXCEPT ![g].inv = @ \ {t}, ![g].floor[m.at] = @ \cup {t}]
    <3>1. /\ mem' = [mem EXCEPT ![p].inv = m.inv \ {t}, ![p].here = m.here \cup {t}]
          /\ now' = [now EXCEPT ![g].inv = n.inv \ {t}, ![g].floor[m.at] = n.floor[m.at] \cup {t}]
      BY <1>2, <2>1 DEF IInv, InvType, PlacesType, HistoryType, GameMemory, Snapshots
    <3> QED BY <3>1
  <2>2. CASE /\ mem' = [mem EXCEPT ![p].here = @ \ {t}, ![p].inv = @ \cup {t}]
             /\ now' = [now EXCEPT ![g].inv = @ \cup {t}, ![g].floor[m.at] = @ \ {t}]
    <3>1. mem' = [mem EXCEPT ![p].inv = m.inv \cup {t}, ![p].here = m.here \ {t}]
      BY <1>2, <2>2 DEF IInv, InvType, PlacesType, GameMemory
    <3>2. now' = [now EXCEPT ![g].inv = n.inv \cup {t}, ![g].floor[m.at] = n.floor[m.at] \ {t}]
      BY <1>2, <2>2 DEF IInv, InvType, HistoryType, Snapshots
    <3> QED BY <3>1, <3>2
  <2> QED BY <2>1, <2>2 DEF play
<1>4. PICK inv, here, ninv, nhere :
        /\ mem' = [mem EXCEPT ![p].inv = inv, ![p].here = here]
        /\ now' = [now EXCEPT ![g].inv = ninv, ![g].floor[m.at] = nhere]
        /\ m.inv = n.inv /\ m.here = n.floor[m.at] => inv = ninv /\ here = nhere
  BY <1>3
<1>5. PICK x : x = [m EXCEPT !.inv = inv, !.here = here]
  OBVIOUS
<1>6. mem' = [mem EXCEPT ![p] = x]
  BY <1>4, <1>5 DEF IInv, InvType, PlacesType
<1>7. /\ x.game = m.game /\ x.at = m.at /\ x.made = m.made /\ x.from = m.from
      /\ x.inv = inv /\ x.here = here
  BY <1>2, <1>5 DEF GameMemory
<1>8. Moves(p, "play", x) /\ "play" \in AtGame /\ pc[p] \notin Pieces
  BY <1>1, <1>6, MovesNot DEF AtGame, Pieces
<1>9. /\ now'[g].at = n.at /\ now'[g].inv = ninv /\ now'[g].made = n.made
      /\ now'[g].floor[m.at] = nhere
      /\ \A l \in Levels \ {m.at} : now'[g].floor[l] = n.floor[l]
      /\ \A h \in Games \ {g} : now'[h] = now[h]
  BY <1>2, <1>4 DEF Snapshots, IInv, InvType, HistoryType
<1>10. GameFiles(p, "play", x)'
  BY <1>1, <1>2, <1>7, FilesStay DEF disk
<1>11. Sound(g) => GameMade(p, "play", x)'
  BY <1>1, <1>2, <1>7 DEF GameMade, Mine, Writing, Filling, disk
<1>12. Undisturbed(g) =>
         /\ m.at = n.at /\ m.inv = n.inv /\ m.from = g /\ m.here = n.floor[n.at] /\ m.made = n.made
         /\ \A l \in Levels \ {m.at} : levels[l] = FileOf(p, g, n, l)
  BY <1>1, <1>2 DEF GameWhole
<1>13. Undisturbed(g) => GameWhole(p, "play", x)'
  <2> SUFFICES ASSUME Undisturbed(g) PROVE GameWhole(p, "play", x)'
    OBVIOUS
  <2>1. \A l \in Levels \ {m.at} : FileOf(p, g, now'[g], l) = FileOf(p, g, n, l)
    BY <1>9 DEF FileOf
  <2> QED BY <1>1, <1>4, <1>7, <1>9, <1>12, <2>1 DEF GameWhole, Writing, Filling, disk
<1>14. Undisturbed(g) => Coherent(now'[g]) /\ Coherent(kept'[g])
  <2> SUFFICES ASSUME Undisturbed(g) PROVE Coherent(now'[g]) /\ Coherent(kept'[g])
    OBVIOUS
  <2>1. n # Nowhere
    BY <1>2, SnapshotsKnown
  <2>2. n.at \in n.made /\ \A l \in Levels \ n.made : n.floor[l] = {}
    BY <1>2, <2>1 DEF Coherent
  <2>3. Coherent(now'[g])
    BY <1>9, <1>12, <2>2 DEF Coherent
  <2> QED BY <1>1, <1>2, <2>3
<1>15. Resumable(x.game)' /\ LevelsThere(x.game)'
  BY <1>1, <1>2, <1>7, <1>8, ReliesOn DEF disk
<1> QED BY <1>1, <1>7, <1>8, <1>9, <1>10, <1>11, <1>13, <1>14, <1>15, PlaysSafely DEF Safe, disk

LEMMA SafeGotoLevel ==
  ASSUME IInv, Safe, ~rivalry, NEW p \in Procs, NEW l \in Levels, goto_level(p, l) PROVE Safe'
<1> DEFINE m == mem[p]
           g == m.game
<1>1. /\ pc[p] = "play" /\ pc[p] \in AtGame
      /\ levels' = [levels EXCEPT ![m.at] = Empty]
      /\ mem' = [mem EXCEPT ![p].made = @ \cup {m.at}, ![p].to = l]
      /\ Goto(p, "leaving") /\ UNCHANGED <<lock, save, readable, history>>
  BY DEF goto_level, AtGame
<1>2. /\ m \in GameMemory /\ m.at \in Levels /\ m.made \in SUBSET Levels /\ now[g] # Nowhere
      /\ GameFiles(p, pc[p], m)
      /\ Sound(g) => GameMade(p, pc[p], m)
      /\ Undisturbed(g) => GameWhole(p, pc[p], m) /\ Coherent(now[g]) /\ Coherent(kept[g])
  BY <1>1, AtGameSafe
<1>3. PICK x : x = [m EXCEPT !.made = m.made \cup {m.at}, !.to = l]
  OBVIOUS
<1>4. mem' = [mem EXCEPT ![p] = x]
  BY <1>1, <1>3 DEF IInv, InvType, PlacesType
<1>5. /\ x.game = m.game /\ x.at = m.at /\ x.inv = m.inv /\ x.here = m.here /\ x.from = m.from
      /\ x.made = m.made \cup {m.at}
  BY <1>2, <1>3 DEF GameMemory
<1>6. Moves(p, "leaving", x) /\ "leaving" \in AtGame /\ "leaving" \in Pieces
  BY <1>1, <1>4, MovesBy DEF Points, AtGame, Pieces
<1>7. levels'[m.at] = Empty /\ \A k \in Levels \ {m.at} : levels'[k] = levels[k]
  BY <1>1, <1>2 DEF IInv, InvType, DiskType
<1>8. GameFiles(p, "leaving", x)'
  BY <1>1, <1>2, <1>5, FilesStay
<1>9. Sound(g) => GameMade(p, "leaving", x)'
  BY <1>1, <1>2, <1>5, <1>7 DEF GameMade, Mine, Writing, Filling
<1>10. Undisturbed(g) => GameWhole(p, "leaving", x)'
  <2> SUFFICES ASSUME Undisturbed(g) PROVE GameWhole(p, "leaving", x)'
    OBVIOUS
  <2>1. /\ m.at = now[g].at /\ m.inv = now[g].inv /\ m.from = g /\ m.here = now[g].floor[now[g].at]
        /\ m.made = now[g].made /\ m.at \in now[g].made
        /\ \A k \in Levels \ {m.at} : levels[k] = FileOf(p, g, now[g], k)
    BY <1>1, <1>2 DEF GameWhole, Coherent
  <2>2. now' = now /\ \A k : FileOf(p, g, now'[g], k) = FileOf(p, g, now[g], k)
    BY <1>1 DEF history
  <2> QED BY <1>5, <1>7, <2>1, <2>2 DEF GameWhole, Writing, Filling
<1> QED BY <1>1, <1>2, <1>5, <1>6, <1>8, <1>9, <1>10, PlaysSafely DEF Safe, history

LEMMA SafeGotoLevelSave ==
  ASSUME IInv, Safe, ~rivalry, NEW p \in Procs, goto_level_save(p) PROVE Safe'
<1> DEFINE m == mem[p]
           g == m.game
<1>1. /\ pc[p] = "leaving" /\ pc[p] \in AtGame /\ savelev(p)
      /\ mem' = [mem EXCEPT ![p].here = {}]
      /\ Goto(p, "between") /\ UNCHANGED <<lock, save, readable, history>>
  BY DEF goto_level_save, AtGame
<1>2. /\ m \in GameMemory /\ m.at \in Levels /\ m.made \in SUBSET Levels /\ now[g] # Nowhere
      /\ GameFiles(p, pc[p], m)
      /\ Sound(g) => GameMade(p, pc[p], m)
      /\ Undisturbed(g) => GameWhole(p, pc[p], m) /\ Coherent(now[g]) /\ Coherent(kept[g])
  BY <1>1, AtGameSafe
<1>3. PICK x : x = [m EXCEPT !.here = {}]
  OBVIOUS
<1>4. mem' = [mem EXCEPT ![p] = x]
  BY <1>1, <1>3 DEF IInv, InvType, PlacesType
<1>5. /\ x.game = m.game /\ x.at = m.at /\ x.inv = m.inv /\ x.from = m.from /\ x.made = m.made
  BY <1>2, <1>3, HereSet
<1>6. Moves(p, "between", x) /\ "between" \in AtGame /\ "between" \in Pieces
  BY <1>1, <1>4, MovesBy DEF Points, AtGame, Pieces
<1>7. /\ Sound(g) => levels'[m.at] = LevelFile(p, m.from, m.here)
      /\ \A k \in Levels \ {m.at} : levels'[k] = levels[k]
  BY <1>1, <1>2 DEF savelev, GameMade, IInv, InvType, DiskType
<1>8. GameFiles(p, "between", x)'
  BY <1>1, <1>2, <1>5, FilesStay
<1>9. Sound(g) => GameMade(p, "between", x)'
  <2> SUFFICES ASSUME Sound(g) PROVE GameMade(p, "between", x)'
    OBVIOUS
  <2>1. Mine(p, x.at)'
    BY <1>5, <1>7, LevelFileParts DEF Mine
  <2>2. \A k \in x.made \ {x.at} : Mine(p, k)'
    BY <1>1, <1>2, <1>5, <1>7 DEF GameMade, Mine
  <2> QED BY <1>5, <2>1, <2>2 DEF GameMade, Writing, Filling
<1>10. Undisturbed(g) => GameWhole(p, "between", x)'
  <2> SUFFICES ASSUME Undisturbed(g) PROVE GameWhole(p, "between", x)'
    OBVIOUS
  <2>1. /\ m.at = now[g].at /\ m.inv = now[g].inv /\ m.from = g /\ m.here = now[g].floor[now[g].at]
        /\ m.made = now[g].made /\ m.at \in now[g].made
        /\ \A k \in Levels \ {m.at} : levels[k] = FileOf(p, g, now[g], k)
    BY <1>1, <1>2 DEF GameWhole, Coherent
  <2>2. now' = now /\ \A k : FileOf(p, g, now'[g], k) = FileOf(p, g, now[g], k)
    BY <1>1 DEF history
  <2>3. levels'[m.at] = FileOf(p, g, now[g], m.at)
    BY <1>7, <2>1 DEF Undisturbed, Sound, FileOf
  <2>4. \A k \in Levels : levels'[k] = FileOf(p, g, now[g], k)
    BY <1>7, <2>1, <2>3
  <2> QED BY <1>5, <2>1, <2>2, <2>4 DEF GameWhole, Writing, Filling
<1> QED BY <1>1, <1>2, <1>5, <1>6, <1>8, <1>9, <1>10, PlaysSafely DEF Safe, history

\* The end of a game, however it comes
LEMMA GameOver ==
  ASSUME IInv, Safe, ~rivalry, NEW p \in Procs, pc[p] \in AtGame, clearlocks(p),
         UNCHANGED <<now, kept, torn, littered, rivalry>>, accused' = {},
         UNCHANGED <<save, readable>> \/ (save' = NoFile /\ readable' = TRUE)
  PROVE  Safe'
<1> DEFINE g == mem[p].game
<1>1. Alone(p) /\ g \in Games /\ GameFiles(p, pc[p], mem[p])
  BY AtGameSafe
<1>2. PICK k : k = g
  OBVIOUS
<1>3. lock' = NoFile /\ over' = over \cup {k} /\ Moves(p, "dead", NoGame)
  BY <1>2, MovesOut DEF clearlocks
<1>4. \A h \in Games : /\ Undisturbed(h)' => Undisturbed(h) /\ h # k
                       /\ Sound(h)' => Sound(h) /\ h # k
  BY <1>3 DEF Undisturbed, Sound
<1>5. \A h \in Games : Resumable(h)'
  BY <1>2, <1>4, NoOther DEF Resumable, Findable
<1>6. ASSUME NEW h \in Games PROVE LevelsThere(h)'
  <2>1. pc[p] \in {"arrived", "saving level", "levels", "play", "leaving", "between"} \cup Writing
          \/ pc[p] = "saving" \/ pc[p] \in Filling
    BY DEF AtGame, Writing, Filling
  <2>2. NoSave \/ save = Empty \/ save.state.game = k
    BY <1>1, <1>2, <2>1 DEF GameFiles
  <2> QED BY <1>3, <1>4, <2>2, Kinds DEF LevelsThere, NoSave
<1>7. \A h \in Games : Undisturbed(h)' => Coherent(now'[h]) /\ Coherent(kept'[h])
  BY <1>4 DEF Safe
<1>8. OneGame' /\ (save' = NoFile => readable')
  BY <1>3, Kinds DEF OneGame, Safe
<1> QED BY <1>1, <1>3, <1>5, <1>6, <1>7, <1>8, Stepped DEF Outside

LEMMA SafeReallyDone ==
  ASSUME IInv, Safe, ~rivalry, NEW p \in Procs, really_done(p) PROVE Safe'
<1>1. /\ pc[p] \in AtGame /\ clearlocks(p)
      /\ UNCHANGED <<save, readable, now, kept, torn, littered, rivalry, mixed, accused>>
  BY DEF really_done, AtGame
<1> QED BY <1>1, GameOver DEF Safe

\* Only a game that ended or was in pieces is accused.
LEMMA SafeTricked ==
  ASSUME IInv, Safe, ~rivalry, NEW p \in Procs, pc[p] \in AtGame, tricked(p),
         ~Sound(mem[p].game),
         UNCHANGED <<save, readable>> \/ (save' = NoFile /\ readable' = TRUE)
  PROVE  Safe'
<1>1. accused' = {}
  BY DEF tricked, Sound, Safe
<1> QED BY <1>1, GameOver DEF tricked

LEMMA SafeGotoLevelArrive ==
  ASSUME IInv, Safe, ~rivalry, NEW p \in Procs, goto_level_arrive(p) PROVE Safe'
<1> DEFINE m == mem[p]
           g == m.game
           n == now[g]
           l == m.to
           made == l \in m.made
           here == IF made THEN levels[l].things ELSE {}
           from == IF made THEN levels[l].game ELSE g
<1>1. pc[p] = "between" /\ pc[p] \in AtGame /\ UNCHANGED <<save, readable>>
  BY DEF goto_level_arrive, AtGame
<1>2. /\ Alone(p) /\ m \in GameMemory /\ g \in Games /\ n \in Snapshots /\ n # Nowhere
      /\ m.made \in SUBSET Levels /\ GameFiles(p, pc[p], m)
      /\ Sound(g) => GameMade(p, pc[p], m)
      /\ Undisturbed(g) => GameWhole(p, pc[p], m) /\ Coherent(n) /\ Coherent(kept[g])
  BY <1>1, AtGameSafe
<1>3. l \in Levels
  BY <1>2 DEF GameMemory
<1>4. CASE made /\ (levels[l].kind # "level" \/ levels[l].pid # p)
  <2>1. tricked(p)
    BY <1>4 DEF goto_level_arrive
  <2>2. ~Sound(g)
    BY <1>1, <1>2, <1>4 DEF GameMade, Mine
  <2> QED BY <1>1, <2>1, <2>2, SafeTricked
<1>5. CASE ~(made /\ (levels[l].kind # "level" \/ levels[l].pid # p))
  <2>1. /\ mem' = [mem EXCEPT ![p].at = l, ![p].here = here, ![p].from = from]
        /\ now' = [now EXCEPT ![g].at = l, ![g].made = @ \cup {l}]
        /\ Goto(p, "arrived")
        /\ UNCHANGED <<lock, levels, kept, over, torn, littered, rivalry, mixed, accused>>
    BY <1>5 DEF goto_level_arrive
  <2>2. PICK x : x = [m EXCEPT !.at = l, !.here = here, !.from = from]
    OBVIOUS
  <2>3. mem' = [mem EXCEPT ![p] = x]
    <3> HIDE DEF here, from
    <3> QED BY <2>1, <2>2 DEF IInv, InvType, PlacesType
  <2>4. /\ x.game = g /\ x.inv = m.inv /\ x.made = m.made /\ x.at = l /\ x.here = here
        /\ x.from = from
    <3> HIDE DEF here, from, l
    <3> QED BY <1>2, <2>2 DEF GameMemory
  <2>5. Moves(p, "arrived", x) /\ "arrived" \in AtGame /\ "arrived" \in Pieces
    BY <2>1, <2>3, MovesBy DEF Points, AtGame, Pieces
  <2>6. /\ now'[g].at = l /\ now'[g].inv = n.inv /\ now'[g].made = n.made \cup {l}
        /\ now'[g].floor = n.floor
        /\ \A h \in Games \ {g} : now'[h] = now[h]
    BY <1>2, <2>1 DEF Snapshots, IInv, InvType, HistoryType
  <2>7. GameFiles(p, "arrived", x)'
    BY <1>1, <1>2, <2>1, <2>4, FilesStay
  <2>8. Sound(g) => GameMade(p, "arrived", x)'
    BY <1>1, <1>2, <2>1, <2>4 DEF GameMade, Mine, Writing, Filling
  <2>9. Undisturbed(g) =>
          /\ m.at = n.at /\ m.inv = n.inv /\ m.made = n.made
          /\ n.at \in n.made /\ \A k \in Levels \ n.made : n.floor[k] = {}
          /\ \A k \in Levels : levels[k] = FileOf(p, g, n, k)
    BY <1>1, <1>2 DEF GameWhole, Coherent
  <2>10. Undisturbed(g) => GameWhole(p, "arrived", x)'
    <3> SUFFICES ASSUME Undisturbed(g) PROVE GameWhole(p, "arrived", x)'
      OBVIOUS
    <3>1. here = n.floor[l] /\ from = g
      <4>1. CASE made
        <5>1. levels[l] = LevelFile(p, g, n.floor[l])
          BY <1>3, <2>9, <4>1 DEF FileOf
        <5> QED BY <4>1, <5>1, LevelFileParts
      <4>2. CASE ~made
        BY <1>3, <2>9, <4>2
      <4> QED BY <4>1, <4>2
    <3>2. \A k \in Levels \ {l} : FileOf(p, g, now'[g], k) = FileOf(p, g, n, k)
      BY <2>6 DEF FileOf
    <3> HIDE DEF here, from, l
    <3> QED BY <2>1, <2>4, <2>6, <2>9, <3>1, <3>2 DEF GameWhole, Writing, Filling
  <2>11. Undisturbed(g) => Coherent(now'[g]) /\ Coherent(kept'[g])
    BY <1>2, <2>1, <2>6, <2>9 DEF Coherent
  <2> QED BY <1>1, <2>1, <2>4, <2>5, <2>6, <2>7, <2>8, <2>10, <2>11, PlaysSafely DEF Safe
<1> QED BY <1>4, <1>5

-----------------------------------------------------------------------------
(* dosave0() *)

LEMMA SafeDosave ==
  ASSUME IInv, Safe, ~rivalry, NEW p \in Procs, dosave0(p) PROVE Safe'
<1> DEFINE m == mem[p]
           g == m.game
<1>1. /\ pc[p] = "play" /\ pc[p] \in AtGame /\ pc[p] \notin Pieces
      /\ UNCHANGED <<lock, levels, mem, history>>
  BY DEF dosave0, AtGame, Pieces
<1>2. /\ Alone(p) /\ g \in Games /\ GameFiles(p, pc[p], m)
      /\ Sound(g) => GameMade(p, pc[p], m)
      /\ Undisturbed(g) => GameWhole(p, pc[p], m) /\ Coherent(now[g]) /\ Coherent(kept[g])
  BY <1>1, AtGameSafe
<1>3. PICK x : x = m
  OBVIOUS
<1>4. lock.kind = "state" /\ lock.pid = p /\ lock.state.game = g /\ NoSave
  BY <1>1, <1>2 DEF GameFiles
<1>5. Resumable(x.game)' /\ LevelsThere(x.game)'
  BY <1>1, <1>2, <1>3, <1>4, ReliesOn DEF history
<1>6. ASSUME NEW w \in {"play", "saving"}
      PROVE  /\ Sound(g) => GameMade(p, w, x)'
             /\ Undisturbed(g) => GameWhole(p, w, x)'
  <2>1. Sound(g) => \A l \in x.made \ {x.at} : Mine(p, l)
    BY <1>1, <1>2, <1>3 DEF GameMade
  <2>2. Sound(g) => GameMade(p, w, x)'
    BY <1>1, <2>1 DEF GameMade, Mine, Writing, Filling
  <2>3. Undisturbed(g) =>
          /\ x.at = now[g].at /\ x.inv = now[g].inv /\ x.from = g /\ x.here = now[g].floor[now[g].at]
          /\ x.made = now[g].made
          /\ \A l \in Levels \ {x.at} : levels[l] = FileOf(p, g, now[g], l)
    BY <1>1, <1>2, <1>3 DEF GameWhole
  <2>4. now' = now /\ \A l : FileOf(p, g, now'[g], l) = FileOf(p, g, now[g], l)
    BY <1>1 DEF history
  <2>5. Undisturbed(g) => GameWhole(p, w, x)'
    BY <1>1, <1>3, <2>3, <2>4 DEF GameWhole, Writing, Filling
  <2> QED BY <2>2, <2>5
<1>7. CASE save # NoFile /\ ~readable
  <2>1. save' = NoFile /\ readable' = TRUE /\ pc' = pc
    BY <1>7 DEF dosave0
  <2>2. Moves(p, "play", x) /\ "play" \in AtGame
    BY <1>1, <1>3, <2>1 DEF Moves, IInv, InvType, PlacesType, AtGame
  <2>3. GameFiles(p, "play", x)'
    BY <1>1, <1>3, <1>4, <2>1 DEF GameFiles, NoSave, Writing, Filling
  <2> QED BY <1>1, <1>2, <1>3, <1>5, <1>6, <2>1, <2>2, <2>3, PlaysSafely DEF Safe, history
<1>8. CASE ~(save # NoFile /\ ~readable)
  <2>1. save' = Empty /\ readable' = readable /\ Goto(p, "saving") /\ readable
    BY <1>4, <1>8 DEF dosave0, NoSave, Safe
  <2>2. Moves(p, "saving", x) /\ "saving" \in AtGame
    BY <1>1, <1>3, <2>1, MovesOn DEF Points, AtGame
  <2>3. GameFiles(p, "saving", x)'
    BY <1>1, <1>3, <1>4, <2>1 DEF GameFiles, Writing, Filling
  <2>4. save' # NoFile
    BY <2>1, Kinds
  <2> QED BY <1>1, <1>2, <1>3, <1>5, <1>6, <2>1, <2>2, <2>3, <2>4, PlaysSafely DEF Safe, history
<1> QED BY <1>7, <1>8

LEMMA SaveFileParts ==
  ASSUME NEW p, NEW s, NEW c
  PROVE  LET f == SaveFile(p, s, c)
         IN f.kind = "save" /\ f.by = p /\ f.state = s /\ f.levels = c /\ f # NoFile /\ f # Empty
BY DEF SaveFile, NoFile, Empty

LEMMA SafeDosaveState ==
  ASSUME IInv, Safe, ~rivalry, NEW p \in Procs, dosave0_state(p) PROVE Safe'
<1> DEFINE m == mem[p]
           g == m.game
           here == [l \in {m.at} |-> [game |-> m.from, things |-> m.here]]
           left == [l \in m.made \ {m.at} |-> Empty]
<1>1. /\ pc[p] = "saving" /\ pc[p] \in AtGame /\ pc[p] \notin Pieces
      /\ save' = IF save = Empty THEN SaveFile(p, State(m), here) ELSE save
      /\ mem' = [mem EXCEPT ![p].left = left]
      /\ Goto(p, "saved state") /\ UNCHANGED <<lock, levels, readable, history>>
  BY DEF dosave0_state, AtGame, Pieces
<1>2. /\ Alone(p) /\ m \in GameMemory /\ g \in Games /\ now[g] # Nowhere /\ GameFiles(p, pc[p], m)
      /\ Sound(g) => GameMade(p, pc[p], m)
      /\ Undisturbed(g) => GameWhole(p, pc[p], m) /\ Coherent(now[g]) /\ Coherent(kept[g])
  BY <1>1, AtGameSafe
<1>3. /\ save' = SaveFile(p, State(m), here) /\ readable'
      /\ lock.kind = "state" /\ lock.pid = p /\ lock.state.game = g
  BY <1>1, <1>2 DEF GameFiles
<1>4. DOMAIN here = {m.at} /\ here[m.at] = [game |-> m.from, things |-> m.here]
  OBVIOUS
<1>5. DOMAIN left = m.made \ {m.at}
  OBVIOUS
<1> HIDE DEF here, left
<1>6. save'.kind = "save" /\ save'.by = p /\ save'.state = State(m) /\ save'.levels = here
      /\ save' # NoFile
  BY <1>3, SaveFileParts
<1>7. PICK x : x = [m EXCEPT !.left = left]
  OBVIOUS
<1>8. mem' = [mem EXCEPT ![p] = x]
  BY <1>1, <1>7 DEF IInv, InvType, PlacesType
<1>9. /\ x.left = left /\ x.game = m.game /\ x.at = m.at /\ x.inv = m.inv /\ x.made = m.made
      /\ x.here = m.here /\ x.from = m.from
  BY <1>2, <1>7, LeftSet
<1>10. Moves(p, "saved state", x) /\ "saved state" \in AtGame
  BY <1>1, <1>8, MovesBy DEF Points, AtGame
<1>11. GameFiles(p, "saved state", x)'
  BY <1>1, <1>3, <1>6, <1>9, StateParts DEF GameFiles, OpenSave, Writing, Filling
<1>12. Sound(g) => GameMade(p, "saved state", x)'
  <2> SUFFICES ASSUME Sound(g) PROVE GameMade(p, "saved state", x)'
    OBVIOUS
  <2>1. \A l \in DOMAIN x.left : Mine(p, l)'
    BY <1>1, <1>2, <1>5, <1>9 DEF GameMade, Mine
  <2>2. save'.state.made \subseteq DOMAIN save'.levels \cup DOMAIN x.left
    BY <1>4, <1>5, <1>6, <1>9, StateParts
  <2> QED BY <2>1, <2>2 DEF GameMade, Writing, Filling
<1>13. Undisturbed(g) => GameWhole(p, "saved state", x)'
  <2> SUFFICES ASSUME Undisturbed(g) PROVE GameWhole(p, "saved state", x)'
    OBVIOUS
  <2>1. /\ m.at = now[g].at /\ m.inv = now[g].inv /\ m.from = g /\ m.here = now[g].floor[now[g].at]
        /\ m.made = now[g].made /\ m.at \in now[g].made
        /\ \A l \in Levels \ {m.at} : levels[l] = FileOf(p, g, now[g], l)
    BY <1>1, <1>2 DEF GameWhole, Coherent
  <2>2. now' = now /\ \A l : /\ FileOf(p, g, now'[g], l) = FileOf(p, g, now[g], l)
                             /\ CopyOf(g, now'[g], l) = CopyOf(g, now[g], l)
    BY <1>1 DEF history
  <2>3. StateOf(g, now'[g]) = StateOf(g, now[g]) /\ State(m) = StateOf(g, now[g])
    BY <2>1, <2>2 DEF State, StateOf
  <2>4. here[m.at] = CopyOf(g, now[g], m.at)
    BY <1>4, <2>1 DEF CopyOf
  <2>5. DOMAIN here = now[g].made \ DOMAIN left /\ DOMAIN left \subseteq now[g].made
    BY <1>4, <1>5, <2>1
  <2>6. m.made \in SUBSET Levels
    BY <1>2 DEF GameMemory
  <2>7. \A l \in DOMAIN left : levels[l] = FileOf(p, g, now[g], l)
    BY <1>5, <2>1, <2>6
  <2>8. save'.state = StateOf(g, now'[g])
    BY <1>6, <2>3
  <2>9. \A l \in DOMAIN save'.levels : save'.levels[l] = CopyOf(g, now'[g], l)
    BY <1>4, <1>6, <2>2, <2>4
  <2> QED BY <1>1, <1>6, <1>9, <2>1, <2>2, <2>5, <2>7, <2>8, <2>9 DEF GameWhole, Writing, Filling
<1>14. Resumable(x.game)' /\ LevelsThere(x.game)'
  BY <1>1, <1>2, <1>3, <1>9, ReliesOn DEF history
<1> QED BY <1>1, <1>2, <1>6, <1>9, <1>10, <1>11, <1>12, <1>13, <1>14, PlaysSafely DEF Safe, history

\* What a copy of a level is
LEMMA CopyParts ==
  ASSUME NEW l \in Levels
  PROVE  /\ levels[l] # NoFile => l \in DOMAIN Copies
         /\ \A q, g, s : levels[l] = FileOf(q, g, s, l) /\ l \in s.made =>
              l \in DOMAIN Copies /\ Copies[l] = CopyOf(g, s, l)
<1>1. DOMAIN Copies = {k \in Levels : levels[k] # NoFile}
  BY DEF Copies
<1>2. ASSUME NEW q, NEW g, NEW s, levels[l] = FileOf(q, g, s, l), l \in s.made
      PROVE  l \in DOMAIN Copies /\ Copies[l] = CopyOf(g, s, l)
  <2>1. levels[l] = LevelFile(q, g, s.floor[l])
    BY <1>2, FileOfParts
  <2>2. /\ levels[l].game = g /\ levels[l].things = s.floor[l]
        /\ levels[l] # NoFile /\ levels[l] # Empty
    BY <2>1, LevelFileParts
  <2>3. Copies[l] = [game |-> levels[l].game, things |-> levels[l].things]
    BY <1>1, <2>2 DEF Copies
  <2> QED BY <1>1, <2>2, <2>3 DEF CopyOf
<1> QED BY <1>1, <1>2

\* The save file that p writes gets another level.
LEMMA AppendedParts ==
  ASSUME IInv, NEW p \in Procs, NEW l \in Levels, OpenSave(p), save' = Appended(p, l)
  PROVE  /\ save'.kind = "save" /\ save'.by = p /\ save'.state = save.state
         /\ save' # NoFile
         /\ DOMAIN save'.levels = DOMAIN save.levels \cup {l}
         /\ save'.levels[l] = Copies[l]
         /\ \A k \in DOMAIN save.levels \ {l} : save'.levels[k] = save.levels[k]
<1> DEFINE f == [k \in DOMAIN save.levels \cup {l} |-> IF k = l THEN Copies[l] ELSE save.levels[k]]
<1>1. save' = [save EXCEPT !.levels = f]
  BY DEF Appended, OpenSave
<1>2. DOMAIN f = DOMAIN save.levels \cup {l} /\ f[l] = Copies[l]
      /\ \A k \in DOMAIN save.levels \ {l} : f[k] = save.levels[k]
  OBVIOUS
<1> HIDE DEF f
<1>3. save \in [kind : {"save"}, by : Procs, state : States, levels : Partial(Levels, Copy)]
  BY SaveParts DEF OpenSave, IInv, InvType, DiskType
<1>4. save'.kind = "save" /\ save'.by = p /\ save'.state = save.state /\ save'.levels = f
  BY <1>1, <1>3 DEF OpenSave
<1> QED BY <1>2, <1>4, Kinds

LEMMA SafeDosaveLevel ==
  ASSUME IInv, Safe, ~rivalry, NEW p \in Procs, NEW l \in Levels, dosave0_level(p, l) PROVE Safe'
<1> DEFINE m == mem[p]
           g == m.game
           left == [k \in DOMAIN m.left \ {l} |-> Empty]
           made == m.made \ {l}
<1>1. /\ pc[p] \in {"saved state", "emptying"} /\ pc[p] \in AtGame /\ pc[p] \in Filling
      /\ l \in DOMAIN m.left
  BY DEF dosave0_level, AtGame, Filling
<1>2. /\ Alone(p) /\ m \in GameMemory /\ g \in Games /\ now[g] # Nowhere /\ GameFiles(p, pc[p], m)
      /\ Sound(g) => GameMade(p, pc[p], m)
      /\ Undisturbed(g) => GameWhole(p, pc[p], m) /\ Coherent(now[g]) /\ Coherent(kept[g])
  BY <1>1, AtGameSafe
<1>3. /\ OpenSave(p) /\ save.state.game = g
      /\ lock.kind = "state" /\ lock.pid = p /\ lock.state.game = g
  BY <1>1, <1>2 DEF GameFiles, Filling
<1>4. CASE ~(levels[l].kind = "level" /\ levels[l].pid = p)
  <2>1. /\ tricked(p)
        /\ save' = IF levels[l] = NoFile THEN NoFile ELSE save
        /\ readable' = (readable \/ levels[l] = NoFile)
    BY <1>4 DEF dosave0_level
  <2>2. ~Sound(g)
    BY <1>1, <1>2, <1>4 DEF GameMade, Mine
  <2>3. readable \in BOOLEAN
    BY DEF IInv, InvType, DiskType
  <2>4. UNCHANGED <<save, readable>> \/ (save' = NoFile /\ readable' = TRUE)
    BY <2>1, <2>3
  <2> QED BY <1>1, <2>1, <2>2, <2>4, SafeTricked
<1>5. CASE levels[l].kind = "level" /\ levels[l].pid = p
  <2>1. /\ save' = Appended(p, l)
        /\ levels' = [levels EXCEPT ![l] = NoFile]
        /\ mem' = [mem EXCEPT ![p].left = left, ![p].made = made]
        /\ Goto(p, "emptying") /\ UNCHANGED <<lock, readable, history>>
    BY <1>5 DEF dosave0_level
  <2>2. DOMAIN left = DOMAIN m.left \ {l}
    OBVIOUS
  <2> HIDE DEF left, made
  <2>3. PICK x : x = [m EXCEPT !.left = left, !.made = made]
    OBVIOUS
  <2>4. mem' = [mem EXCEPT ![p] = x]
    BY <2>1, <2>3 DEF IInv, InvType, PlacesType
  <2>5. /\ x.left = left /\ x.game = m.game /\ x.at = m.at /\ x.inv = m.inv
        /\ x.here = m.here /\ x.from = m.from
    BY <1>2, <2>3 DEF GameMemory
  <2>6. Moves(p, "emptying", x) /\ "emptying" \in AtGame /\ "emptying" \in Pieces
    BY <2>1, <2>4, MovesBy DEF Points, AtGame, Pieces
  <2>7. /\ save'.kind = "save" /\ save'.by = p /\ save'.state = save.state /\ save' # NoFile
        /\ DOMAIN save'.levels = DOMAIN save.levels \cup {l} /\ save'.levels[l] = Copies[l]
        /\ \A k \in DOMAIN save.levels \ {l} : save'.levels[k] = save.levels[k]
    BY <1>3, <2>1, AppendedParts
  <2>8. GameFiles(p, "emptying", x)'
    BY <1>3, <2>1, <2>5, <2>7 DEF GameFiles, OpenSave, Writing, Filling
  <2>9. \A k \in Levels \ {l} : levels'[k] = levels[k]
    BY <2>1 DEF IInv, InvType, DiskType
  <2>10. DOMAIN m.left \in SUBSET Levels
    BY <1>2, PartialParts DEF GameMemory
  <2>11. Sound(g) => GameMade(p, "emptying", x)'
    <3> SUFFICES ASSUME Sound(g) PROVE GameMade(p, "emptying", x)'
      OBVIOUS
    <3>1. /\ \A k \in DOMAIN m.left : Mine(p, k)
          /\ save.state.made \subseteq DOMAIN save.levels \cup DOMAIN m.left
      BY <1>1, <1>2 DEF GameMade
    <3>2. \A k \in DOMAIN x.left : Mine(p, k)'
      BY <2>2, <2>5, <2>9, <2>10, <3>1 DEF Mine
    <3>3. save'.state.made \subseteq DOMAIN save'.levels \cup DOMAIN x.left
      BY <2>2, <2>5, <2>7, <3>1
    <3> QED BY <3>2, <3>3 DEF GameMade, Writing, Filling
  <2>12. Undisturbed(g) => GameWhole(p, "emptying", x)'
    <3> SUFFICES ASSUME Undisturbed(g) PROVE GameWhole(p, "emptying", x)'
      OBVIOUS
    <3>1. /\ m.at = now[g].at /\ m.inv = now[g].inv /\ m.from = g /\ m.here = now[g].floor[now[g].at]
          /\ save.state = StateOf(g, now[g])
          /\ DOMAIN save.levels = now[g].made \ DOMAIN m.left
          /\ \A k \in DOMAIN save.levels : save.levels[k] = CopyOf(g, now[g], k)
          /\ DOMAIN m.left \subseteq now[g].made
          /\ \A k \in DOMAIN m.left : levels[k] = FileOf(p, g, now[g], k)
      BY <1>1, <1>2 DEF GameWhole
    <3>2. Copies[l] = CopyOf(g, now[g], l)
      <4>1. levels[l] = FileOf(p, g, now[g], l) /\ l \in now[g].made
        BY <1>1, <3>1
      <4> QED BY <4>1, CopyParts
    <3>3. DOMAIN save'.levels = now[g].made \ DOMAIN left /\ DOMAIN left \subseteq now[g].made
      BY <1>1, <2>2, <2>7, <3>1
    <3>4. \A k \in DOMAIN save'.levels : save'.levels[k] = CopyOf(g, now[g], k)
      BY <2>7, <3>1, <3>2
    <3>5. \A k \in DOMAIN left : levels'[k] = FileOf(p, g, now[g], k)
      BY <2>2, <2>9, <2>10, <3>1
    <3>6. now' = now /\ \A k : /\ FileOf(p, g, now'[g], k) = FileOf(p, g, now[g], k)
                               /\ CopyOf(g, now'[g], k) = CopyOf(g, now[g], k)
      BY <2>1 DEF history
    <3>7. save'.state = StateOf(g, now'[g])
      BY <2>7, <3>1, <3>6
    <3> QED BY <2>5, <3>1, <3>3, <3>4, <3>5, <3>6, <3>7 DEF GameWhole, Writing, Filling
  <2> QED BY <1>1, <1>2, <2>1, <2>5, <2>6, <2>7, <2>8, <2>11, <2>12, PlaysSafely DEF Safe, history
<1> QED BY <1>4, <1>5

LEMMA SafeDosaveClose ==
  ASSUME IInv, Safe, ~rivalry, NEW p \in Procs, dosave0_close(p) PROVE Safe'
<1> DEFINE m == mem[p]
           g == m.game
<1>1. /\ pc[p] \in {"saved state", "emptying"} /\ pc[p] \in AtGame /\ pc[p] \in Filling
      /\ DOMAIN m.left = {} /\ Goto(p, "unlocking")
      /\ UNCHANGED <<lock, save, readable, mem, history>>
  BY DEF dosave0_close, AtGame, Filling
<1>2. /\ GameFiles(p, pc[p], m)
      /\ Sound(g) => GameMade(p, pc[p], m)
      /\ Undisturbed(g) => GameWhole(p, pc[p], m) /\ Coherent(now[g]) /\ Coherent(kept[g])
  BY <1>1, AtGameSafe
<1>3. PICK x : x = m
  OBVIOUS
<1>4. Moves(p, "unlocking", x) /\ "unlocking" \in AtGame /\ "unlocking" \in Pieces
  BY <1>1, <1>3, MovesOn DEF Points, AtGame, Pieces
<1>5. GameFiles(p, "unlocking", x)'
  BY <1>1, <1>2, <1>3 DEF GameFiles, OpenSave, Writing, Filling
<1>6. Sound(g) => GameMade(p, "unlocking", x)'
  BY <1>1, <1>2, <1>3 DEF GameMade, Writing, Filling
<1>7. Undisturbed(g) => GameWhole(p, "unlocking", x)'
  <2>1. Undisturbed(g) =>
          /\ m.at = now[g].at /\ m.inv = now[g].inv /\ m.from = g /\ m.here = now[g].floor[now[g].at]
          /\ save.state = StateOf(g, now[g])
          /\ DOMAIN save.levels = now[g].made \ DOMAIN m.left
          /\ \A k \in DOMAIN save.levels : save.levels[k] = CopyOf(g, now[g], k)
    BY <1>1, <1>2 DEF GameWhole
  <2>2. now' = now /\ StateOf(g, now'[g]) = StateOf(g, now[g])
        /\ \A k : CopyOf(g, now'[g], k) = CopyOf(g, now[g], k)
    BY <1>1 DEF history
  <2> QED BY <1>1, <1>3, <2>1, <2>2 DEF GameWhole, Writing, Filling
<1> QED BY <1>1, <1>2, <1>3, <1>4, <1>5, <1>6, <1>7, PlaysSafely DEF Safe, history

LEMMA SafeDosaveUnlock ==
  ASSUME IInv, Safe, ~rivalry, NEW p \in Procs, dosave0_unlock(p) PROVE Safe'
<1> DEFINE m == mem[p]
           g == m.game
<1>1. /\ pc[p] = "unlocking" /\ pc[p] \in AtGame /\ lock' = NoFile
      /\ kept' = [kept EXCEPT ![g] = now[g]] /\ Exit(p)
      /\ UNCHANGED <<levels, save, readable, now, over, torn, littered, rivalry, mixed, accused>>
  BY DEF dosave0_unlock, AtGame
<1>2. /\ Alone(p) /\ g \in Games /\ now[g] \in Snapshots /\ GameFiles(p, pc[p], m)
      /\ Sound(g) => GameMade(p, pc[p], m)
      /\ Undisturbed(g) => GameWhole(p, pc[p], m) /\ Coherent(now[g]) /\ Coherent(kept[g])
  BY <1>1, AtGameSafe
<1>3. PICK k : k = g
  OBVIOUS
<1>4. Moves(p, "dead", NoGame)
  BY <1>1, MovesOut
<1>5. OpenSave(p) /\ save.state.game = k
  BY <1>1, <1>2, <1>3 DEF GameFiles, Filling
<1>6. kept'[k] = now[k] /\ \A h \in Games \ {k} : kept'[h] = kept[h]
  BY <1>1, <1>2, <1>3 DEF IInv, InvType, HistoryType
<1>7. ASSUME NEW h \in Games, Undisturbed(h), kept'[h] # Nowhere PROVE Saved(h)'
  <2>1. h = k
    BY <1>1, <1>3, <1>6, <1>7, NoOther
  <2>2. DOMAIN m.left = {} 
    <3>1. GameMade(p, pc[p], m)
      BY <1>2, <1>3, <1>7, <2>1 DEF Undisturbed, Sound
    <3> QED BY <1>1, <3>1 DEF GameMade
  <2>3. /\ save.state = StateOf(k, now[k]) /\ DOMAIN save.levels = now[k].made
        /\ \A l \in DOMAIN save.levels : save.levels[l] = CopyOf(k, now[k], l)
    BY <1>1, <1>2, <1>3, <1>7, <2>1, <2>2 DEF GameWhole, Filling
  <2>4. save.levels \in Partial(Levels, Copy)
    BY <1>5, SaveParts DEF OpenSave, IInv, InvType, DiskType
  <2>5. save.levels = [l \in now[k].made |-> CopyOf(k, now[k], l)]
    BY <2>3, <2>4, PartialParts
  <2>6. save'.state = StateOf(k, kept'[k])
        /\ save'.levels = [l \in kept'[k].made |-> CopyOf(k, kept'[k], l)]
    BY <1>1, <1>6, <2>3, <2>5
  <2> QED BY <1>1, <1>5, <2>1, <2>6 DEF Saved, OpenSave
<1>8. \A h \in Games : Resumable(h)'
  BY <1>1, <1>7, Kinds DEF Resumable, Findable, Undisturbed
<1>9. ASSUME NEW h \in Games PROVE LevelsThere(h)'
  <2> SUFFICES ASSUME Sound(k), h = k PROVE save.state.made \subseteq DOMAIN save.levels
    BY <1>1, <1>5, Kinds DEF LevelsThere, Sound
  <2> QED BY <1>1, <1>2, <1>3 DEF GameMade, Filling
<1>10. \A h \in Games : Undisturbed(h)' => Coherent(now'[h]) /\ Coherent(kept'[h])
  BY <1>1, <1>6 DEF Undisturbed, Safe
<1>11. OneGame' /\ (save' = NoFile => readable') /\ accused' = {}
  BY <1>1, Kinds DEF OneGame, Safe
<1> QED BY <1>2, <1>4, <1>8, <1>9, <1>10, <1>11, Stepped DEF Outside

-----------------------------------------------------------------------------
(* Starting *)

\* Files that nobody touches say the same of a process that goes nowhere.
LEMMA PlaceStays ==
  ASSUME NEW p, NEW w, NEW x,
         UNCHANGED <<lock, levels, save, readable, now, kept, over, torn, littered, rivalry>>,
         Place(p, w, x)
  PROVE  Place(p, w, x)'
<1>1. Present' = Present /\ Copies' = Copies
  BY DEF Present, Copies
<1>2. (Sound(x.game)' <=> Sound(x.game)) /\ (Undisturbed(x.game)' <=> Undisturbed(x.game))
  BY DEF Sound, Undisturbed
<1>3. (NoSave' <=> NoSave) /\ (OpenSave(p)' <=> OpenSave(p)) /\ \A l : Mine(p, l)' <=> Mine(p, l)
  BY DEF NoSave, OpenSave, Mine
<1>4. StartFiles(p, w, x)'
  BY <1>1, <1>3 DEF Place, StartFiles
<1>5. GameFiles(p, w, x) => GameFiles(p, w, x)'
  BY <1>3 DEF GameFiles
<1>6. ToolMade(w, x) => ToolMade(w, x)'
  BY <1>1 DEF ToolMade
<1>7. GameMade(p, w, x) => GameMade(p, w, x)'
  BY <1>3 DEF GameMade
<1>8. /\ now'[x.game] = now[x.game] /\ kept'[x.game] = kept[x.game]
      /\ StateOf(x.game, kept'[x.game]) = StateOf(x.game, kept[x.game])
      /\ StateOf(x.game, now'[x.game]) = StateOf(x.game, now[x.game])
      /\ \A q, l : /\ FileOf(q, x.game, kept'[x.game], l) = FileOf(q, x.game, kept[x.game], l)
                   /\ FileOf(q, x.game, now'[x.game], l) = FileOf(q, x.game, now[x.game], l)
                   /\ CopyOf(x.game, kept'[x.game], l) = CopyOf(x.game, kept[x.game], l)
                   /\ CopyOf(x.game, now'[x.game], l) = CopyOf(x.game, now[x.game], l)
  OBVIOUS
<1>9. ToolWhole(w, x) => ToolWhole(w, x)'
  BY <1>8 DEF ToolWhole
<1>10. GameWhole(p, w, x) => GameWhole(p, w, x)'
  BY <1>8 DEF GameWhole
<1> QED BY <1>2, <1>4, <1>5, <1>6, <1>7, <1>9, <1>10 DEF Place

\* A process that only asks changes nothing for the one at the files.
LEMMA Bystander ==
  ASSUME IInv, Safe, NEW p \in Procs, ~Inside(p), NEW w \in Outside, Moves(p, w, NoGame),
         UNCHANGED <<disk, now, kept, over, torn, littered, rivalry, accused>>
  PROVE  Safe'
<1>1. \A q \in Procs : /\ Inside(q)' => Inside(q) /\ q # p
                       /\ q # p => pc'[q] = pc[q] /\ mem'[q] = mem[q]
  BY DEF Inside, Outside, Moves
<1>2. \A q \in Procs : InPieces(q) => Inside(q)
  BY DEF InPieces, Inside
<1>3. \A q \in Procs : InPieces(q)' <=> InPieces(q)
  <2>1. ~InPieces(p) /\ ~InPieces(p)'
    BY <1>2 DEF InPieces, Moves, Outside
  <2>2. \A q \in Procs \ {p} : InPieces(q)' <=> InPieces(q)
    BY <1>1 DEF InPieces
  <2> QED BY <2>1, <2>2
<1>4. \A g : InHand(g)' <=> InHand(g)
  BY <1>1, <1>2, <1>3 DEF InHand
<1>5. \A g \in Games : Findable(g)' <=> Findable(g)
  <2> TAKE g \in Games
  <2>1. kept'[g] = kept[g] /\ StateOf(g, kept'[g]) = StateOf(g, kept[g])
        /\ \A q, l : /\ FileOf(q, g, kept'[g], l) = FileOf(q, g, kept[g], l)
                     /\ CopyOf(g, kept'[g], l) = CopyOf(g, kept[g], l)
    OBVIOUS
  <2> QED BY <2>1 DEF Findable, Whole, Saved, disk
<1>6. \A g \in Games : Resumable(g)'
  BY <1>4, <1>5 DEF Safe, Resumable, Undisturbed
<1>7. \A g \in Games : LevelsThere(g)'
  BY <1>4 DEF Safe, LevelsThere, Sound, Present, disk
<1>8. ASSUME NEW q \in Procs, Inside(q)' PROVE Place(q, pc[q], mem[q])'
  <2>1. PICK v, x : v = pc[q] /\ x = mem[q]
    OBVIOUS
  <2>2. Place(q, v, x)
    BY <1>1, <1>8, <2>1 DEF Safe
  <2>3. Place(q, v, x)'
    BY <2>2, PlaceStays DEF disk
  <2> QED BY <1>1, <1>8, <2>1, <2>3
<1> QED BY <1>1, <1>6, <1>7, <1>8 DEF Safe, OneGame, Undisturbed, disk

\* A step between games
LEMMA BetweenGames ==
  ASSUME IInv, Safe, NEW p \in Procs, Alone(p), pc[p] \notin Pieces,
         NEW w, NEW x, Moves(p, w, x), w \notin AtTool \cup AtGame,
         UNCHANGED <<now, kept, torn, littered, accused>>, over \subseteq over', ~rivalry,
         save' = NoFile => readable', OneGame',
         \A g \in Games : Undisturbed(g)' /\ kept[g] # Nowhere /\ Findable(g) => Findable(g)',
         \A g \in Games : Sound(g)' /\ LevelsThere(g) => LevelsThere(g)',
         w \notin Outside => StartFiles(p, w, x)'
  PROVE  Safe'
<1>1. \A g \in Games : (Undisturbed(g)' => Undisturbed(g)) /\ (Sound(g)' => Sound(g))
  BY DEF Undisturbed, Sound
<1>2. \A g \in Games : ~InHand(g)
  BY InHandNow
<1>3. \A g \in Games : Resumable(g)'
  BY <1>1, <1>2 DEF Safe, Resumable
<1>4. \A g \in Games : LevelsThere(g)'
  BY DEF Safe, LevelsThere
<1>5. \A g \in Games : Undisturbed(g)' => Coherent(now'[g]) /\ Coherent(kept'[g])
  BY <1>1 DEF Safe
<1>6. w \notin Outside => Place(p, w, x)'
  BY DEF Place
<1> QED BY <1>3, <1>4, <1>5, <1>6, Stepped DEF Safe

LEMMA EntersAlone ==
  ASSUME NEW p \in Procs, Enters(p), ~rivalry' PROVE Alone(p) /\ ~rivalry
BY DEF Enters, Alone

LEMMA OutsidePieces == Outside \cap Pieces = {} /\ AtStart \cap Pieces = {}
                         /\ (AtStart \cup Outside) \cap (AtTool \cup AtGame) = {}
BY DEF Outside, Pieces, AtStart, AtTool, AtGame

LEMMA SafeGetlockFree ==
  ASSUME IInv, Safe, NEW p \in Procs, getlock_free(p), ~rivalry' PROVE Safe'
<1>1. /\ pc[p] = "unborn" /\ lock = NoFile /\ lock' = PidOnly(p) /\ Goto(p, "locked") /\ Enters(p)
      /\ UNCHANGED <<levels, save, readable, mem, now, kept, over, torn, littered, accused>>
  BY DEF getlock_free, MayStart
<1>2. Alone(p) /\ ~rivalry /\ pc[p] \notin Pieces
  BY <1>1, EntersAlone DEF Pieces
<1>3. PICK x : x = mem[p]
  OBVIOUS
<1>4. Moves(p, "locked", x) /\ "locked" \notin AtTool \cup AtGame
  BY <1>1, <1>3, MovesOn DEF Points, AtStart, AtTool, AtGame
<1>5. lock.kind = "none" /\ lock'.kind = "pid"
  BY <1>1, Kinds
<1>6. \A g \in Games : Findable(g) => Findable(g)'
  <2> TAKE g \in Games
  <2> HAVE Findable(g)
  <2>1. Saved(g)
    BY <1>5 DEF Findable, Whole
  <2>2. Saved(g)'
    BY <1>1, <2>1 DEF Saved
  <2> QED BY <1>5, <2>2 DEF Findable
<1>7. \A g \in Games : LevelsThere(g) => LevelsThere(g)'
  <2>1. \A g : ~InHand(g)
    BY <1>2, InHandNow
  <2> QED BY <1>1, <1>5, <2>1 DEF LevelsThere, Sound
<1>8. StartFiles(p, "locked", x)'
  BY <1>1 DEF StartFiles
<1> QED BY <1>1, <1>2, <1>4, <1>5, <1>6, <1>7, <1>8, BetweenGames DEF Safe, OneGame

LEMMA SafeGetlockBusy ==
  ASSUME IInv, Safe, NEW p \in Procs, getlock_busy(p) PROVE Safe'
<1>1. pc[p] = "unborn" /\ Goto(p, "asked") /\ UNCHANGED <<disk, mem, history>>
  BY DEF getlock_busy, MayStart
<1>2. mem[p] = NoGame
  BY <1>1, NoGameYet DEF AtStart
<1>3. Moves(p, "asked", NoGame) /\ "asked" \in Outside /\ ~Inside(p)
  BY <1>1, <1>2, MovesOn DEF Points, AtStart, Outside, Inside
<1> QED BY <1>1, <1>3, Bystander DEF history

LEMMA SafeAnswerNo ==
  ASSUME IInv, Safe, NEW p \in Procs, answer_no(p) PROVE Safe'
<1>1. pc[p] = "asked" /\ Exit(p) /\ UNCHANGED <<disk, history>>
  BY DEF answer_no
<1>2. Moves(p, "dead", NoGame) /\ "dead" \in Outside /\ ~Inside(p)
  BY <1>1, MovesOut DEF Outside, Inside
<1> QED BY <1>1, <1>2, Bystander DEF history

LEMMA SafeEraseOldLocks ==
  ASSUME IInv, Safe, NEW p \in Procs, eraseoldlocks(p), ~rivalry' PROVE Safe'
<1>1. /\ pc[p] \in {"asked", "unborn"} /\ pc[p] \in AtStart /\ Enters(p)
      /\ UNCHANGED <<save, readable, now, kept, torn, littered, accused>>
  BY DEF eraseoldlocks, MayStart, AtStart
<1>2. Alone(p) /\ ~rivalry /\ pc[p] \notin Pieces /\ mem[p] = NoGame
  BY <1>1, EntersAlone, NoGameYet DEF Pieces
<1>3. \A g : ~InHand(g)
  BY <1>2, InHandNow
<1>4. CASE lock = NoFile
  <2>1. Exit(p) /\ UNCHANGED <<lock, over>> /\ lock.kind = "none"
    BY <1>4, Kinds DEF eraseoldlocks
  <2>2. Moves(p, "dead", NoGame) /\ "dead" \in Outside
    BY <2>1, MovesOut DEF Outside
  <2>3. \A g \in Games : Findable(g) => Findable(g)'
    <3> TAKE g \in Games
    <3> HAVE Findable(g)
    <3>1. Saved(g)
      BY <2>1 DEF Findable, Whole
    <3>2. Saved(g)'
      BY <1>1, <3>1 DEF Saved
    <3> QED BY <2>1, <3>2 DEF Findable
  <2>4. \A g \in Games : LevelsThere(g) => LevelsThere(g)'
    BY <1>1, <1>3, <2>1 DEF LevelsThere, Sound
  <2> QED BY <1>1, <1>2, <2>1, <2>2, <2>3, <2>4, BetweenGames, OutsidePieces DEF Safe, OneGame
<1>5. CASE lock # NoFile
  <2>1. /\ lock' = PidOnly(p) /\ Goto(p, "locked") /\ mem' = mem /\ over \subseteq over'
        /\ lock.kind = "state" => lock.state.game \in over'
    BY <1>5 DEF eraseoldlocks
  <2>2. Moves(p, "locked", NoGame) /\ "locked" \in AtStart
    BY <1>2, <2>1, MovesOn DEF Points, AtStart
  <2>3. lock'.kind = "pid"
    BY <2>1, Kinds
  <2>4. ASSUME NEW g \in Games, Undisturbed(g)', Findable(g) PROVE Findable(g)'
    <3>1. ~(lock.kind = "state" /\ lock.state.game = g)
      BY <2>1, <2>4 DEF Undisturbed
    <3>2. Saved(g)
      BY <2>4, <3>1 DEF Findable, Whole, StateOf
    <3>3. Saved(g)'
      BY <1>1, <3>2 DEF Saved
    <3> QED BY <2>3, <3>3 DEF Findable
  <2>5. ASSUME NEW g \in Games, Sound(g)', LevelsThere(g) PROVE LevelsThere(g)'
    <3>1. Sound(g)
      BY <1>1, <2>1, <2>5 DEF Sound
    <3>2. ~(lock.kind = "state" /\ lock.state.game = g)
      BY <2>1, <2>5 DEF Sound
    <3>3. lock.kind = "state" => ~(save.kind = "save" /\ readable /\ save.state.game = g)
      BY <3>2 DEF Safe, OneGame
    <3> QED BY <1>1, <1>3, <2>3, <2>5, <3>1, <3>3 DEF LevelsThere
  <2>6. StartFiles(p, "locked", NoGame)'
    BY <2>1 DEF StartFiles
  <2> QED BY <1>1, <1>2, <2>1, <2>2, <2>3, <2>4, <2>5, <2>6, BetweenGames, OutsidePieces DEF Safe, OneGame
<1> QED BY <1>4, <1>5

-----------------------------------------------------------------------------
(* Recovery *)

\* Nothing is lost of the files that <lock>.0 speaks of.
LEMMA LockedStays ==
  ASSUME lock.kind = "state", UNCHANGED <<lock, levels, kept, torn>>, over \subseteq over', NEW g \in Games
  PROVE  (Findable(g) => Findable(g)') /\ (~InHand(g) /\ Sound(g)' /\ LevelsThere(g) => LevelsThere(g)')
<1>1. Findable(g) => Findable(g)'
  <2> HAVE Findable(g)
  <2>1. PICK q \in Procs : Whole(g, q)
    BY DEF Findable
  <2>2. Whole(g, q)'
    BY <2>1 DEF Whole
  <2> QED BY <2>2 DEF Findable
<1> QED BY <1>1 DEF LevelsThere, Sound, Present

\* No level file of an undisturbed game can be missing.
LEMMA NothingMissing ==
  ASSUME Safe, NEW g \in Games, Undisturbed(g), kept[g] # Nowhere, lock.kind = "state", Findable(g),
         lock.state.at \in Levels
  PROVE  levels[lock.state.at] # NoFile
<1>1. PICK q \in Procs : Whole(g, q)
  BY DEF Findable
<1>2. lock.state.at = kept[g].at
  BY <1>1 DEF Whole, StateOf
<1>3. kept[g].at \in kept[g].made
  BY DEF Safe, Coherent
<1> QED BY <1>1, <1>2, <1>3, FileOfParts, LevelFileParts DEF Whole

\* Recovery gives up for want of the hero's level.
LEMMA GivesUp ==
  ASSUME IInv, Safe, NEW p \in Procs, Alone(p), pc[p] \notin Pieces, ~rivalry, Exit(p),
         lock.kind = "state", levels[lock.state.at] = NoFile,
         UNCHANGED <<lock, levels, now, kept, over, torn, littered, accused>>,
         save' = NoFile => readable', save'.kind # "save"
  PROVE  Safe'
<1>1. Moves(p, "dead", NoGame) /\ "dead" \in Outside
  BY MovesOut DEF Outside
<1>2. lock.state.at \in Levels
  BY LockParts DEF IInv, InvType, DiskType, States
<1>3. \A g \in Games : Undisturbed(g)' /\ kept[g] # Nowhere /\ Findable(g) => Findable(g)'
  BY <1>2, NothingMissing DEF Undisturbed
<1>4. \A g \in Games : Sound(g)' /\ LevelsThere(g) => LevelsThere(g)'
  <2>1. \A g : ~InHand(g)
    BY InHandNow
  <2> QED BY <2>1, LockedStays
<1> QED BY <1>1, <1>3, <1>4, BetweenGames, OutsidePieces DEF OneGame

\* It begins.
LEMMA Recovers ==
  ASSUME IInv, Safe, NEW p \in Procs, Alone(p), pc[p] \notin Pieces, ~rivalry,
         NEW w \in {"recovering", "tool"}, NEW x, x = Recovery, Moves(p, w, x),
         lock.kind = "state", levels[lock.state.at] # NoFile,
         save' = Empty, readable',
         UNCHANGED <<lock, levels, now, kept, over, torn, littered, accused>>
  PROVE  Safe'
<1>1. \A g : ~InHand(g)
  BY InHandNow
<1>2. \A g \in Games : Findable(g) => Findable(g)'
  BY LockedStays
<1>3. \A g \in Games : Sound(g)' /\ LevelsThere(g) => LevelsThere(g)'
  BY <1>1, LockedStays
<1>4. x.state = lock.state /\ x.cur = Copies[lock.state.at]
  BY DEF Recovery
<1>5. lock.state.at \in Levels
  BY LockParts DEF IInv, InvType, DiskType, States
<1>6. Copies' = Copies /\ Present' = Present
  BY DEF Copies, Present
<1>7. StartFiles(p, w, x)'
  BY <1>4, <1>5, <1>6 DEF StartFiles, Present
<1>8. save' # NoFile /\ w \notin AtTool \cup AtGame /\ OneGame'
  BY Kinds DEF AtTool, AtGame, OneGame
<1> QED BY <1>2, <1>3, <1>7, <1>8, BetweenGames

LEMMA SafeRecoverOpen ==
  ASSUME IInv, Safe, NEW p \in Procs, recover_open(p), ~rivalry' PROVE Safe'
<1>1. /\ pc[p] = "asked" /\ Enters(p)
      /\ UNCHANGED <<levels, now, kept, over, torn, littered, accused>>
  BY DEF recover_open
<1>2. Alone(p) /\ ~rivalry /\ pc[p] \notin Pieces
  BY <1>1, EntersAlone DEF Pieces
<1>3. CASE lock.kind = "state" /\ ~(save # NoFile /\ ~readable)
  <2>1. CASE levels[lock.state.at] = NoFile
    <3>1. save' = NoFile /\ readable' = TRUE /\ Exit(p) /\ lock' = lock
      BY <1>3, <2>1 DEF recover_open
    <3> QED BY <1>1, <1>2, <1>3, <2>1, <3>1, GivesUp, Kinds
  <2>2. CASE levels[lock.state.at] # NoFile
    <3>1. /\ save' = Empty /\ readable' = TRUE /\ mem' = [mem EXCEPT ![p] = Recovery]
          /\ Goto(p, "recovering") /\ lock' = lock
      BY <1>3, <2>2 DEF recover_open
    <3>2. PICK x : x = Recovery
      OBVIOUS
    <3>3. Moves(p, "recovering", x)
      BY <3>1, <3>2, MovesBy DEF Points, AtRecovery
    <3> QED BY <1>1, <1>2, <1>3, <2>2, <3>1, <3>2, <3>3, Recovers
  <2> QED BY <2>1, <2>2
<1>4. CASE ~(lock.kind = "state" /\ ~(save # NoFile /\ ~readable))
  <2>1. /\ lock' = IF lock.kind # "state" /\ save # NoFile THEN NoFile ELSE lock
        /\ Exit(p) /\ UNCHANGED <<save, readable>>
    BY <1>4 DEF recover_open
  <2>2. Moves(p, "dead", NoGame) /\ "dead" \in Outside
    BY <2>1, MovesOut DEF Outside
  <2>3. lock'.kind = "state" <=> lock.kind = "state"
    BY <2>1, Kinds
  <2>4. lock.kind = "state" => lock' = lock
    BY <2>1
  <2>5. \A g \in Games : Findable(g) => Findable(g)'
    <3> TAKE g \in Games
    <3>1. CASE lock.kind = "state"
      BY <1>1, <2>4, <3>1, LockedStays
    <3>2. CASE lock.kind # "state"
      BY <1>1, <2>1, <2>3, <3>2 DEF Findable, Whole, Saved
    <3> QED BY <3>1, <3>2
  <2>6. \A g \in Games : LevelsThere(g) => LevelsThere(g)'
    <3>1. \A g : ~InHand(g)
      BY <1>2, InHandNow
    <3> QED BY <1>1, <2>1, <2>3, <2>4, <3>1 DEF LevelsThere, Sound, Present
  <2>7. OneGame' /\ (save' = NoFile => readable')
    BY <2>1, <2>3, <2>4 DEF OneGame, Safe
  <2> QED BY <1>1, <1>2, <2>2, <2>5, <2>6, <2>7, BetweenGames, OutsidePieces
<1> QED BY <1>3, <1>4

LEMMA AtRecoverySafe ==
  ASSUME IInv, Safe, NEW p \in Procs, pc[p] \in AtRecovery
  PROVE  LET m == mem[p]
         IN /\ Alone(p) /\ Place(p, pc[p], m) /\ StartFiles(p, pc[p], m)
            /\ m \in RecoveryMemory /\ m.game \in Games /\ m.state \in States
            /\ m.state.game = m.game /\ m.state.at \in Levels /\ kept[m.game] # Nowhere
<1>1. Inside(p)
  BY DEF Inside, AtRecovery
<1> QED BY <1>1, AloneInside, AtRecoveryHas DEF Place, RecoveryOK

LEMMA SafeRecoverCopy ==
  ASSUME IInv, Safe, ~rivalry, NEW p \in Procs, recover_copy(p) PROVE Safe'
<1> DEFINE m == mem[p]
           copies == [l \in DOMAIN Copies \cup {m.state.at} |->
                        IF l = m.state.at THEN m.cur ELSE Copies[l]]
<1>1. /\ pc[p] = "recovering" /\ pc[p] \in AtRecovery /\ pc[p] \notin Pieces
      /\ save' = IF save = Empty THEN SaveFile(p, m.state, copies) ELSE save
      /\ mem' = [mem EXCEPT ![p].processed = DOMAIN copies] /\ Goto(p, "recovered")
      /\ UNCHANGED <<lock, levels, readable, now, kept, over, torn, littered, rivalry, accused>>
  BY DEF recover_copy, AtRecovery, Pieces
<1>2. /\ Alone(p) /\ StartFiles(p, pc[p], m) /\ m \in RecoveryMemory
  BY <1>1, AtRecoverySafe
<1>3. /\ lock.kind = "state" /\ lock.state = m.state /\ readable /\ save = Empty
      /\ m.state.at \in Present /\ m.cur = Copies[m.state.at]
  BY <1>1, <1>2 DEF StartFiles
<1>4. m.state.at \in DOMAIN Copies
  BY <1>3 DEF Present, Copies
<1>5. copies = Copies
  <2>1. Copies = [l \in DOMAIN Copies |-> Copies[l]]
    BY DEF Copies
  <2>2. copies = [l \in DOMAIN Copies |-> Copies[l]]
    BY <1>3, <1>4
  <2> QED BY <2>1, <2>2
<1> HIDE DEF copies
<1>6. PICK x : x = [m EXCEPT !.processed = DOMAIN copies]
  OBVIOUS
<1>7. Moves(p, "recovered", x)
  BY <1>1, <1>6, MovesBy DEF Points, AtRecovery
<1>8. x.state = m.state
  BY <1>2, <1>6 DEF RecoveryMemory
<1>9. save' = SaveFile(p, m.state, Copies) /\ Copies' = Copies
  BY <1>1, <1>3, <1>5 DEF Copies
<1>10. save' # NoFile /\ save'.state = m.state
  BY <1>9, SaveFileParts
<1>11. StartFiles(p, "recovered", x)'
  BY <1>1, <1>3, <1>8, <1>9 DEF StartFiles
<1>12. \A g \in Games : Findable(g) => Findable(g)'
  BY <1>1, <1>3, LockedStays
<1>13. \A g \in Games : Sound(g)' /\ LevelsThere(g) => LevelsThere(g)'
  <2>1. \A g : ~InHand(g)
    BY <1>1, <1>2, InHandNow
  <2> QED BY <1>1, <1>3, <2>1, LockedStays
<1>14. OneGame' /\ "recovered" \notin AtTool \cup AtGame
  BY <1>1, <1>3, <1>10 DEF OneGame, AtTool, AtGame
<1> QED BY <1>1, <1>2, <1>7, <1>10, <1>11, <1>12, <1>13, <1>14, BetweenGames

LEMMA SafeRecoverUnlink ==
  ASSUME IInv, Safe, ~rivalry, NEW p \in Procs, recover_unlink(p) PROVE Safe'
<1> DEFINE m == mem[p]
<1>1. /\ pc[p] = "recovered" /\ pc[p] \in AtRecovery /\ pc[p] \notin Pieces
      /\ lock' = NoFile /\ Goto(p, "unlinking")
      /\ UNCHANGED <<levels, save, readable, mem, history>>
  BY DEF recover_unlink, AtRecovery, Pieces
<1>2. Alone(p) /\ StartFiles(p, pc[p], m)
  BY <1>1, AtRecoverySafe
<1>3. /\ lock.kind = "state" /\ lock.state = m.state /\ readable
      /\ save = SaveFile(p, m.state, Copies)
  BY <1>1, <1>2 DEF StartFiles
<1>4. save.kind = "save" /\ save.state = lock.state /\ save.levels = Copies /\ save # NoFile
  BY <1>3, SaveFileParts
<1>5. PICK x : x = m
  OBVIOUS
<1>6. Moves(p, "unlinking", x) /\ "unlinking" \notin AtTool \cup AtGame
  BY <1>1, <1>5, MovesOn DEF Points, AtRecovery, AtTool, AtGame
<1>7. lock'.kind = "none"
  BY <1>1, Kinds
<1>8. StartFiles(p, "unlinking", x)'
  BY <1>1 DEF StartFiles
<1>9. ASSUME NEW g \in Games, kept[g] # Nowhere, Findable(g) PROVE Findable(g)'
  <2>1. PICK q \in Procs : Whole(g, q)
    BY <1>3, <1>9 DEF Findable
  <2> DEFINE k == kept[g]
  <2>2. lock.state = StateOf(g, k) /\ \A l \in Levels : levels[l] = FileOf(q, g, k, l)
    BY <2>1 DEF Whole
  <2>3. k.made \in SUBSET Levels
    BY <1>9 DEF IInv, InvType, HistoryType, Snapshots
  <2>4. DOMAIN Copies = k.made
    <3>1. \A l \in Levels : l \in k.made <=> levels[l] # NoFile
      BY <2>2, FileOfParts, LevelFileParts
    <3>2. DOMAIN Copies = {l \in Levels : levels[l] # NoFile}
      BY DEF Copies
    <3> QED BY <2>3, <3>1, <3>2
  <2>5. \A l \in k.made : Copies[l] = CopyOf(g, k, l)
    BY <2>2, <2>3, CopyParts
  <2>6. Copies = [l \in DOMAIN Copies |-> Copies[l]]
    BY DEF Copies
  <2>7. Copies = [l \in k.made |-> CopyOf(g, k, l)]
    BY <2>4, <2>5, <2>6
  <2>8. Saved(g)'
    <3>1. kept' = kept /\ save' = save /\ readable'
      BY <1>1, <1>3 DEF history
    <3>2. save'.levels = [l \in kept'[g].made |-> CopyOf(g, kept'[g], l)]
      BY <1>4, <2>7, <3>1
    <3> QED BY <1>4, <2>2, <3>1, <3>2 DEF Saved
  <2> QED BY <1>7, <2>8 DEF Findable
<1>10. ASSUME NEW g \in Games, LevelsThere(g) PROVE LevelsThere(g)'
  <2> SUFFICES ASSUME Sound(g), save.state.game = g PROVE save.state.made \subseteq DOMAIN save.levels
    BY <1>1, <1>7 DEF LevelsThere, Sound, history
  <2>1. ~InHand(g)
    BY <1>1, <1>2, InHandNow
  <2>2. lock.state.made \subseteq Present
    BY <1>3, <1>4, <1>10, <2>1 DEF LevelsThere
  <2>3. Present = DOMAIN Copies
    BY DEF Present, Copies
  <2> QED BY <1>4, <2>2, <2>3
<1>11. OneGame' /\ (save' = NoFile => readable')
  BY <1>1, <1>4, <1>7 DEF OneGame
<1> QED BY <1>1, <1>2, <1>6, <1>8, <1>9, <1>10, <1>11, BetweenGames DEF history

LEMMA SafeRecoverGotlock ==
  ASSUME IInv, Safe, ~rivalry, NEW p \in Procs, recover_gotlock(p) PROVE Safe'
<1>1. /\ pc[p] = "unlinking" /\ pc[p] \in AtRecovery /\ pc[p] \notin Pieces
      /\ lock' = PidOnly(p) /\ Goto(p, "locked") /\ mem' = [mem EXCEPT ![p] = NoGame]
      /\ UNCHANGED <<save, readable, history>>
  BY DEF recover_gotlock, AtRecovery, Pieces
<1>2. Alone(p) /\ StartFiles(p, pc[p], mem[p])
  BY <1>1, AtRecoverySafe
<1>3. lock.kind = "none" /\ lock'.kind = "pid"
  BY <1>1, <1>2, Kinds DEF StartFiles
<1>4. Moves(p, "locked", NoGame) /\ "locked" \in AtStart
  BY <1>1, MovesBy DEF Points, AtStart
<1>5. StartFiles(p, "locked", NoGame)'
  BY <1>1 DEF StartFiles
<1>6. \A g \in Games : Findable(g) => Findable(g)'
  <2> TAKE g \in Games
  <2> HAVE Findable(g)
  <2>1. Saved(g)
    BY <1>3 DEF Findable, Whole
  <2>2. Saved(g)'
    BY <1>1, <2>1 DEF Saved, history
  <2> QED BY <1>3, <2>2 DEF Findable
<1>7. \A g \in Games : LevelsThere(g) => LevelsThere(g)'
  <2>1. \A g : ~InHand(g)
    BY <1>1, <1>2, InHandNow
  <2> QED BY <1>1, <1>3, <2>1 DEF LevelsThere, Sound, history
<1>8. OneGame' /\ (save' = NoFile => readable')
  BY <1>1, <1>3 DEF OneGame, Safe
<1> QED BY <1>1, <1>2, <1>4, <1>5, <1>6, <1>7, <1>8, BetweenGames, OutsidePieces DEF history

-----------------------------------------------------------------------------
(* Starting from a save file, or anew *)

LEMMA CopyOfNotEmpty == \A g, s, l : CopyOf(g, s, l) # Empty
<1> TAKE g, s, l
<1>1. "game" \in DOMAIN CopyOf(g, s, l) /\ "game" \notin DOMAIN Empty
  BY DEF CopyOf, Empty
<1> QED BY <1>1

LEMMA AtLocked ==
  ASSUME IInv, Safe, NEW p \in Procs, pc[p] \in {"locked", "newgame"}
  PROVE  /\ Alone(p) /\ pc[p] \notin Pieces /\ lock = PidOnly(p) /\ lock.kind = "pid" /\ lock.pid = p
         /\ pc[p] = "newgame" => NoSave
         /\ \A g : ~InHand(g)
         /\ \A g \in Games : Undisturbed(g) /\ kept[g] # Nowhere => Saved(g)
         /\ \A g \in Games : /\ Sound(g) /\ save.kind = "save" /\ readable /\ save.state.game = g
                             => save.state.made \subseteq DOMAIN save.levels
<1>1. Inside(p) /\ pc[p] \notin Pieces
  BY DEF Inside, Pieces
<1>2. Alone(p) /\ lock = PidOnly(p) /\ (pc[p] = "newgame" => NoSave)
  BY <1>1, AloneInside DEF Place, StartFiles
<1>3. lock.kind = "pid" /\ lock.pid = p
  BY <1>2 DEF PidOnly
<1>4. \A g : ~InHand(g)
  BY <1>1, <1>2, InHandNow
<1>5. \A g \in Games : Undisturbed(g) /\ kept[g] # Nowhere => Saved(g)
  BY <1>3, <1>4 DEF Safe, Resumable, Findable, Whole
<1>6. \A g \in Games : /\ Sound(g) /\ save.kind = "save" /\ readable /\ save.state.game = g
                       => save.state.made \subseteq DOMAIN save.levels
  BY <1>3, <1>4 DEF Safe, LevelsThere
<1> QED BY <1>1, <1>2, <1>3, <1>4, <1>5, <1>6

LEMMA SafeRestore ==
  ASSUME IInv, Safe, ~rivalry, NEW p \in Procs, restore_saved_game(p) PROVE Safe'
<1>1. /\ pc[p] = "locked" /\ pc[p] \in AtStart /\ mem[p] = NoGame
      /\ UNCHANGED <<kept, over, torn, rivalry, accused>>
  BY NoGameYet DEF restore_saved_game, AtStart
<1>2. /\ Alone(p) /\ pc[p] \notin Pieces /\ lock = PidOnly(p) /\ lock.kind = "pid" /\ lock.pid = p
      /\ \A g : ~InHand(g)
      /\ \A g \in Games : Undisturbed(g) /\ kept[g] # Nowhere => Saved(g)
      /\ \A g \in Games : /\ Sound(g) /\ save.kind = "save" /\ readable /\ save.state.game = g
                          => save.state.made \subseteq DOMAIN save.levels
  BY <1>1, AtLocked
<1>3. CASE NoSave /\ Goto(p, "newgame") /\ UNCHANGED <<disk, mem, now, littered>>
  <2>1. Moves(p, "newgame", NoGame) /\ "newgame" \in AtStart
    BY <1>1, <1>3, MovesOn DEF Points, AtStart
  <2>2. \A g \in Games : Findable(g) => Findable(g)'
    BY <1>1, <1>2, <1>3 DEF Findable, Whole, Saved, disk
  <2>3. \A g \in Games : LevelsThere(g) => LevelsThere(g)'
    BY <1>1, <1>2, <1>3 DEF LevelsThere, Sound, disk
  <2>4. StartFiles(p, "newgame", NoGame)'
    BY <1>2, <1>3 DEF StartFiles, NoSave, disk
  <2>5. OneGame' /\ (save' = NoFile => readable')
    BY <1>3 DEF Safe, OneGame, disk
  <2> QED BY <1>1, <1>2, <1>3, <2>1, <2>2, <2>3, <2>4, <2>5, BetweenGames, OutsidePieces
<1>4. CASE /\ save = Empty /\ lock' = NoFile /\ Exit(p)
           /\ UNCHANGED <<levels, save, readable, now, littered>>
  <2>1. Moves(p, "dead", NoGame) /\ "dead" \in Outside /\ lock'.kind = "none" /\ save.kind = "empty"
    BY <1>4, MovesOut, Kinds DEF Outside
  <2>2. \A g \in Games : Findable(g) => Findable(g)'
    BY <1>2, <2>1 DEF Findable, Whole, Saved
  <2>3. \A g \in Games : LevelsThere(g)'
    BY <1>4, <2>1 DEF LevelsThere
  <2>4. OneGame' /\ (save' = NoFile => readable')
    BY <1>4, <2>1 DEF Safe, OneGame
  <2> QED BY <1>1, <1>2, <1>4, <2>1, <2>2, <2>3, <2>4, BetweenGames, OutsidePieces
<1>5. CASE /\ save.kind = "head" \/ \E l \in DOMAIN save.levels : save.levels[l] = Empty
           /\ readable /\ save' = NoFile /\ Exit(p)
           /\ UNCHANGED <<readable, now, littered>> /\ UNCHANGED <<lock, levels>>
  <2>1. Moves(p, "dead", NoGame) /\ "dead" \in Outside /\ save'.kind = "none"
    BY <1>5, MovesOut, Kinds DEF Outside
  <2>2. \A g \in Games : ~Saved(g)
    BY <1>5, CopyOfNotEmpty DEF Saved
  <2>3. \A g \in Games : Undisturbed(g)' /\ kept[g] # Nowhere => Findable(g)'
    BY <1>1, <1>2, <1>5, <2>2 DEF Undisturbed
  <2>4. \A g \in Games : LevelsThere(g)'
    BY <1>2, <1>5, <2>1 DEF LevelsThere
  <2>5. OneGame' /\ (save' = NoFile => readable')
    BY <1>5, <2>1 DEF OneGame
  <2> QED BY <1>1, <1>2, <1>5, <2>1, <2>3, <2>4, <2>5, BetweenGames, OutsidePieces
<1> DEFINE s == save.state
           here == save.levels[s.at]
           y == [game |-> s.game, at |-> s.at, inv |-> s.inv, made |-> s.made,
                 here |-> here.things, from |-> here.game,
                 to |-> s.at, left |-> save.levels, then |-> "levels"]
<1>6. CASE /\ save.kind = "save" /\ ~(\E l \in DOMAIN save.levels : save.levels[l] = Empty)
           /\ readable /\ readable' = FALSE /\ mem' = [mem EXCEPT ![p] = y]
           /\ now' = [now EXCEPT ![s.game] = kept[s.game]]
           /\ Begins(s.game)
           /\ Goto(p, "check") /\ UNCHANGED save /\ UNCHANGED <<lock, levels>>
  <2>1. s \in States /\ kept[s.game] # Nowhere
    BY <1>6, SavedLevels
  <2>2. PICK x : x = y
    OBVIOUS
  <2>3. PICK g : g = s.game
    OBVIOUS
  <2>4. /\ x.game = g /\ x.at = s.at /\ x.inv = s.inv /\ x.made = s.made /\ x.here = here.things
        /\ x.from = here.game /\ x.left = save.levels /\ x.then = "levels"
    BY <2>2, <2>3
  <2>5. g \in Games
    BY <2>1, <2>3 DEF States
  <2>6. Moves(p, "check", x)
    BY <1>6, <2>2, MovesBy DEF Points, AtGame
  <2>7. "check" \in Pieces /\ "check" \in Writing /\ "check" \in AtGame /\ "check" \notin AtTool
        /\ "check" \notin Filling
    BY DEF Pieces, Writing, AtGame, AtTool, Filling
  <2>8. now'[g] = kept[g] /\ \A h \in Games \ {g} : now'[h] = now[h]
    BY <1>6, <2>3, <2>5 DEF IInv, InvType, HistoryType
  <2>9. littered \subseteq littered' /\ (g \notin littered' => \A l \in Levels : levels[l] = NoFile)
    BY <1>6, <2>3 DEF Begins
  <2>10. \A h \in Games : (Undisturbed(h)' => Undisturbed(h)) /\ (Sound(h)' => Sound(h))
    BY <1>1, <2>9 DEF Undisturbed, Sound
  <2>11. \A h \in Games : Resumable(h)'
    <3>1. ASSUME NEW h \in Games, h # g PROVE ~(Undisturbed(h) /\ kept[h] # Nowhere)
      <4> SUFFICES ASSUME Undisturbed(h), kept[h] # Nowhere PROVE FALSE
        OBVIOUS
      <4>1. save.state = StateOf(h, kept[h])
        BY <1>2 DEF Saved
      <4>2. save.state.game = h
        BY <4>1, SnapshotParts
      <4> QED BY <2>3, <3>1, <4>2
    <3>2. InHand(g)'
      BY <1>2, <2>4, <2>6, <2>7, InHandNext
    <3> QED BY <1>1, <2>10, <3>1, <3>2 DEF Resumable
  <2>12. \A h \in Games : LevelsThere(h)'
    BY <1>2, <1>6 DEF LevelsThere
  <2>13. \A h \in Games : Undisturbed(h)' => Coherent(now'[h]) /\ Coherent(kept'[h])
    BY <1>1, <2>8, <2>10 DEF Safe
  <2>14. GameFiles(p, "check", x)'
    BY <1>2, <1>6, <2>7 DEF GameFiles, NoSave, Filling
  <2>15. Sound(g) => GameMade(p, "check", x)'
    BY <1>2, <1>6, <2>3, <2>4, <2>5, <2>7 DEF GameMade
  <2>16. Undisturbed(g)' => GameWhole(p, "check", x)'
    <3> SUFFICES ASSUME Undisturbed(g)' PROVE GameWhole(p, "check", x)'
      OBVIOUS
    <3> DEFINE k == kept[g]
    <3>1. Undisturbed(g) /\ \A l \in Levels : levels[l] = NoFile
      BY <2>5, <2>9, <2>10 DEF Undisturbed
    <3>2. s = StateOf(g, k) /\ save.levels = [l \in k.made |-> CopyOf(g, k, l)]
      BY <1>2, <2>1, <2>3, <2>5, <3>1 DEF Saved
    <3>3. s.at = k.at /\ s.inv = k.inv /\ s.made = k.made
      BY <3>2 DEF StateOf
    <3>4. k.at \in k.made
      BY <2>1, <2>3, <2>5, <3>1 DEF Safe, Coherent
    <3>5. here = CopyOf(g, k, k.at)
      BY <3>2, <3>3, <3>4
    <3>6. here.game = g /\ here.things = k.floor[k.at]
      BY <3>5 DEF CopyOf
    <3>7. now'[g] = k /\ kept'[g] = k /\ levels' = levels
      BY <1>1, <1>6, <2>8
    <3>8. x.left = [l \in now'[g].made |-> CopyOf(g, now'[g], l)]
      BY <2>4, <3>2, <3>7
    <3>9. x.at = k.at /\ x.inv = k.inv /\ x.made = k.made /\ x.here = k.floor[k.at] /\ x.from = g
      BY <2>4, <3>3, <3>6
    <3> HIDE DEF k
    <3> QED BY <2>4, <2>7, <3>1, <3>7, <3>8, <3>9 DEF GameWhole, Filling
  <2>17. Place(p, "check", x)'
    <3>1. StartFiles(p, "check", x)'
      BY DEF StartFiles
    <3>2. (Sound(g)' => GameMade(p, "check", x)')
      BY <2>5, <2>10, <2>15
    <3> QED BY <2>4, <2>7, <2>14, <2>16, <3>1, <3>2 DEF Place
  <2>18. OneGame' /\ save' # NoFile /\ accused' = {}
    BY <1>1, <1>6, Kinds DEF OneGame, Safe
  <2> QED BY <1>2, <2>6, <2>11, <2>12, <2>13, <2>17, <2>18, Stepped
<1> HIDE DEF y, here, s
<1> QED BY <1>3, <1>4, <1>5, <1>6 DEF restore_saved_game, y, here, s, NoSave

LEMMA SafeNewGame ==
  ASSUME IInv, Safe, ~rivalry, NEW p \in Procs, newgame(p) PROVE Safe'
<1> DEFINE y == [game |-> p, at |-> First, inv |-> Things, made |-> {}, here |-> {},
                 from |-> p, to |-> First, left |-> << >>, then |-> "play"]
           n == [at |-> First, inv |-> Things, made |-> {First}, floor |-> [l \in Levels |-> {}]]
<1>1. /\ pc[p] = "newgame" /\ mem' = [mem EXCEPT ![p] = y] /\ now' = [now EXCEPT ![p] = n]
      /\ Begins(p) /\ Goto(p, "arrived")
      /\ UNCHANGED <<disk, kept, over, torn, rivalry, accused>>
  BY DEF newgame
<1>2. /\ Alone(p) /\ lock.kind = "pid" /\ lock.pid = p /\ NoSave
      /\ \A g : ~InHand(g)
      /\ \A g \in Games : Undisturbed(g) /\ kept[g] # Nowhere => Saved(g)
  BY <1>1, AtLocked
<1>3. PICK x : x = y
  OBVIOUS
<1>4. /\ x.game = p /\ x.at = First /\ x.inv = Things /\ x.made = {} /\ x.here = {} /\ x.from = p
  BY <1>3
<1>5. /\ n.at = First /\ n.inv = Things /\ n.made = {First} /\ \A l \in Levels : n.floor[l] = {}
  OBVIOUS
<1> HIDE DEF n
<1>6. Moves(p, "arrived", x)
  BY <1>1, <1>3, MovesBy DEF Points, AtGame
<1>7. "arrived" \in Pieces /\ "arrived" \in AtGame /\ "arrived" \notin AtTool \cup Filling \cup Writing
  BY DEF Pieces, AtGame, AtTool, Filling, Writing
<1>8. p \in Games /\ now'[p] = n /\ \A h \in Games \ {p} : now'[h] = now[h]
  BY <1>1 DEF Games, IInv, InvType, HistoryType
<1>9. littered \subseteq littered' /\ (p \notin littered' => \A l \in Levels : levels[l] = NoFile)
  BY <1>1 DEF Begins
<1>10. \A h \in Games : Undisturbed(h)' => Undisturbed(h)
  BY <1>1, <1>9 DEF Undisturbed
<1>11. \A h \in Games : ~(Undisturbed(h) /\ kept[h] # Nowhere)
  BY <1>2, Kinds DEF Saved, NoSave
<1>12. \A h \in Games : Resumable(h)'
  BY <1>1, <1>10, <1>11 DEF Resumable
<1>13. NoSave' /\ lock'.kind = "pid" /\ lock'.pid = p
  BY <1>1, <1>2 DEF NoSave, disk
<1>14. \A h \in Games : LevelsThere(h)'
  BY <1>13, Kinds DEF LevelsThere, NoSave
<1>15. \A h \in Games : Undisturbed(h)' => Coherent(now'[h]) /\ Coherent(kept'[h])
  <2>1. Coherent(n)
    BY <1>5 DEF Coherent
  <2> QED BY <1>1, <1>8, <1>10, <2>1 DEF Safe
<1>16. GameFiles(p, "arrived", x)'
  BY <1>7, <1>13 DEF GameFiles
<1>17. GameMade(p, "arrived", x)'
  BY <1>4, <1>7 DEF GameMade
<1>18. Undisturbed(p)' => GameWhole(p, "arrived", x)'
  <2> SUFFICES ASSUME Undisturbed(p)' PROVE GameWhole(p, "arrived", x)'
    OBVIOUS
  <2>1. \A l \in Levels : levels'[l] = NoFile
    BY <1>1, <1>9 DEF Undisturbed, disk
  <2>2. \A l \in Levels \ {First} : FileOf(p, p, now'[p], l) = NoFile
    BY <1>5, <1>8 DEF FileOf
  <2>3. First \in Levels
    BY LevelAssumption
  <2> QED BY <1>4, <1>5, <1>7, <1>8, <2>1, <2>2, <2>3 DEF GameWhole
<1>19. Place(p, "arrived", x)'
  <2>1. StartFiles(p, "arrived", x)'
    BY DEF StartFiles
  <2> QED BY <1>4, <1>7, <1>16, <1>17, <1>18, <2>1 DEF Place
<1>20. OneGame' /\ (save' = NoFile => readable') /\ accused' = {}
  BY <1>1, <1>13 DEF OneGame, Safe, disk
<1> QED BY <1>2, <1>6, <1>12, <1>14, <1>15, <1>19, <1>20, Stepped

-----------------------------------------------------------------------------
(* The recover utility *)

LEMMA SafeRecoverTool ==
  ASSUME IInv, Safe, NEW p \in Procs, recover_tool(p), ~rivalry' PROVE Safe'
<1>1. /\ pc[p] = "unborn" /\ Enters(p) /\ lock.kind = "state" /\ ~(save # NoFile /\ ~readable)
      /\ save' = Empty
      /\ UNCHANGED <<lock, levels, readable, now, kept, over, torn, littered, accused>>
  BY DEF recover_tool, MayStart
<1>2. Alone(p) /\ ~rivalry /\ pc[p] \notin Pieces
  BY <1>1, EntersAlone DEF Pieces
<1>3. readable' /\ save'.kind = "empty"
  BY <1>1, Kinds DEF Safe
<1>4. CASE levels[lock.state.at] = NoFile
  <2>1. Exit(p)
    BY <1>4 DEF recover_tool
  <2> QED BY <1>1, <1>2, <1>3, <1>4, <2>1, GivesUp
<1>5. CASE levels[lock.state.at] # NoFile
  <2>1. mem' = [mem EXCEPT ![p] = Recovery] /\ Goto(p, "tool")
    BY <1>5 DEF recover_tool
  <2>2. PICK x : x = Recovery
    OBVIOUS
  <2>3. Moves(p, "tool", x)
    BY <2>1, <2>2, MovesBy DEF Points, AtRecovery
  <2> QED BY <1>1, <1>2, <1>3, <1>5, <2>2, <2>3, Recovers
<1> QED BY <1>4, <1>5

\* The utility goes on with the one game that is there.
LEMMA ToolSafely ==
  ASSUME IInv, Safe, ~rivalry, NEW p \in Procs, Alone(p),
         NEW w \in AtTool, NEW x, Moves(p, w, x), x.game \in Games,
         UNCHANGED <<readable, now, kept, over, torn, littered, rivalry, accused>>,
         \A h \in Games \ {x.game} : ~(Undisturbed(h) /\ kept[h] # Nowhere),
         save'.kind \in {"head", "save"}, save'.kind = "save" => save'.state.game = x.game,
         lock'.kind = "state" => lock'.state.game = x.game,
         StartFiles(p, w, x)',
         Sound(x.game) => ToolMade(w, x)', Undisturbed(x.game) => ToolWhole(w, x)'
  PROVE  Safe'
<1>1. w \in Pieces /\ w \notin AtGame
  BY DEF AtTool, Pieces, AtGame
<1>2. InHand(x.game)'
  BY <1>1, InHandNext
<1>3. \A g \in Games : (Undisturbed(g)' <=> Undisturbed(g)) /\ (Sound(g)' <=> Sound(g))
  BY DEF Undisturbed, Sound
<1>4. \A h \in Games : Resumable(h)'
  BY <1>2, <1>3 DEF Resumable
<1>5. \A h \in Games : LevelsThere(h)'
  BY <1>2 DEF LevelsThere
<1>6. Place(p, w, x)'
  <2>1. (Sound(x.game)' => ToolMade(w, x)') /\ (Undisturbed(x.game)' => ToolWhole(w, x)')
    BY <1>3
  <2> QED BY <1>1, <2>1 DEF Place
<1>7. \A g \in Games : Undisturbed(g)' => Coherent(now'[g]) /\ Coherent(kept'[g])
  BY <1>3 DEF Safe
<1>8. OneGame' /\ accused' = {} /\ save' # NoFile
  BY Kinds DEF OneGame, Safe
<1> QED BY <1>4, <1>5, <1>6, <1>7, <1>8, Stepped

LEMMA SafeToolHead ==
  ASSUME IInv, Safe, ~rivalry, NEW p \in Procs, recover_tool_step(p), pc[p] = "tool" PROVE Safe'
<1> DEFINE m == mem[p]
           at == m.state.at
<1>1. /\ pc[p] \in AtRecovery /\ pc[p] \notin Pieces
      /\ save' = IF save = Empty THEN [kind |-> "head", by |-> p] ELSE save
      /\ levels' = [levels EXCEPT ![at] = NoFile]
      /\ Goto(p, "tool state") /\ UNCHANGED <<lock, mem>>
      /\ UNCHANGED <<readable, now, kept, over, torn, littered, rivalry, accused>>
  BY DEF recover_tool_step, recover_tool_copy, AtRecovery, Pieces
<1>2. /\ Alone(p) /\ StartFiles(p, pc[p], m) /\ m.game \in Games /\ m.state.game = m.game
      /\ m.state \in States /\ at \in Levels /\ kept[m.game] # Nowhere
  BY <1>1, AtRecoverySafe
<1>3. /\ lock.kind = "state" /\ lock.state = m.state /\ readable /\ save = Empty
      /\ at \in Present /\ m.cur = Copies[at]
  BY <1>2 DEF StartFiles
<1>4. \A g : ~InHand(g)
  BY <1>1, <1>2, InHandNow
<1>5. ASSUME NEW h \in Games, Undisturbed(h), kept[h] # Nowhere
      PROVE  \E q \in Procs : Whole(h, q)
  BY <1>3, <1>4, <1>5 DEF Safe, Resumable, Findable
<1>6. \A h \in Games \ {m.game} : ~(Undisturbed(h) /\ kept[h] # Nowhere)
  BY <1>2, <1>3, <1>5 DEF Whole, StateOf
<1>7. PICK x : x = m
  OBVIOUS
<1>8. Moves(p, "tool state", x) /\ "tool state" \in AtTool
  BY <1>1, <1>7, MovesOn DEF Points, AtRecovery, AtTool
<1>9. save' = [kind |-> "head", by |-> p] /\ save'.kind = "head"
  BY <1>1, <1>3
<1>10. levels'[at] = NoFile /\ \A l \in Levels \ {at} : levels'[l] = levels[l]
  BY <1>1, <1>2 DEF IInv, InvType, DiskType
<1>11. StartFiles(p, "tool state", x)'
  BY <1>1, <1>3, <1>7, <1>9 DEF StartFiles
<1>12. Sound(m.game) => ToolMade("tool state", x)'
  <2> SUFFICES ASSUME Sound(m.game) PROVE ToolMade("tool state", x)'
    OBVIOUS
  <2>1. x.state.made \subseteq Present
    BY <1>2, <1>3, <1>4, <1>7 DEF Safe, LevelsThere
  <2>2. x.state.made \ {x.state.at} \subseteq Present'
    BY <1>7, <1>10, <2>1 DEF Present
  <2> QED BY <2>2 DEF ToolMade
<1>13. Undisturbed(m.game) => ToolWhole("tool state", x)'
  <2> SUFFICES ASSUME Undisturbed(m.game) PROVE ToolWhole("tool state", x)'
    OBVIOUS
  <2>1. PICK q \in Procs : Whole(m.game, q)
    BY <1>2, <1>5
  <2>2. PICK g, k : g = m.game /\ k = kept[g]
    OBVIOUS
  <2>3. m.state = StateOf(g, k) /\ \A l \in Levels : levels[l] = FileOf(q, g, k, l)
    BY <1>3, <2>1, <2>2 DEF Whole
  <2>4. at = k.at
    BY <2>3 DEF StateOf
  <2>5. k.at \in k.made
    BY <1>2, <2>2 DEF Safe, Coherent
  <2>6. m.cur = CopyOf(g, k, k.at)
    <3>1. levels[at] = FileOf(q, g, k, at) /\ at \in k.made
      BY <1>2, <2>3, <2>4, <2>5
    <3> QED BY <1>2, <1>3, <2>4, <3>1, CopyParts
  <2>7. \A l \in Levels : levels'[l] = IF l = k.at THEN NoFile ELSE FileOf(q, g, k, l)
    BY <1>10, <2>3, <2>4
  <2>8. x.game = g /\ kept'[g] = k /\ x.state = StateOf(g, k) /\ x.cur = CopyOf(g, k, k.at)
    BY <1>1, <1>7, <2>2, <2>3, <2>6
  <2> QED BY <2>7, <2>8 DEF ToolWhole
<1> QED BY <1>1, <1>2, <1>3, <1>6, <1>7, <1>8, <1>9, <1>11, <1>12, <1>13, ToolSafely

CopiesState(p) == recover_tool_step(p) /\ pc[p] = "tool state"
CopiesRest(p) == recover_tool_step(p) /\ pc[p] = "tool rest"

LEMMA SafeToolState ==
  ASSUME IInv, Safe, ~rivalry, NEW p \in Procs, CopiesState(p) PROVE Safe'
<1> DEFINE m == mem[p]
           f == [l \in {m.state.at} |-> m.cur]
<1>1. /\ pc[p] = "tool state" /\ pc[p] \in AtRecovery /\ pc[p] \in AtTool
      /\ save' = IF save.kind = "head" /\ save.by = p THEN SaveFile(p, m.state, f) ELSE save
      /\ lock' = NoFile /\ Goto(p, "tool rest") /\ UNCHANGED <<levels, mem>>
      /\ UNCHANGED <<readable, now, kept, over, torn, littered, rivalry, accused>>
  BY DEF CopiesState, recover_tool_step, recover_tool_copy, AtRecovery, AtTool
<1>2. /\ Alone(p) /\ Place(p, pc[p], m) /\ m.game \in Games /\ m.state.game = m.game
      /\ kept[m.game] # Nowhere /\ m.state.at \in Levels
  BY <1>1, AtRecoverySafe
<1>3. /\ lock.kind = "state" /\ lock.state = m.state /\ readable
      /\ save = [kind |-> "head", by |-> p]
      /\ Sound(m.game) => ToolMade(pc[p], m)
      /\ Undisturbed(m.game) => ToolWhole(pc[p], m)
  BY <1>1, <1>2 DEF Place, StartFiles
<1>4. ASSUME NEW h \in Games, h # m.game PROVE ~(Undisturbed(h) /\ kept[h] # Nowhere)
  <2> SUFFICES ASSUME Undisturbed(h), kept[h] # Nowhere PROVE FALSE
    OBVIOUS
  <2>1. ~InHand(h)
    BY <1>2, <1>4, InHandNow
  <2>2. PICK q \in Procs : Whole(h, q)
    BY <1>3, <2>1 DEF Safe, Resumable, Findable
  <2>3. lock.state = StateOf(h, kept[h])
    BY <2>2 DEF Whole
  <2>4. lock.state.game = h
    BY <2>3, SnapshotParts
  <2> QED BY <1>2, <1>3, <1>4, <2>4
<1>5. PICK x : x = m
  OBVIOUS
<1>6. Moves(p, "tool rest", x) /\ "tool rest" \in AtTool
  BY <1>1, <1>5, MovesOn DEF Points, AtRecovery, AtTool
<1>7. DOMAIN f = {m.state.at} /\ f[m.state.at] = m.cur
  OBVIOUS
<1> HIDE DEF f
<1>8. save' = SaveFile(p, m.state, f)
  BY <1>1, <1>3
<1>9. save'.kind = "save" /\ save'.by = p /\ save'.state = m.state /\ save'.levels = f
  BY <1>8 DEF SaveFile
<1>10. StartFiles(p, "tool rest", x)'
  BY <1>1, <1>3, <1>5, <1>9 DEF StartFiles, OpenSave
<1>11. Sound(m.game) => ToolMade("tool rest", x)'
  <2> SUFFICES ASSUME Sound(m.game) PROVE ToolMade("tool rest", x)'
    OBVIOUS
  <2>1. x.state.made \ {x.state.at} \subseteq Present /\ Present' = Present
    BY <1>1, <1>3, <1>5 DEF ToolMade, Present
  <2> QED BY <1>5, <1>7, <1>9, <2>1 DEF ToolMade
<1>12. Undisturbed(m.game) => ToolWhole("tool rest", x)'
  <2> SUFFICES ASSUME Undisturbed(m.game) PROVE ToolWhole("tool rest", x)'
    OBVIOUS
  <2>1. PICK g, k : g = m.game /\ k = kept[g]
    OBVIOUS
  <2>2. m.state = StateOf(g, k) /\ m.cur = CopyOf(g, k, k.at)
        /\ \E q \in Procs : \A l \in Levels :
             levels[l] = IF l = k.at THEN NoFile ELSE FileOf(q, g, k, l)
    BY <1>1, <1>3, <2>1 DEF ToolWhole
  <2>3. m.state.at = k.at
    <3>1. m.state = StateOf(g, k)
      BY <2>2
    <3> QED BY <3>1, SnapshotParts
  <2>4. k.at \in k.made
    BY <1>2, <2>1 DEF Safe, Coherent
  <2>5. x.game = g /\ kept'[g] = k /\ x.state = StateOf(g, k) /\ levels' = levels
    BY <1>1, <1>5, <2>1, <2>2
  <2>6. DOMAIN save'.levels = {k.at} /\ save'.levels[k.at] = CopyOf(g, k, k.at)
    BY <1>7, <1>9, <2>2, <2>3
  <2> QED BY <2>2, <2>4, <2>5, <2>6 DEF ToolWhole
<1>13. lock'.kind = "none"
  BY <1>1, Kinds
<1> QED BY <1>1, <1>2, <1>4, <1>5, <1>6, <1>9, <1>10, <1>11, <1>12, <1>13, ToolSafely

LEMMA SafeToolRest ==
  ASSUME IInv, Safe, ~rivalry, NEW p \in Procs, CopiesRest(p) PROVE Safe'
<1> DEFINE m == mem[p]
           rest == {l \in Levels : levels[l] # NoFile}
<1>1. /\ pc[p] = "tool rest" /\ pc[p] \in AtRecovery /\ pc[p] \in AtTool /\ lock' = lock
      /\ UNCHANGED <<readable, now, kept, over, torn, littered, rivalry, accused>>
  BY DEF CopiesRest, recover_tool_step, recover_tool_copy, AtRecovery, AtTool
<1>2. /\ Alone(p) /\ Place(p, pc[p], m) /\ m.game \in Games /\ m.state.game = m.game
      /\ kept[m.game] # Nowhere
  BY <1>1, AtRecoverySafe
<1>3. /\ lock = NoFile /\ OpenSave(p) /\ save.state = m.state
      /\ Sound(m.game) => ToolMade(pc[p], m)
      /\ Undisturbed(m.game) => ToolWhole(pc[p], m)
  BY <1>1, <1>2 DEF Place, StartFiles
<1>4. lock.kind = "none" /\ save.kind = "save" /\ readable
  BY <1>3, Kinds DEF OpenSave
<1>5. ASSUME NEW h \in Games, h # m.game PROVE ~(Undisturbed(h) /\ kept[h] # Nowhere)
  <2> SUFFICES ASSUME Undisturbed(h), kept[h] # Nowhere PROVE FALSE
    OBVIOUS
  <2>1. ~InHand(h)
    BY <1>2, <1>5, InHandNow
  <2>2. Findable(h)
    BY <2>1 DEF Safe, Resumable
  <2>3. ~(\E q \in Procs : Whole(h, q))
    BY <1>4 DEF Whole
  <2>4. save.state = StateOf(h, kept[h])
    BY <2>2, <2>3 DEF Findable, Saved
  <2>5. save.state.game = h
    BY <2>4, SnapshotParts
  <2> QED BY <1>2, <1>3, <1>5, <2>5
<1>6. PICK x : x = m
  OBVIOUS
<1>7. PICK g, k : g = m.game /\ k = kept[g]
  OBVIOUS
<1>8. ASSUME Undisturbed(g)
      PROVE  /\ m.state = StateOf(g, k) /\ DOMAIN save.levels \subseteq k.made
             /\ \A l \in DOMAIN save.levels : save.levels[l] = CopyOf(g, k, l)
             /\ \E q \in Procs : \A l \in Levels :
                  levels[l] = IF l \in DOMAIN save.levels THEN NoFile ELSE FileOf(q, g, k, l)
  BY <1>1, <1>3, <1>7, <1>8 DEF ToolWhole
<1>9. Sound(g) => m.state.made \subseteq DOMAIN save.levels \cup Present
  BY <1>1, <1>3, <1>7 DEF ToolMade
<1>10. CASE pc[p] = "tool rest" /\ Exit(p) /\ rest = {} /\ UNCHANGED <<levels, save>>
  <2>1. Moves(p, "dead", NoGame) /\ "dead" \in Outside
    BY <1>10, MovesOut DEF Outside
  <2>2. Present = {} /\ \A l \in Levels : levels[l] = NoFile
    BY <1>10 DEF Present
  <2>3. ASSUME NEW h \in Games, Undisturbed(h), kept[h] # Nowhere PROVE Saved(h)'
    <3>1. h = g
      BY <1>5, <1>7, <2>3
    <3>2. k.made \in SUBSET Levels
      BY <1>7, <2>3, <3>1 DEF IInv, InvType, HistoryType, Snapshots
    <3>3. k.made \subseteq DOMAIN save.levels
      <4> SUFFICES ASSUME NEW l \in k.made, l \notin DOMAIN save.levels PROVE FALSE
        OBVIOUS
      <4>1. PICK q \in Procs : levels[l] = FileOf(q, g, k, l)
        BY <1>8, <2>3, <3>1, <3>2
      <4>2. levels[l] = NoFile /\ l \in Levels
        BY <2>2, <3>2
      <4>3. FileOf(q, g, k, l) = LevelFile(q, g, k.floor[l])
        BY FileOfParts
      <4>4. LevelFile(q, g, k.floor[l]) # NoFile
        BY DEF LevelFile, NoFile
      <4> QED BY <4>1, <4>2, <4>3, <4>4
    <3>4. DOMAIN save.levels = k.made /\ \A l \in DOMAIN save.levels : save.levels[l] = CopyOf(g, k, l)
      BY <1>8, <2>3, <3>1, <3>3
    <3>5. save.levels \in Partial(Levels, Copy)
      BY <1>4, SaveParts DEF IInv, InvType, DiskType
    <3>6. save.levels = [l \in k.made |-> CopyOf(g, k, l)]
      BY <3>4, <3>5, PartialParts
    <3>7. kept'[g] = k /\ save' = save /\ readable'
      BY <1>1, <1>4, <1>7, <1>10
    <3>8. save'.levels = [l \in kept'[g].made |-> CopyOf(g, kept'[g], l)]
      BY <3>6, <3>7
    <3> QED BY <1>3, <1>4, <1>8, <2>3, <3>1, <3>7, <3>8 DEF Saved
  <2>4. \A h \in Games : Resumable(h)'
    BY <1>1, <1>4, <2>3 DEF Resumable, Findable, Undisturbed
  <2>5. ASSUME NEW h \in Games PROVE LevelsThere(h)'
    <3> SUFFICES ASSUME Sound(h), save.state.game = h PROVE save.state.made \subseteq DOMAIN save.levels
      BY <1>1, <1>4, <1>10 DEF LevelsThere, Sound
    <3> QED BY <1>2, <1>3, <1>7, <1>9, <2>2
  <2>6. \A h \in Games : Undisturbed(h)' => Coherent(now'[h]) /\ Coherent(kept'[h])
    BY <1>1 DEF Undisturbed, Safe
  <2>7. OneGame' /\ (save' = NoFile => readable') /\ accused' = {}
    BY <1>1, <1>4, <1>10 DEF OneGame, Safe
  <2> QED BY <1>2, <2>1, <2>4, <2>5, <2>6, <2>7, Stepped
<1>11. ASSUME NEW l \in rest, save' = Appended(p, l), levels' = [levels EXCEPT ![l] = NoFile],
              UNCHANGED <<pc, mem>>
       PROVE  Safe'
  <2>1. Moves(p, "tool rest", x) /\ "tool rest" \in AtTool
    <3>1. mem' = [mem EXCEPT ![p] = x]
      BY <1>6, <1>11 DEF IInv, InvType, PlacesType
    <3>2. Moves(p, pc[p], x)
      BY <1>11, <3>1, MovesNot
    <3> QED BY <1>1, <3>2 DEF AtTool
  <2>2. /\ save'.kind = "save" /\ save'.by = p /\ save'.state = save.state
        /\ DOMAIN save'.levels = DOMAIN save.levels \cup {l} /\ save'.levels[l] = Copies[l]
        /\ \A j \in DOMAIN save.levels \ {l} : save'.levels[j] = save.levels[j]
    BY <1>3, <1>11, AppendedParts
  <2>3. levels'[l] = NoFile /\ \A j \in Levels \ {l} : levels'[j] = levels[j]
    BY <1>11 DEF IInv, InvType, DiskType
  <2>4. StartFiles(p, "tool rest", x)'
    BY <1>1, <1>3, <1>4, <1>6, <2>2 DEF StartFiles, OpenSave
  <2>5. Sound(g) => ToolMade("tool rest", x)'
    <3>1. Present \subseteq Present' \cup {l}
      BY <2>3 DEF Present
    <3> QED BY <1>6, <1>9, <2>2, <3>1 DEF ToolMade
  <2>6. Undisturbed(g) => ToolWhole("tool rest", x)'
    <3> SUFFICES ASSUME Undisturbed(g) PROVE ToolWhole("tool rest", x)'
      OBVIOUS
    <3>1. PICK q \in Procs : \A j \in Levels :
            levels[j] = IF j \in DOMAIN save.levels THEN NoFile ELSE FileOf(q, g, k, j)
      BY <1>8
    <3>2. levels[l] # NoFile /\ l \notin DOMAIN save.levels /\ levels[l] = FileOf(q, g, k, l)
      BY <3>1
    <3>3. l \in k.made
      BY <3>2, FileOfParts
    <3>4. Copies[l] = CopyOf(g, k, l)
      BY <3>2, <3>3, CopyParts
    <3>5. \A j \in DOMAIN save'.levels : save'.levels[j] = CopyOf(g, k, j)
      BY <1>8, <2>2, <3>4
    <3>6. \A j \in Levels :
            levels'[j] = IF j \in DOMAIN save'.levels THEN NoFile ELSE FileOf(q, g, k, j)
      BY <2>2, <2>3, <3>1
    <3>7. x.game = g /\ kept'[g] = k /\ x.state = StateOf(g, k) /\ DOMAIN save'.levels \subseteq k.made
      BY <1>1, <1>6, <1>7, <1>8, <2>2, <3>3
    <3> QED BY <3>5, <3>6, <3>7 DEF ToolWhole
  <2>7. x.game = g /\ g \in Games /\ save'.state.game = g /\ lock'.kind = "none"
    BY <1>1, <1>2, <1>3, <1>4, <1>6, <1>7, <2>2
  <2> QED BY <1>1, <1>2, <1>5, <1>7, <2>1, <2>2, <2>4, <2>5, <2>6, <2>7, ToolSafely
<1> QED BY <1>10, <1>11 DEF CopiesRest, recover_tool_step, recover_tool_copy

LEMMA SafeRecoverToolStep ==
  ASSUME IInv, Safe, ~rivalry, NEW p \in Procs, recover_tool_step(p) PROVE Safe'
<1>1. pc[p] \in {"tool", "tool state", "tool rest"}
  BY DEF recover_tool_step, recover_tool_copy
<1> QED BY <1>1, SafeToolHead, SafeToolState, SafeToolRest DEF CopiesState, CopiesRest

-----------------------------------------------------------------------------
(* A crash *)

LEMMA SafeCrash ==
  ASSUME IInv, Safe, ~rivalry, NEW p \in Procs, crash(p) PROVE Safe'
<1>1. /\ Alive(p) /\ Exit(p)
      /\ torn' = IF InPieces(p) THEN torn \cup {mem[p].game} ELSE torn
      /\ UNCHANGED <<disk, now, kept, over, littered, rivalry, accused>>
  BY DEF crash
<1>2. Moves(p, "dead", NoGame) /\ "dead" \in Outside
  BY <1>1, MovesOut DEF Outside
<1>3. CASE ~Inside(p)
  <2>1. ~InPieces(p)
    BY <1>3 DEF InPieces, Inside
  <2> QED BY <1>1, <1>2, <1>3, <2>1, Bystander
<1>4. CASE Inside(p)
  <2>1. Alone(p)
    BY <1>4, AloneInside
  <2>2. ASSUME NEW g \in Games, InHand(g) PROVE ~Sound(g)' /\ ~Undisturbed(g)'
    <3>1. PICK q \in Procs : InPieces(q) /\ mem[q].game = g
      BY <2>2 DEF InHand
    <3>2. q = p
      <4>1. Inside(q)
        BY <3>1 DEF InPieces, Inside
      <4> QED BY <2>1, <4>1 DEF Alone
    <3> QED BY <1>1, <3>1, <3>2 DEF Sound, Undisturbed
  <2>3. \A g \in Games : (Undisturbed(g)' => Undisturbed(g)) /\ (Sound(g)' => Sound(g))
    BY <1>1 DEF Undisturbed, Sound
  <2>4. \A g \in Games : Findable(g) => Findable(g)'
    BY <1>1 DEF Findable, Whole, Saved, disk
  <2>5. \A g \in Games : Resumable(g)'
    BY <1>1, <2>2, <2>3, <2>4 DEF Safe, Resumable
  <2>6. \A g \in Games : LevelsThere(g)'
    BY <1>1, <2>2, <2>3 DEF Safe, LevelsThere, Present, disk
  <2>7. \A g \in Games : Undisturbed(g)' => Coherent(now'[g]) /\ Coherent(kept'[g])
    BY <1>1, <2>3 DEF Safe
  <2>8. OneGame' /\ (save' = NoFile => readable') /\ accused' = {}
    BY <1>1 DEF OneGame, Safe, disk
  <2> QED BY <1>2, <2>1, <2>5, <2>6, <2>7, <2>8, Stepped
<1> QED BY <1>3, <1>4

-----------------------------------------------------------------------------
(* The theorems *)

LEMMA InitSafe == Init => JInv
<1> SUFFICES ASSUME Init PROVE Safe
  BY DEF JInv
<1>1. \A p \in Procs : ~Inside(p)
  BY DEF Init, Inside
<1>2. \A g \in Games : Resumable(g)
  BY DEF Init, Resumable, Games
<1>3. \A g \in Games : LevelsThere(g)
  BY Kinds DEF Init, LevelsThere
<1>4. \A g \in Games : Coherent(now[g]) /\ Coherent(kept[g])
  BY DEF Init, Coherent, Games
<1>5. OneGame /\ readable /\ accused = {}
  BY Kinds DEF Init, OneGame
<1> QED BY <1>1, <1>2, <1>3, <1>4, <1>5 DEF Safe

LEMMA SafeStays == IInv /\ Safe /\ ~rivalry /\ UNCHANGED vars => Safe'
<1> SUFFICES ASSUME IInv, Safe, ~rivalry, UNCHANGED vars PROVE Safe'
  OBVIOUS
<1>1. UNCHANGED <<disk, now, kept, over, torn, littered, rivalry, accused>> /\ pc' = pc /\ mem' = mem
  BY DEF vars, history
<1>2. \A q \in Procs : (Inside(q)' <=> Inside(q)) /\ (InPieces(q)' <=> InPieces(q))
  BY <1>1 DEF Inside, InPieces
<1>3. \A g : InHand(g)' <=> InHand(g)
  BY <1>1, <1>2 DEF InHand
<1>4. \A g \in Games : Findable(g) => Findable(g)'
  BY <1>1 DEF Findable, Whole, Saved, disk
<1>5. \A g \in Games : Resumable(g)' /\ LevelsThere(g)'
  BY <1>1, <1>3, <1>4 DEF Safe, Resumable, LevelsThere, Undisturbed, Sound, Present, disk
<1>6. ASSUME NEW q \in Procs, Inside(q)' PROVE Place(q, pc[q], mem[q])'
  <2>1. PICK v, x : v = pc[q] /\ x = mem[q]
    OBVIOUS
  <2>2. Place(q, v, x)
    BY <1>2, <1>6, <2>1 DEF Safe
  <2>3. Place(q, v, x)'
    BY <1>1, <2>2, PlaceStays DEF disk
  <2> QED BY <1>1, <2>1, <2>3
<1> QED BY <1>1, <1>2, <1>5, <1>6 DEF Safe, OneGame, Undisturbed, disk

\* Nobody who was a rival once stops being one.
LEMMA RivalryStays ==
  ASSUME Next PROVE rivalry => rivalry'
<1>1. ASSUME NEW p \in Procs, Startup(p) PROVE rivalry => rivalry'
  BY <1>1 DEF Startup, getlock_free, getlock_busy, answer_no, eraseoldlocks, recover_open,
     recover_copy, recover_unlink, recover_gotlock, restore_saved_game, delete_savefile, newgame,
     restlevelfile, Enters, history
<1>2. ASSUME NEW p \in Procs, Playing(p) PROVE rivalry => rivalry'
  BY <1>2 DEF Playing, save_currentlevel, create_levelfile, savestateinlock_check,
     savestateinlock_create, savestateinlock_write, play, goto_level, goto_level_save,
     goto_level_arrive, really_done, tricked, history
<1>3. ASSUME NEW p \in Procs, Saving(p) PROVE rivalry => rivalry'
  BY <1>3 DEF Saving, dosave0, dosave0_state, dosave0_level, dosave0_close, dosave0_unlock,
     tricked, history
<1>4. ASSUME NEW p \in Procs, recover_tool(p) \/ recover_tool_step(p) \/ crash(p)
      PROVE  rivalry => rivalry'
  BY <1>4 DEF recover_tool, recover_tool_step, crash, Enters
<1> QED BY <1>1, <1>2, <1>3, <1>4 DEF Next

LEMMA NextSafe == IInv /\ JInv /\ [Next]_vars => JInv'
<1> SUFFICES ASSUME IInv, JInv, [Next]_vars, ~rivalry' PROVE Safe'
  BY DEF JInv
<1>1. CASE UNCHANGED vars
  BY <1>1, SafeStays DEF JInv, vars, history
<1>2. CASE Next
  <2>1. Safe /\ ~rivalry
    BY <1>2, RivalryStays DEF JInv
  <2>2. ASSUME NEW p \in Procs, Startup(p) PROVE Safe'
    BY <2>1, <2>2, SafeGetlockFree, SafeGetlockBusy, SafeAnswerNo, SafeEraseOldLocks,
       SafeRecoverOpen, SafeRecoverCopy, SafeRecoverUnlink, SafeRecoverGotlock, SafeRestore,
       SafeDeleteSavefile, SafeNewGame, SafeRestLevelFile
       DEF Startup
  <2>3. ASSUME NEW p \in Procs, Playing(p) PROVE Safe'
    BY <2>1, <2>3, SafeSaveCurrentLevel, SafeSavestateCheck, SafeSavestateCreate,
       SafeSavestateWrite, SafePlay, SafeGotoLevel, SafeGotoLevelSave, SafeGotoLevelArrive,
       SafeReallyDone
       DEF Playing
  <2>4. ASSUME NEW p \in Procs, Saving(p) PROVE Safe'
    BY <2>1, <2>4, SafeDosave, SafeDosaveState, SafeDosaveLevel, SafeDosaveClose, SafeDosaveUnlock
       DEF Saving
  <2>5. ASSUME NEW p \in Procs, recover_tool(p) \/ recover_tool_step(p) \/ crash(p) PROVE Safe'
    BY <2>1, <2>5, SafeRecoverTool, SafeRecoverToolStep, SafeCrash
  <2> QED BY <1>2, <2>2, <2>3, <2>4, <2>5 DEF Next
<1> QED BY <1>1, <1>2

\* The inductive invariant: without rivals, one process at most is at the files,
\* and they hold what its next step, or whoever comes after a crash, counts on.
THEOREM FilesCountedOn == Spec => []JInv
<1>1. Init => IInv /\ JInv
  BY InitIInv, InitSafe
<1>2. IInv /\ JInv /\ [Next]_vars => (IInv /\ JInv)'
  BY NextIInv, NextSafe
<1> QED BY <1>1, <1>2, PTL DEF Spec

\* While a game is played, after any number of level changes, saves, crashes and
\* recoveries, the hero and every level he has left are as the player knows
\* them, in the memory and the level files of goto_level() and dorecover().
THEOREM InPlace == Spec => []EverythingInPlace
<1>1. IInv /\ JInv => EverythingInPlace
  <2> SUFFICES ASSUME IInv, JInv, NEW p \in Procs, pc[p] = "play", Undisturbed(mem[p].game)
               PROVE  LET m == mem[p]
                          n == now[m.game]
                      IN /\ m.at = n.at /\ m.inv = n.inv /\ m.made = n.made
                         /\ m.here = n.floor[m.at]
                         /\ \A l \in m.made \ {m.at} :
                              levels[l] = LevelFile(p, m.game, n.floor[l])
    BY DEF EverythingInPlace
  <2> DEFINE m == mem[p]
             n == now[m.game]
  <2>1. Safe /\ pc[p] \in AtGame
    BY DEF JInv, Undisturbed, AtGame
  <2>2. GameWhole(p, pc[p], m) /\ m.made \in SUBSET Levels
    BY <2>1, AtGameSafe
  <2>3. /\ m.at = n.at /\ m.inv = n.inv /\ m.made = n.made /\ m.here = n.floor[n.at]
        /\ \A l \in Levels \ {m.at} : levels[l] = FileOf(p, m.game, n, l)
    BY <2>2 DEF GameWhole
  <2>4. \A l \in m.made \ {m.at} : levels[l] = LevelFile(p, m.game, n.floor[l])
    BY <2>2, <2>3, FileOfParts
  <2> QED BY <2>3, <2>4
<1> QED BY <1>1, FilesAndMemory, FilesCountedOn, PTL

\* Wherever getlock(), the checkpoint of goto_level(), dosave0() or a recovery
\* is cut off, but while it has the game itself in pieces, the last checkpoint
\* or save is on disk, whole.
THEOREM CheckpointOnDisk == Spec => []LastCheckpointOnDisk
<1>1. IInv /\ JInv => LastCheckpointOnDisk
  <2> SUFFICES ASSUME IInv, JInv, NEW g \in Games, Undisturbed(g), kept[g] # Nowhere, ~InHand(g)
               PROVE  OnDisk(g)
    BY DEF LastCheckpointOnDisk, InHand
  <2> DEFINE k == kept[g]
  <2>1. Findable(g)
    BY DEF JInv, Safe, Resumable, Undisturbed
  <2>2. k.made \in SUBSET Levels
    BY DEF IInv, InvType, HistoryType, Snapshots
  <2>3. ASSUME NEW s, s = StateOf(g, k)
        PROVE  s.game = g /\ s.at = k.at /\ s.inv = k.inv /\ s.made = k.made
    BY <2>3 DEF StateOf
  <2>4. ASSUME NEW q \in Procs, Whole(g, q) PROVE OnDisk(g)
    <3>1. lock.kind = "state" /\ lock.state = StateOf(g, k)
          /\ \A l \in Levels : levels[l] = FileOf(q, g, k, l)
      BY <2>4 DEF Whole
    <3>2. \A l \in k.made : l \in DOMAIN Copies /\ Copies[l] = CopyOf(g, k, l)
      BY <2>2, <3>1, CopyParts
    <3>3. IsKept(g, lock.state, Copies)
      BY <2>3, <3>1, <3>2 DEF IsKept, CopyOf
    <3> QED BY <3>1, <3>3 DEF OnDisk
  <2>5. ASSUME Saved(g) PROVE OnDisk(g)
    <3>1. save.kind = "save" /\ readable /\ save.state = StateOf(g, k)
          /\ save.levels = [l \in k.made |-> CopyOf(g, k, l)]
      BY <2>5 DEF Saved
    <3>2. IsKept(g, save.state, save.levels)
      BY <2>3, <3>1 DEF IsKept, CopyOf
    <3> QED BY <3>1, <3>2 DEF OnDisk
  <2> QED BY <2>1, <2>4, <2>5 DEF Findable
<1> QED BY <1>1, FilesAndMemory, FilesCountedOn, PTL

\* done(TRICKED) in savestateinlock(), getlev() and dosave0() is reached only
\* by a game that somebody else was at, that was over, or that died while its
\* files were in pieces.
THEOREM NobodyElseAccused == Spec => []OnlyRivalsAccused
<1>1. JInv => OnlyRivalsAccused
  BY DEF JInv, Safe, OnlyRivalsAccused
<1> QED BY <1>1, FilesCountedOn, PTL
=============================================================================
