----------------------------- MODULE LitObjects -----------------------------
(***************************************************************************)
(* Lamps, candles and burning oil in the hands of the hero and of a pet, on *)
(* the floor of a level, and in the file of a level the hero has left:      *)
(* apply.c, the turn of allmain.c, run_timers() of timeout.c, the level     *)
(* change of do.c with the part of it that save_timers(), restore_timers()  *)
(* and their twins of light.c do.                                           *)
(*                                                                         *)
(* The loop of run_timers() is one step for each timer it finds due; all    *)
(* else is one step for each thing the hero, the pet or an accident does.   *)
(***************************************************************************)
EXTENDS BurnTimers

CONSTANTS
  Stock,         \* the objects a game may start with
  MaxCandles,    \* candles a candelabrum holds (7)
  LampFull,      \* a lamp with more fuel takes no more (1000)
  LampCap,       \* and never holds more than this (1500)
  PrayerTurns,   \* turns a successful prayer takes (3)
  MaxMoves       \* bound: the last turn of the model

ASSUME LitAssumption ==
  /\ Stock \subseteq
       [Objs -> [where : Places \cup {"gone"}, n : Nat, age : Nat,
                 lamplit : {FALSE}, timed : {0}]]
  /\ \A stock \in Stock, o \in Objs :
        stock[o].where # "gone" /\ Kind[o] # "menorah" => stock[o].n > 0
  /\ {MaxCandles, LampFull, LampCap, PrayerTurns, MaxMoves} \subseteq Nat

VARIABLES
  mem,         \* objects, timers and light sources, see BurnTimers
  file,        \* for each level, the timers and lights its file holds
  moves,       \* svm.moves
  level,       \* where the hero is
  petAt,       \* where the pet is
  praying,     \* turns until prayer_done(): u.uinvulnerable is set
  running,     \* inside run_timers()
  skipped      \* history: a turn has gone by without run_timers()

vars == <<mem, file, moves, level, petAt, praying, running, skipped>>

NoLights == [o \in Objs |-> 0]
EmptyFile == [timers |-> {}, lights |-> NoLights]

Init ==
  /\ \E stock \in Stock : mem = [obj |-> stock, timers |-> {}, lights |-> NoLights]
  /\ file = [l \in Levels |-> EmptyFile]
  /\ moves = 1
  /\ level \in Levels /\ petAt = level
  /\ praying = 0 /\ running = FALSE /\ skipped = FALSE

\* The level an object is on, the hero's own included.
LevelOf(o) ==
  CASE mem.obj[o].where = "hero" -> level
    [] mem.obj[o].where = "pet" -> petAt
    [] OTHER -> mem.obj[o].where

\* Objects in the chains in memory
Present(o) == Exists(mem, o) /\ LevelOf(o) = level

\* A place the hero or the pet can put something, or take it from, now
Reachable(place) ==
  \/ place \in {"hero", level}
  \/ place = "pet" /\ petAt = level

OthersAct == ~running
HeroActs == ~running /\ praying = 0

\* Only the objects, timers and lights in memory change.
Only(newmem) ==
  /\ mem' = newmem
  /\ UNCHANGED <<file, moves, level, petAt, praying, running, skipped>>

Carried(o) == mem.obj[o].where = "hero" /\ mem.obj[o].n > 0

-----------------------------------------------------------------------------
(* apply.c *)

\* use_lamp() on an unlit lamp or candle that the hero carries
use_lamp(o) ==
  /\ HeroActs /\ Carried(o) /\ ~mem.obj[o].lamplit
  /\ Kind[o] \in {"lamp", "candle"}
  /\ Kind[o] = "lamp" => mem.obj[o].age # 0
  /\ Only(begin_burn(mem, o, FALSE, moves))

\* use_candelabrum(): away from the vibrating square the fuel is halved, and
\* if none would be left it is made one.
use_candelabrum(o) ==
  LET half == Quotient(mem.obj[o].age + 1, 2)
  IN /\ HeroActs /\ Carried(o) /\ ~mem.obj[o].lamplit
     /\ Kind[o] = "menorah"
     /\ \E age \in {mem.obj[o].age, IF half = 0 THEN 1 ELSE half} :
           Only(begin_burn([mem EXCEPT !.obj[o].age = age], o, FALSE, moves))

\* light_cocktail() on an unlit potion of oil: one of a stack is taken for it.
light_cocktail(o) ==
  /\ HeroActs /\ Carried(o) /\ ~mem.obj[o].lamplit
  /\ Kind[o] = "oil"
  /\ \/ mem.obj[o].n = 1 /\ Only(begin_burn(mem, o, FALSE, moves))
     \/ /\ mem.obj[o].n > 1
        /\ \E p \in Objs :
              /\ Kind[p] = "oil" /\ ~Exists(mem, p)
              /\ Only(begin_burn(splitobj(mem, o, p, 1), p, FALSE, moves))

\* snuff_lit(), snuff_candle() and the branches of the functions above that
\* put a light out; a potion is put back into the inventory and may merge.
snuff_lit(o) ==
  LET dark == end_burn(mem, o, TRUE, moves)
  IN /\ OthersAct /\ Present(o) /\ mem.obj[o].lamplit
     /\ \/ Only(dark)
        \/ /\ HeroActs /\ Carried(o) /\ Kind[o] = "oil"
           /\ \E d \in Objs : /\ mergable(dark, d, o) /\ Carried(d)
                              /\ Only(merged(dark, d, o, moves))

\* catch_lit(): a fire lights what it reaches.
catch_lit(o) ==
  /\ OthersAct /\ Present(o) /\ ~mem.obj[o].lamplit
  /\ mem.obj[o].age # 0 /\ mem.obj[o].n > 0
  /\ Only(begin_burn(mem, o, FALSE, moves))

\* use_candle() from the moment c is the stack that goes onto candelabrum m:
\* the burn of the candles ends first, so that their age is all their fuel.
attached(w, c, m) ==
  LET dark == IF w.obj[c].lamplit THEN end_burn(w, c, TRUE, moves) ELSE w
      fixed == [dark EXCEPT
                  !.obj[m].age = IF dark.obj[m].n = 0 \/ @ > dark.obj[c].age
                                   THEN dark.obj[c].age ELSE @,
                  !.obj[m].n = @ + dark.obj[c].n]
  IN dealloc_obj(fixed, c, moves)

use_candle(c, m) ==
  LET room == MaxCandles - mem.obj[m].n
  IN /\ HeroActs /\ Carried(c) /\ Kind[c] = "candle"
     /\ Kind[m] = "menorah" /\ mem.obj[m].where = "hero" /\ room > 0
     /\ \/ mem.obj[c].n <= room /\ Only(attached(mem, c, m))
        \/ /\ mem.obj[c].n > room
           /\ \E p \in Objs :
                 /\ Kind[p] = "candle" /\ ~Exists(mem, p)
                 /\ Only(attached(splitobj(mem, c, p, room), p, m))

-----------------------------------------------------------------------------
(* potion.c, invent.c, do.c, steal.c, mon.c *)

\* useup(): one of the stack is used.
useup(w, o) ==
  IF w.obj[o].n > 1 THEN [w EXCEPT !.obj[o].n = @ - 1]
                    ELSE dealloc_obj(w, o, moves)

\* potion_dip(): a lamp into oil; if one of them burns the potion explodes.
dip_lamp(o, p) ==
  LET filled == mem.obj[o].age + 2 * mem.obj[p].age
  IN /\ HeroActs /\ Carried(o) /\ Carried(p)
     /\ Kind[o] = "lamp" /\ Kind[p] = "oil"
     /\ \/ mem.obj[o].lamplit \/ mem.obj[p].lamplit
        \/ mem.obj[o].age <= LampFull
     /\ LET used == useup(mem, p)
        IN Only(IF mem.obj[o].lamplit \/ mem.obj[p].lamplit
                  THEN used
                  ELSE [used EXCEPT !.obj[o].age =
                            IF filled > LampCap THEN LampCap ELSE filled])

\* What addinv(), add_to_minv() and stackobj() make of o arriving at a place:
\* it stays apart, or it is merged with a stack that is there already.
Arrivals(w, o, place) ==
  LET here == [w EXCEPT !.obj[o].where = place]
      mates == {d \in Objs : here.obj[d].where = place /\ mergable(here, d, o)}
  IN {here} \cup
     {IF place = level THEN merged(here, o, d, moves) ELSE merged(here, d, o, moves) :
        d \in mates}

\* dropx(), pickup_object(), mpickobj(), mdrop_obj(): all of a stack or one
\* of it changes hands.
transfer(o, place) ==
  LET from == mem.obj[o].where
  IN /\ OthersAct /\ Exists(mem, o)
     /\ Reachable(from) /\ Reachable(place) /\ level \in {from, place}
     /\ from # place
     /\ "hero" \in {from, place} => HeroActs
     /\ \/ \E w \in Arrivals(mem, o, place) : Only(w)
        \/ /\ mem.obj[o].n > 1 /\ Kind[o] # "menorah"
           /\ \E p \in Objs :
                 /\ Kind[p] = Kind[o] /\ ~Exists(mem, p)
                 /\ \E w \in Arrivals(splitobj(mem, o, p, 1), p, place) : Only(w)

\* delobj(), useupall(): something is broken, eaten, drunk or lost.
delobj(o) ==
  /\ OthersAct /\ Present(o)
  /\ Only(dealloc_obj(mem, o, moves))

-----------------------------------------------------------------------------
(* allmain.c, pray.c, timeout.c: time *)

\* dopray() of a prayer that is heard, if it ends within the bound
dopray ==
  /\ HeroActs /\ PrayerTurns > 0 /\ moves + PrayerTurns <= MaxMoves
  /\ praying' = PrayerTurns
  /\ UNCHANGED <<mem, file, moves, level, petAt, running, skipped>>

\* moveloop_core() from moves++: nh_timeout() comes to run_timers() unless the
\* hero is invulnerable; the last of the praying turns ends in prayer_done().
next_turn ==
  /\ OthersAct /\ moves < MaxMoves
  /\ moves' = moves + 1
  /\ praying' = IF praying > 0 THEN praying - 1 ELSE 0
  /\ running' = (praying = 0)
  /\ skipped' = (skipped \/ praying > 0)
  /\ UNCHANGED <<mem, file, level, petAt>>

IsHead(t) ==
  /\ t \in mem.timers /\ t.timeout <= moves
  /\ \A u \in mem.timers : t.timeout <= u.timeout

\* run_timers(): the head of the list, if it is due
run_timer(t) ==
  /\ running /\ IsHead(t)
  /\ mem' = burn_object(unlink_timer(mem, t), t.obj, t.timeout, moves)
  /\ UNCHANGED <<file, moves, level, petAt, praying, running, skipped>>

timers_done ==
  /\ running /\ \A t \in mem.timers : t.timeout > moves
  /\ running' = FALSE
  /\ UNCHANGED <<mem, file, moves, level, petAt, praying, skipped>>

-----------------------------------------------------------------------------
(* do.c: the hero takes the stairs, and the pet may come along *)

\* obj_is_local(): what the hero, or a pet that comes along, carries is not.
obj_is_local(o, follows) ==
  /\ Present(o) /\ mem.obj[o].where # "hero"
  /\ mem.obj[o].where = "pet" => ~follows

\* save_timers() and save_light_sources() of RANGE_LEVEL: what they write...
saved(follows) ==
  [timers |-> {t \in mem.timers : obj_is_local(t.obj, follows)},
   lights |-> [o \in Objs |-> IF obj_is_local(o, follows) THEN mem.lights[o] ELSE 0]]

\* Mutant: the two levels are mixed up.
restored_swapped(follows, f) ==
  [mem EXCEPT !.timers = (@ \ saved(follows).timers) \cup f.timers,
              !.lights = [o \in Objs |-> @[o] - f.lights[o]
                                              + saved(follows).lights[o]]]

\* ...leaves memory, and restore_timers() and restore_light_sources() add
\* what the file of the level arrived at holds.
restored(follows, f) ==
  [mem EXCEPT !.timers = (@ \ saved(follows).timers) \cup f.timers,
              !.lights = [o \in Objs |-> @[o] - saved(follows).lights[o]
                                              + f.lights[o]]]

\* Mutant: the timers of the level that is left stay in memory as well.
goto_level_kept(l, follows) ==
  /\ HeroActs /\ l # level
  /\ mem' = [mem EXCEPT !.timers = @ \cup file[l].timers,
                        !.lights = restored(follows, file[l]).lights]
  /\ file' = [file EXCEPT ![level] = saved(follows), ![l] = EmptyFile]
  /\ level' = l
  /\ petAt' = IF petAt = level /\ follows THEN l ELSE petAt
  /\ running' = TRUE
  /\ UNCHANGED <<moves, praying, skipped>>

\* Mutant: the hero arrives and nothing that went off meanwhile is looked at.
goto_level_unaged(l, follows) ==
  /\ HeroActs /\ l # level
  /\ mem' = restored(follows, file[l])
  /\ file' = [file EXCEPT ![level] = saved(follows), ![l] = EmptyFile]
  /\ level' = l
  /\ petAt' = IF petAt = level /\ follows THEN l ELSE petAt
  /\ UNCHANGED <<moves, praying, running, skipped>>

\* goto_level(): keepdogs(), savelev(), getlev(), losedogs(), run_timers()
goto_level(l, follows) ==
  /\ HeroActs /\ l # level
  /\ mem' = restored(follows, file[l])
  /\ file' = [file EXCEPT ![level] = saved(follows), ![l] = EmptyFile]
  /\ level' = l
  /\ petAt' = IF petAt = level /\ follows THEN l ELSE petAt
  /\ running' = TRUE
  /\ UNCHANGED <<moves, praying, skipped>>

HeroNext ==
  \/ \E o \in Objs : use_lamp(o) \/ use_candelabrum(o) \/ light_cocktail(o)
  \/ \E o, p \in Objs : use_candle(o, p) \/ dip_lamp(o, p)
  \/ \E l \in Levels, follows \in BOOLEAN : goto_level(l, follows)
  \/ dopray

OtherNext ==
  \/ \E o \in Objs : snuff_lit(o) \/ catch_lit(o) \/ delobj(o)
  \/ \E o \in Objs, place \in Places : transfer(o, place)

TimeNext ==
  \/ next_turn
  \/ \E t \in mem.timers : run_timer(t)
  \/ timers_done

Next == HeroNext \/ OtherNext \/ TimeNext

Spec == Init /\ [][Next]_vars

-----------------------------------------------------------------------------
(* Properties *)

LitTypeOK ==
  /\ mem.obj \in [Objs -> [where : Places \cup {"gone"}, n : Nat, age : Int,
                           lamplit : BOOLEAN, timed : 0..1]]
  /\ mem.timers \subseteq [obj : Objs, timeout : Int]
  /\ mem.lights \in [Objs -> 0..1]
  /\ file \in [Levels -> [timers : SUBSET [obj : Objs, timeout : Int],
                          lights : [Objs -> 0..1]]]
  /\ moves \in Nat /\ level \in Levels /\ petAt \in Levels /\ praying \in Nat
  /\ running \in BOOLEAN /\ skipped \in BOOLEAN

\* The timers and the number of lights that belong to an object, wherever the
\* hero is: those of a level he has left are in its file.
Timers(o) == TimersOf(mem, o) \cup UNION {TimersOf(file[l], o) : l \in Levels}
Away(o) == Exists(mem, o) /\ LevelOf(o) # level
Lights(o) == IF Away(o) THEN file[LevelOf(o)].lights[o] ELSE mem.lights[o]

\* An object that is lit has one light source and one burn timer, and timed
\* counts it; one that is not lit has neither.  begin_burn(), end_burn(),
\* cleanup_burn(), splitting, merging and attaching each keep three places in
\* step, and timer_sanity_check() and "impossible" messages look for the rest.
LitHasLightAndTimer ==
  \A o \in Objs :
    IF mem.obj[o].lamplit
      THEN /\ Lights(o) = 1 /\ mem.obj[o].timed = 1
           /\ \E t \in Timers(o) : Timers(o) = {t}
      ELSE Lights(o) = 0 /\ mem.obj[o].timed = 0 /\ Timers(o) = {}

\* Every timer and light source in memory is about an object that exists and
\* is in memory, and those in the file of a level are about objects left on
\* that level: relink_timers() and relink_light_sources() panic otherwise.
NothingDangling ==
  /\ \A t \in mem.timers : Present(t.obj)
  /\ \A o \in Objs : mem.lights[o] > 0 => Present(o)
  /\ \A l \in Levels :
        /\ \A t \in file[l].timers : Away(t.obj) /\ LevelOf(t.obj) = l
        /\ \A o \in Objs : file[l].lights[o] > 0 => Away(o) /\ LevelOf(o) = l

\* Unless a prayer held run_timers() back, no timer in memory is overdue while
\* anybody acts, even just after the hero came back to lights that burned on
\* without him, and fuel is never negative.
NothingOverdue ==
  ~skipped /\ ~running =>
    /\ \A t \in mem.timers : t.timeout > moves
    /\ \A o \in Objs : mem.obj[o].age >= 0

\* Fuel as FuelClock knows it: the age, and what is left of the timer, if that
\* comes to anything; a timer that a prayer kept from going off may be overdue.
left(o) ==
  mem.obj[o].age +
    (IF Timers(o) = {} THEN 0 ELSE (CHOOSE t \in Timers(o) : TRUE).timeout - moves)

fuelOf(o) == IF left(o) > 0 THEN left(o) ELSE 0

Clock == INSTANCE FuelClock WITH
  fuel <- [o \in Objs |-> fuelOf(o)],
  burning <- {o \in Objs : mem.obj[o].lamplit},
  settling <- running

\* Timers, magic times, splitting, merging and the files of other levels add
\* up to a plain clock: a light burns one unit a turn wherever the hero is,
\* run_timers() puts out just those whose fuel is used up and touches no
\* other, and what is done with lights makes no fuel from nothing.
RefinesClock == Clock!ClockSpec

\* burn_object() says of a candle or potion whose timer is found late "we know
\* this object isn't carried by hero" (src/nethack-c/src/timeout.c:1410).
LateIsNotCarried ==
  \A t \in mem.timers :
    running /\ IsHead(t) /\ t.timeout # moves /\ Kind[t.obj] \in {"candle", "oil"}
      => mem.obj[t.obj].where # "hero"

\* The comment is wrong after a prayer only: as long as no turn went by without
\* run_timers(), nothing of any kind that the hero carries is found late, though
\* he may carry it to other levels, leave it there and come back for it.
LateOnlyAfterPrayer ==
  ~skipped /\ running =>
    \A t \in mem.timers : t.timeout < moves => mem.obj[t.obj].where # "hero"

=============================================================================
