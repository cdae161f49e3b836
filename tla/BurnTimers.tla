----------------------------- MODULE BurnTimers -----------------------------
(***************************************************************************)
(* The burn timers and light sources of lamps, candles and burning oil:     *)
(* timeout.c (start_timer to cleanup_burn), light.c, and splitobj, merged   *)
(* and dealloc_obj where they touch them.  A function of the program is an  *)
(* operator from the memory w it finds to the memory it leaves.             *)
(*                                                                         *)
(* w.obj[o]     the object in slot o: stack size n (number of candles for a *)
(*              candelabrum), age, lamplit, timed, and where it is          *)
(* w.timers     the burn timers of timer_base, as [obj, timeout]; the list  *)
(*              is kept in order of timeout, so its head is a least one     *)
(* w.lights[o]  how many elements of light_base are about o                 *)
(*                                                                         *)
(* While an object burns, age is the fuel that will be left when its timer  *)
(* goes off: the next of the "magic times" at which a message is due.       *)
(***************************************************************************)
EXTENDS Integers, FiniteSets, FiniteSetsExt

CONSTANTS
  Objs,      \* slots for objects
  Kind,      \* what each slot can hold: "lamp", "candle", "oil", "menorah"
  Levels,    \* the dungeon levels
  Marks,     \* the magic times of each kind, zero left out; oil has none
  AgeBand    \* candles whose ages are in the same band merge (25)

Places == {"hero", "pet"} \cup Levels

ASSUME BurnAssumption ==
  /\ Kind \in [Objs -> {"lamp", "candle", "oil", "menorah"}]
  /\ \A k \in {"lamp", "candle", "oil", "menorah"} :
        Marks[k] \subseteq Nat \ {0} /\ IsFiniteSet(Marks[k])
  /\ Marks["oil"] = {}
  /\ AgeBand \in Nat \ {0}
  /\ {"hero", "pet", "gone"} \cap Levels = {}

NoObject == [where |-> "gone", n |-> 0, age |-> 0, lamplit |-> FALSE, timed |-> 0]

Exists(w, o) == w.obj[o].where # "gone"
TimersOf(w, o) == {t \in w.timers : t.obj = o}

-----------------------------------------------------------------------------
(* light.c *)

\* new_light_core(): nothing looks for an element about the same object.
new_light_source(w, o) == [w EXCEPT !.lights[o] = @ + 1]

\* del_light_source(): one element, if any is found.
del_light_source(w, o) == [w EXCEPT !.lights[o] = IF @ > 0 THEN @ - 1 ELSE @]

-----------------------------------------------------------------------------
(* timeout.c: the list of timers *)

\* insert_timer() and timed++, after start_timer() found no duplicate.
start_timer(w, o, timeout) ==
  [w EXCEPT !.timers = @ \cup {[obj |-> o, timeout |-> timeout]},
            !.obj[o].timed = @ + 1]

\* remove_timer() and timed--
unlink_timer(w, t) ==
  [w EXCEPT !.timers = @ \ {t}, !.obj[t.obj].timed = @ - 1]

\* cleanup_burn()
cleanup_burn(w, o, expire, now) ==
  IF w.obj[o].lamplit
    THEN [del_light_source(w, o) EXCEPT !.obj[o].lamplit = FALSE,
                                        !.obj[o].age = @ + expire - now]
    ELSE w

\* stop_timer(): the cleanup function of a burn timer is cleanup_burn().
stop_timer(w, o, now) ==
  IF TimersOf(w, o) = {}
    THEN w
    ELSE LET t == CHOOSE u \in TimersOf(w, o) : TRUE
         IN cleanup_burn(unlink_timer(w, t), o, t.timeout, now)

\* obj_stop_timers(): an object has one timer of a type at most.
obj_stop_timers(w, o, now) ==
  IF TimersOf(w, o) = {}
    THEN [w EXCEPT !.obj[o].timed = 0]
    ELSE LET t == CHOOSE u \in TimersOf(w, o) : TRUE
         IN cleanup_burn([w EXCEPT !.timers = @ \ TimersOf(w, o),
                                   !.obj[o].timed = 0], o, t.timeout, now)

\* obj_split_timers(): the copy gets a timer that ends at the same time.
obj_split_timers(w, src, dest) ==
  IF TimersOf(w, src) = {}
    THEN w
    ELSE LET t == CHOOSE u \in TimersOf(w, src) : TRUE
         IN start_timer(w, dest, t.timeout)

-----------------------------------------------------------------------------
(* timeout.c: burning *)

\* The turns until the next magic time of an object with this fuel.
turns_to_burn(o, age) ==
  LET below == {m \in Marks[Kind[o]] : m < age}
  IN IF below = {} THEN age ELSE age - Max(below)

\* begin_burn()
begin_burn(w, o, already_lit, now) ==
  LET turns == turns_to_burn(o, w.obj[o].age)
      lit == [start_timer(w, o, now + turns) EXCEPT !.obj[o].lamplit = TRUE,
                                                    !.obj[o].age = @ - turns]
  IN CASE w.obj[o].age = 0 -> w
       [] w.obj[o].age # 0 /\ TimersOf(w, o) # {} ->
            [w EXCEPT !.obj[o].lamplit = FALSE]
       [] OTHER -> IF already_lit THEN lit ELSE new_light_source(lit, o)

\* Mutant: the light goes out and its timer runs on.
end_burn_untimed(w, o, timer_attached, now) ==
  IF w.obj[o].lamplit
    THEN [del_light_source(w, o) EXCEPT !.obj[o].lamplit = FALSE]
    ELSE w

\* end_burn()
end_burn(w, o, timer_attached, now) ==
  CASE ~w.obj[o].lamplit -> w
    [] w.obj[o].lamplit /\ timer_attached -> stop_timer(w, o, now)
    [] OTHER -> [del_light_source(w, o) EXCEPT !.obj[o].lamplit = FALSE]

\* dealloc_obj(), with the obfree() and obj_extract_self() before it
dealloc_obj(w, o, now) ==
  LET stopped == IF w.obj[o].timed # 0 THEN obj_stop_timers(w, o, now) ELSE w
      dark == IF stopped.obj[o].lamplit THEN del_light_source(stopped, o)
                                        ELSE stopped
  IN [dark EXCEPT !.obj[o] = NoObject]

\* What is left when the fuel is used up: a lamp, an empty candelabrum, nothing.
burnt_out(w, o, now) ==
  LET dark == end_burn(w, o, FALSE, now)
  IN CASE Kind[o] = "lamp" -> dark
       [] Kind[o] = "menorah" -> [dark EXCEPT !.obj[o].n = 0]
       [] OTHER -> dealloc_obj(dark, o, now)

\* Mutant: a light that was away starts again with all its fuel.
burn_object_rested(w, o, timeout, now) ==
  IF w.obj[o].age = 0 THEN burnt_out(w, o, now) ELSE begin_burn(w, o, TRUE, now)

\* burn_object(): called with its timer off the list.  When it is called
\* late the fuel of the turns in between is gone as well.
burn_object(w, o, timeout, now) ==
  LET how_long == now - timeout
  IN IF how_long # 0
       THEN IF how_long >= w.obj[o].age
              THEN burnt_out([w EXCEPT !.obj[o].age = 0], o, now)
              ELSE begin_burn([w EXCEPT !.obj[o].age = @ - how_long], o, TRUE, now)
       ELSE IF w.obj[o].age = 0 \/ Kind[o] = "oil"
              THEN burnt_out(w, o, now)
              ELSE begin_burn(w, o, TRUE, now)

-----------------------------------------------------------------------------
(* mkobj.c, invent.c: stacks *)

\* splitobj(), obj_split_timers(), obj_split_light_source()
splitobj(w, o, p, num) ==
  LET copy == [w EXCEPT !.obj[p] = [w.obj[o] EXCEPT !.n = num, !.timed = 0,
                                                    !.lamplit = FALSE],
                        !.obj[o].n = @ - num]
      timed == IF w.obj[o].timed # 0 THEN obj_split_timers(copy, o, p) ELSE copy
  IN IF w.obj[o].lamplit /\ w.lights[o] > 0
       THEN [timed EXCEPT !.lights[p] = w.lights[o], !.obj[p].lamplit = TRUE]
       ELSE timed

\* Division as C does it, towards zero.
Quotient(a, b) == IF a < 0 THEN -((-a) \div b) ELSE a \div b

\* mergable(): two stacks the player cannot tell apart otherwise
mergable(w, d, s) ==
  /\ d # s /\ Kind[d] = Kind[s] /\ Kind[d] \in {"candle", "oil"}
  /\ Exists(w, d) /\ Exists(w, s)
  /\ w.obj[d].lamplit = w.obj[s].lamplit
  /\ Kind[d] = "candle" => Quotient(w.obj[d].age, AgeBand) = Quotient(w.obj[s].age, AgeBand)
  /\ Kind[d] = "oil" => ~w.obj[s].lamplit

\* obj_merge_light_sources(): the light of the stack that is folded in ends.
obj_merge_light_sources(w, s, d, now) ==
  IF s # d THEN end_burn(w, s, TRUE, now) ELSE w

\* merged(): the age is averaged only if nothing burns.
merged(w, d, s, now) ==
  LET all == w.obj[d].n + w.obj[s].n
      mean == Quotient(w.obj[d].age * w.obj[d].n + w.obj[s].age * w.obj[s].n, all)
      folded == [w EXCEPT !.obj[d].n = all,
                          !.obj[d].age = IF w.obj[s].lamplit THEN @ ELSE mean]
      dark == IF w.obj[s].lamplit THEN obj_merge_light_sources(folded, s, d, now)
                                  ELSE folded
  IN dealloc_obj(dark, s, now)

=============================================================================
