------------------------- MODULE LitObjects_proofs -------------------------
(***************************************************************************)
(* Proofs about LitObjects, for every set of objects, levels, magic times   *)
(* and every bound.  Each operator of BurnTimers is shown to put one object *)
(* into a new state and leave the others alone (Put); a step of the model   *)
(* puts one or two objects that are in memory.  The sum of age and timer    *)
(* (FuelIn) is followed through each of them, which makes the model an      *)
(* implementation of FuelClock.                                             *)
(***************************************************************************)
EXTENDS LitObjects, FiniteSetTheorems, WellFoundedInduction, TLAPS

-----------------------------------------------------------------------------
(* Memory, object by object *)

Things == [where : Places \cup {"gone"}, n : Nat, age : Int, lamplit : BOOLEAN,
           timed : 0..1]
BurnTimer == [obj : Objs, timeout : Int]
Memories == [obj : [Objs -> Things], timers : SUBSET BurnTimer, lights : [Objs -> 0..1]]

\* v is w with object o made x, with the timers T and k light sources.
Put(w, v, o, x, T, k) ==
  /\ v \in Memories
  /\ v.obj = [w.obj EXCEPT ![o] = x]
  /\ v.timers = {t \in w.timers : t.obj # o} \cup T
  /\ v.lights = [w.lights EXCEPT ![o] = k]

\* lamplit, the light source and the timer of an object agree.
InStep(w, o) ==
  IF w.obj[o].lamplit
    THEN /\ w.lights[o] = 1 /\ w.obj[o].timed = 1
         /\ \E t \in BurnTimer : TimersOf(w, o) = {t}
    ELSE w.lights[o] = 0 /\ w.obj[o].timed = 0 /\ TimersOf(w, o) = {}

\* Its fuel is not negative and its timer is still to come.
Fresh(w, o, now) ==
  w.obj[o].age >= 0 /\ \A t \in TimersOf(w, o) : t.timeout > now

Same(v, w, o) ==
  /\ v.obj[o] = w.obj[o] /\ v.lights[o] = w.lights[o]
  /\ TimersOf(v, o) = TimersOf(w, o)

\* Its fuel: its age and what is left of its timer, which may be overdue.
FuelIn(w, o, now) ==
  w.obj[o].age +
    (IF TimersOf(w, o) = {} THEN 0 ELSE (CHOOSE t \in TimersOf(w, o) : TRUE).timeout - now)

\* v is w but for the objects in D, which are in step.
Changed(w, v, D, now) ==
  /\ v \in Memories
  /\ \A q \in Objs \ D : Same(v, w, q)
  /\ \A q \in D : InStep(v, q)
  /\ (\A q \in D : Fresh(w, q, now)) => \A q \in D : Fresh(v, q, now)

\* The fuel of an object in state x with timer t
FuelWith(x, t, now) == x.age + t.timeout - now

LEMMA FuelUntimed ==
  ASSUME NEW w \in Memories, NEW o \in Objs, NEW now \in Int, TimersOf(w, o) = {}
  PROVE  FuelIn(w, o, now) = w.obj[o].age
<1>1. w.obj[o].age \in Int
  BY DEF Memories, Things
<1> QED BY <1>1 DEF FuelIn

LEMMA FuelTimed ==
  ASSUME NEW w \in Memories, NEW o \in Objs, NEW now \in Int, NEW t \in BurnTimer,
         TimersOf(w, o) = {t}
  PROVE  FuelIn(w, o, now) = FuelWith(w.obj[o], t, now)
<1>1. w.obj[o].age \in Int /\ t.timeout \in Int
  BY DEF Memories, Things, BurnTimer
<1>2. (CHOOSE u \in TimersOf(w, o) : TRUE) = t /\ TimersOf(w, o) # {}
  OBVIOUS
<1> QED BY <1>1, <1>2 DEF FuelIn, FuelWith

LEMMA FuelInt ==
  ASSUME NEW w \in Memories, NEW o \in Objs, NEW now \in Int
  PROVE  FuelIn(w, o, now) \in Int
<1>1. w.obj[o].age \in Int /\ w.timers \subseteq BurnTimer
  BY DEF Memories, Things
<1>2. CASE TimersOf(w, o) = {}
  BY <1>1, <1>2, FuelUntimed
<1>3. CASE TimersOf(w, o) # {}
  <2> DEFINE t == CHOOSE u \in TimersOf(w, o) : TRUE
  <2>1. t \in TimersOf(w, o)
    BY <1>3
  <2>2. t.timeout \in Int
    BY <1>1, <2>1 DEF BurnTimer, TimersOf
  <2>3. FuelIn(w, o, now) = w.obj[o].age + (t.timeout - now)
    BY <1>3 DEF FuelIn
  <2> HIDE DEF t
  <2> QED BY <1>1, <2>2, <2>3
<1> QED BY <1>2, <1>3

LEMMA FuelSame ==
  ASSUME NEW v, NEW w, NEW o, Same(v, w, o), NEW now
  PROVE  FuelIn(v, o, now) = FuelIn(w, o, now)
BY DEF Same, FuelIn

LEMMA FuelGone ==
  ASSUME NEW w \in Memories, NEW o \in Objs, NEW now \in Int, InStep(w, o),
         w.obj[o] = NoObject
  PROVE  FuelIn(w, o, now) = 0
BY FuelUntimed DEF InStep, NoObject

\* This much fuel is none, or some object of D had as much.
Had(fuel, w, D, now) == fuel <= 0 \/ \E p \in D : fuel <= FuelIn(w, p, now)

\* Changed, and the objects of D have no fuel that is not from among them.
Handled(w, v, D, now) ==
  Changed(w, v, D, now) /\ \A q \in D : Had(FuelIn(v, q, now), w, D, now)

LEMMA HadLess ==
  ASSUME NEW w \in Memories, NEW D \in SUBSET Objs, NEW now \in Int,
         NEW x \in Int, NEW y \in Int, x <= y, Had(y, w, D, now)
  PROVE  Had(x, w, D, now)
<1>1. CASE y <= 0
  BY <1>1 DEF Had
<1>2. ASSUME NEW p \in D, y <= FuelIn(w, p, now) PROVE Had(x, w, D, now)
  <2>1. FuelIn(w, p, now) \in Int
    BY FuelInt
  <2>2. x <= FuelIn(w, p, now)
    BY <1>2, <2>1
  <2> QED BY <2>2 DEF Had
<1> QED BY <1>1, <1>2 DEF Had

\* One object changes and its fuel does not.
LEMMA HandledOne ==
  ASSUME NEW w \in Memories, NEW v, NEW o \in Objs, NEW now \in Int,
         Changed(w, v, {o}, now), FuelIn(v, o, now) = FuelIn(w, o, now)
  PROVE  Handled(w, v, {o}, now)
<1>1. FuelIn(w, o, now) \in Int
  BY FuelInt
<1>2. Had(FuelIn(v, o, now), w, {o}, now)
  BY <1>1 DEF Had
<1> QED BY <1>2 DEF Handled

\* Two objects change, and their fuel comes from among them.
LEMMA HandledTwo ==
  ASSUME NEW w \in Memories, NEW v, NEW o \in Objs, NEW p \in Objs, NEW now \in Int,
         Changed(w, v, {o, p}, now),
         \A q \in {o, p} : \/ FuelIn(v, q, now) <= 0
                          \/ FuelIn(v, q, now) <= FuelIn(w, o, now)
                          \/ FuelIn(v, q, now) <= FuelIn(w, p, now)
  PROVE  Handled(w, v, {o, p}, now)
BY DEF Handled, Had

LEMMA MaxExists ==
  ASSUME NEW S \in SUBSET Nat, S # {}, NEW bound \in Int, \A x \in S : x < bound
  PROVE  Max(S) \in S
<1> DEFINE T == {x .. bound : x \in S}
           R == StrictSubsetOrdering(Int)
<1>1. \A x \in S : x .. bound \subseteq Int /\ IsFiniteSet(x .. bound)
  BY FS_Interval
<1>2. T \subseteq FiniteSubsetsOf(Int)
  BY <1>1 DEF FiniteSubsetsOf
<1>3. T # {}
  OBVIOUS
<1>4. IsWellFoundedOn(R, FiniteSubsetsOf(Int))
  BY FS_StrictSubsetOrderingWellFounded
<1>5. PICK m \in T : \A y \in T : ~(<<y, m>> \in R)
  <2> HIDE DEF T, R
  <2> QED BY <1>2, <1>3, <1>4, WFMin, Zenon
<1>6. PICK x \in S : m = x .. bound
  OBVIOUS
<1>7. \A y \in S : x >= y
  <2> SUFFICES ASSUME NEW y \in S, y > x PROVE FALSE
    OBVIOUS
  <2>1. y .. bound \in T
    OBVIOUS
  <2>2. y .. bound \subseteq m /\ x \in m /\ x \notin y .. bound
    BY <1>6
  <2>3. <<y .. bound, m>> \in R
    BY <2>2, <1>6 DEF StrictSubsetOrdering
  <2> QED BY <2>1, <2>3, <1>5
<1> QED BY <1>7 DEF Max

\* The next magic time is ahead, and the fuel reaches it.
LEMMA TurnsToBurn ==
  ASSUME NEW o \in Objs, NEW age \in Int
  PROVE  /\ turns_to_burn(o, age) \in Int
         /\ age > 0 => turns_to_burn(o, age) > 0 /\ turns_to_burn(o, age) <= age
         /\ Kind[o] = "oil" => turns_to_burn(o, age) = age
<1> DEFINE below == {m \in Marks[Kind[o]] : m < age}
<1>1. Marks[Kind[o]] \subseteq Nat \ {0} /\ (Kind[o] = "oil" => below = {})
  BY BurnAssumption
<1>2. CASE below = {}
  BY <1>2 DEF turns_to_burn
<1>3. CASE below # {}
  <2>1. Max(below) \in below
    BY <1>1, <1>3, MaxExists
  <2>2. turns_to_burn(o, age) = age - Max(below)
    BY <1>3 DEF turns_to_burn
  <2>4. Kind[o] # "oil"
    BY <1>1, <1>3
  <2> HIDE DEF below
  <2>3. Max(below) \in Nat \ {0} /\ Max(below) < age
    BY <2>1, <1>1 DEF below
  <2> QED BY <2>2, <2>3, <2>4
<1> QED BY <1>2, <1>3

\* One part of memory, and one field of an object, at a time
LEMMA SetObj ==
  ASSUME NEW w \in Memories, NEW o \in Objs, NEW x \in Things
  PROVE  LET v == [w EXCEPT !.obj[o] = x]
         IN /\ v \in Memories /\ v.obj = [w.obj EXCEPT ![o] = x] /\ v.obj[o] = x
            /\ v.timers = w.timers /\ v.lights = w.lights
BY DEF Memories

LEMMA SetTimers ==
  ASSUME NEW w \in Memories, NEW T \in SUBSET BurnTimer
  PROVE  LET v == [w EXCEPT !.timers = T]
         IN v \in Memories /\ v.timers = T /\ v.obj = w.obj /\ v.lights = w.lights
BY DEF Memories

LEMMA SetLights ==
  ASSUME NEW w \in Memories, NEW o \in Objs, NEW k \in 0..1
  PROVE  LET v == [w EXCEPT !.lights[o] = k]
         IN /\ v \in Memories /\ v.lights = [w.lights EXCEPT ![o] = k] /\ v.lights[o] = k
            /\ v.timers = w.timers /\ v.obj = w.obj
BY DEF Memories

LEMMA SetTimed ==
  ASSUME NEW x \in Things, NEW k \in 0..1
  PROVE  LET y == [x EXCEPT !.timed = k]
         IN /\ y \in Things /\ y.timed = k
            /\ y.where = x.where /\ y.n = x.n /\ y.age = x.age /\ y.lamplit = x.lamplit
BY DEF Things

LEMMA SetLamplit ==
  ASSUME NEW x \in Things, NEW k \in BOOLEAN
  PROVE  LET y == [x EXCEPT !.lamplit = k]
         IN /\ y \in Things /\ y.lamplit = k
            /\ y.where = x.where /\ y.n = x.n /\ y.age = x.age /\ y.timed = x.timed
BY DEF Things

LEMMA SetAge ==
  ASSUME NEW x \in Things, NEW k \in Int
  PROVE  LET y == [x EXCEPT !.age = k]
         IN /\ y \in Things /\ y.age = k
            /\ y.where = x.where /\ y.n = x.n /\ y.lamplit = x.lamplit /\ y.timed = x.timed
BY DEF Things

LEMMA SetN ==
  ASSUME NEW x \in Things, NEW k \in Nat
  PROVE  LET y == [x EXCEPT !.n = k]
         IN /\ y \in Things /\ y.n = k
            /\ y.where = x.where /\ y.age = x.age /\ y.lamplit = x.lamplit /\ y.timed = x.timed
BY DEF Things

LEMMA SetWhere ==
  ASSUME NEW x \in Things, NEW k \in Places
  PROVE  LET y == [x EXCEPT !.where = k]
         IN /\ y \in Things /\ y.where = k
            /\ y.n = x.n /\ y.age = x.age /\ y.lamplit = x.lamplit /\ y.timed = x.timed
BY DEF Things

LEMMA PutObject ==
  ASSUME NEW w \in Memories, NEW o \in Objs, NEW x, NEW k, NEW T, \A t \in T : t.obj = o,
         NEW v, Put(w, v, o, x, T, k)
  PROVE  /\ v.obj[o] = x /\ v.lights[o] = k /\ TimersOf(v, o) = T
         /\ \A q \in Objs \ {o} : Same(v, w, q)
<1>1. w.obj \in [Objs -> Things] /\ w.lights \in [Objs -> 0..1]
  BY DEF Memories
<1>2. TimersOf(v, o) = T
  BY DEF TimersOf, Put
<1>3. ASSUME NEW q \in Objs \ {o} PROVE Same(v, w, q)
  <2>1. TimersOf(v, q) = TimersOf(w, q)
    BY DEF TimersOf, Put
  <2> QED BY <1>1, <2>1 DEF Same, Put
<1> QED BY <1>1, <1>2, <1>3 DEF Put

\* An object put unlit, without timer and light source, is in step.
LEMMA PutDark ==
  ASSUME NEW w \in Memories, NEW o \in Objs, NEW x \in Things, NEW now \in Int,
         ~x.lamplit, x.timed = 0, Fresh(w, o, now) => x.age >= 0,
         NEW v, Put(w, v, o, x, {}, 0)
  PROVE  Changed(w, v, {o}, now) /\ v.obj[o] = x /\ FuelIn(v, o, now) = x.age
<1> DEFINE T == {}
<1>1. /\ v.obj[o] = x /\ v.lights[o] = 0 /\ TimersOf(v, o) = {}
      /\ \A q \in Objs \ {o} : Same(v, w, q)
  <2>1. T = {} /\ Put(w, v, o, x, T, 0) /\ \A t \in T : t.obj = o
    OBVIOUS
  <2> HIDE DEF T
  <2>2. /\ v.obj[o] = x /\ v.lights[o] = 0 /\ TimersOf(v, o) = T
        /\ \A q \in Objs \ {o} : Same(v, w, q)
    BY <2>1, PutObject
  <2> QED BY <2>1, <2>2
<1>2. Changed(w, v, {o}, now)
  BY <1>1 DEF Changed, InStep, Fresh, Put
<1>3. v \in Memories
  BY DEF Put
<1> QED BY <1>1, <1>2, <1>3, FuelUntimed

\* What was fresh is so with state x and timer t.
StaysFresh(w, o, x, t, now) == Fresh(w, o, now) => x.age >= 0 /\ t.timeout > now

\* An object put lit, with one timer and one light source, is in step.
LEMMA PutLit ==
  ASSUME NEW w \in Memories, NEW o \in Objs, NEW x, NEW now \in Int,
         NEW t \in BurnTimer, t.obj = o, x.lamplit, x.timed = 1,
         StaysFresh(w, o, x, t, now),
         NEW v, Put(w, v, o, x, {t}, 1)
  PROVE  /\ Changed(w, v, {o}, now) /\ v.obj[o] = x
         /\ FuelIn(v, o, now) = FuelWith(x, t, now)
<1>1. /\ v.obj[o] = x /\ v.lights[o] = 1 /\ TimersOf(v, o) = {t}
      /\ \A q \in Objs \ {o} : Same(v, w, q)
  BY PutObject
<1>2. Changed(w, v, {o}, now)
  BY <1>1 DEF Changed, InStep, Fresh, StaysFresh, Put
<1>3. FuelIn(v, o, now) = FuelWith(x, t, now)
  BY <1>1, <1>2, FuelTimed DEF Changed
<1> QED BY <1>1, <1>2, <1>3

LEMMA NothingChanged ==
  ASSUME NEW w \in Memories, NEW o \in Objs, NEW now \in Int, InStep(w, o)
  PROVE  Changed(w, w, {o}, now)
  BY DEF Changed, Same

-----------------------------------------------------------------------------
(* What each operator of BurnTimers puts *)

\* An object with a light and no timer, as burn_object() finds it, and one
\* without either are lit by begin_burn().
LEMMA BeginBurnPuts ==
  ASSUME NEW w \in Memories, NEW o \in Objs, NEW now \in Int, NEW already_lit \in BOOLEAN,
         w.obj[o].age # 0, w.obj[o].timed = 0, TimersOf(w, o) = {},
         w.lights[o] = IF already_lit THEN 1 ELSE 0
  PROVE  LET turns == turns_to_burn(o, w.obj[o].age)
         IN \E x \in Things :
              /\ Put(w, begin_burn(w, o, already_lit, now), o, x,
                     {[obj |-> o, timeout |-> now + turns]}, 1)
              /\ x.lamplit /\ x.timed = 1 /\ x.age = w.obj[o].age - turns
              /\ x.where = w.obj[o].where /\ x.n = w.obj[o].n
<1> DEFINE turns == turns_to_burn(o, w.obj[o].age)
           t == [obj |-> o, timeout |-> now + turns]
           x0 == w.obj[o]
           x1 == [x0 EXCEPT !.timed = x0.timed + 1]
           x2 == [x1 EXCEPT !.lamplit = TRUE]
           x3 == [x2 EXCEPT !.age = x1.age - turns]
           v1 == [w EXCEPT !.timers = w.timers \cup {t}]
           v2 == [v1 EXCEPT !.obj[o] = x1]
           v3 == [v2 EXCEPT !.obj[o] = x3]
           v4 == [v3 EXCEPT !.lights[o] = v3.lights[o] + 1]
           v == begin_burn(w, o, already_lit, now)
<1>1. x0 \in Things /\ w.obj \in [Objs -> Things] /\ w.lights \in [Objs -> 0..1]
  BY DEF Memories
<1>2. turns \in Int
  BY <1>1, TurnsToBurn DEF Things
<1> HIDE DEF turns
<1>3. t \in BurnTimer
  BY <1>2 DEF BurnTimer
<1>4. /\ x3 \in Things /\ x3.lamplit /\ x3.timed = 1 /\ x3.age = x0.age - turns
      /\ x3.where = x0.where /\ x3.n = x0.n /\ x1 \in Things
  <2>1. x1 \in Things /\ x1.timed = 1 /\ x1.age = x0.age /\ x1.where = x0.where /\ x1.n = x0.n
    <3>1. x1 = [x0 EXCEPT !.timed = 1]
      OBVIOUS
    <3>2. 1 \in 0..1
      OBVIOUS
    <3> HIDE DEF x1, x0
    <3> QED BY <1>1, <3>1, <3>2, SetTimed
  <2> HIDE DEF x1, x0
  <2>2. x2 \in Things /\ x2.timed = 1 /\ x2.where = x0.where /\ x2.n = x0.n /\ x2.lamplit
    BY <2>1, SetLamplit
  <2>3. x1.age - turns \in Int
    BY <1>2, <2>1 DEF Things
  <2> HIDE DEF x2
  <2> QED BY <2>1, <2>2, <2>3, SetAge
<1>5. /\ v1 \in Memories /\ v1.timers = w.timers \cup {t} /\ v1.obj = w.obj
      /\ v1.lights = w.lights
  BY <1>3, SetTimers DEF Memories
<1>6. start_timer(w, o, now + turns) = v2
  BY <1>1, <1>3 DEF start_timer, Memories, Things
<1> HIDE DEF v1
<1>7. v2 \in Memories /\ v2.obj = [w.obj EXCEPT ![o] = x1] /\ v2.obj[o] = x1
      /\ v2.timers = w.timers \cup {t} /\ v2.lights = w.lights
  BY <1>4, <1>5, SetObj
<1> HIDE DEF v2
<1>8. [v2 EXCEPT !.obj[o].lamplit = TRUE, !.obj[o].age = @ - turns] = v3
  BY <1>7 DEF Memories, Things
<1>9. /\ v3 \in Memories /\ v3.obj = [v2.obj EXCEPT ![o] = x3]
      /\ v3.timers = w.timers \cup {t} /\ v3.lights = w.lights
  BY <1>4, <1>7, SetObj
<1>10. v3.obj = [w.obj EXCEPT ![o] = x3]
  BY <1>1, <1>4, <1>7, <1>9
<1> HIDE DEF v3, x3, x1
<1>11. v = IF already_lit THEN v3 ELSE v4
  BY <1>6, <1>8, ZenonT(30) DEF begin_burn, new_light_source, turns
<1>12. /\ v \in Memories /\ v.obj = v3.obj /\ v.timers = v3.timers
       /\ v.lights = [w.lights EXCEPT ![o] = 1]
  <2> HIDE DEF v
  <2>1. CASE already_lit
    BY <1>1, <1>9, <1>11, <2>1
  <2>2. CASE ~already_lit
    <3>1. v4 = [v3 EXCEPT !.lights[o] = 1]
      BY <1>9, <2>2 DEF Memories
    <3>3. v4 \in Memories /\ v4.lights = [v3.lights EXCEPT ![o] = 1]
          /\ v4.timers = v3.timers /\ v4.obj = v3.obj
      BY <1>9, <3>1 DEF Memories
    <3> QED BY <1>9, <1>11, <2>2, <3>3
  <2> QED BY <2>1, <2>2
<1>13. w.timers = {u \in w.timers : u.obj # o}
  BY DEF TimersOf
<1> HIDE DEF v, t, x0
<1>14. Put(w, v, o, x3, {t}, 1)
  BY <1>9, <1>10, <1>12, <1>13 DEF Put
<1> QED BY <1>4, <1>14 DEF v, t, turns, x0

\* begin_burn() lights an object, or leaves one without fuel as it was; no fuel
\* is gained or lost, and all the fuel of oil is in its timer.
LEMMA BeginBurn ==
  ASSUME NEW w \in Memories, NEW o \in Objs, NEW now \in Int,
         InStep(w, o), ~w.obj[o].lamplit
  PROVE  LET v == begin_burn(w, o, FALSE, now)
         IN /\ Handled(w, v, {o}, now)
            /\ v.obj[o].where = w.obj[o].where /\ v.obj[o].n = w.obj[o].n
            /\ v.obj[o].lamplit /\ Kind[o] = "oil" => v.obj[o].age = 0
            /\ FuelIn(v, o, now) = FuelIn(w, o, now)
            /\ w.obj[o].age # 0 => v.obj[o].lamplit
<1> DEFINE turns == turns_to_burn(o, w.obj[o].age)
           v == begin_burn(w, o, FALSE, now)
<1>1. w.obj[o] \in Things
  BY DEF Memories
<1>2. CASE w.obj[o].age = 0
  BY <1>2, NothingChanged, HandledOne DEF begin_burn
<1>3. CASE w.obj[o].age # 0
  <2>1. PICK x \in Things :
          /\ Put(w, v, o, x, {[obj |-> o, timeout |-> now + turns]}, 1)
          /\ x.lamplit /\ x.timed = 1 /\ x.age = w.obj[o].age - turns
          /\ x.where = w.obj[o].where /\ x.n = w.obj[o].n
    BY <1>3, BeginBurnPuts DEF InStep
  <2>2. /\ turns \in Int
        /\ w.obj[o].age > 0 => turns > 0 /\ turns <= w.obj[o].age
        /\ Kind[o] = "oil" => turns = w.obj[o].age
    BY <1>1, TurnsToBurn DEF Things
  <2> HIDE DEF turns, v
  <2>3. Fresh(w, o, now) => x.age >= 0 /\ now + turns > now
    BY <1>1, <1>3, <2>1, <2>2 DEF Fresh, Things
  <2>4. now + turns \in Int
    BY <2>2
  <2> DEFINE end == now + turns
  <2>5. Put(w, v, o, x, {[obj |-> o, timeout |-> end]}, 1)
    BY <2>1
  <2>6. Fresh(w, o, now) => x.age >= 0 /\ end > now
    BY <2>3
  <2>7. end \in Int
    BY <2>4
  <2>9. x.age + end - now = w.obj[o].age /\ w.obj[o].age \in Int
    BY <1>1, <2>1, <2>2 DEF Things
  <2>10. Kind[o] = "oil" => x.age = 0
    BY <1>1, <2>1, <2>2 DEF Things
  <2> HIDE DEF end
  <2>8. Changed(w, v, {o}, now) /\ v.obj[o] = x /\ FuelIn(v, o, now) = x.age + end - now
    <3> DEFINE t == [obj |-> o, timeout |-> end]
    <3>1. t \in BurnTimer /\ t.obj = o /\ t.timeout = end
      BY <2>7 DEF BurnTimer
    <3>2. Put(w, v, o, x, {t}, 1)
      BY <2>5
    <3>3. x.lamplit /\ x.timed = 1 /\ StaysFresh(w, o, x, t, now)
      BY <2>1, <2>6, <3>1 DEF StaysFresh
    <3> HIDE DEF t
    <3>4. /\ Changed(w, v, {o}, now) /\ v.obj[o] = x
          /\ FuelIn(v, o, now) = FuelWith(x, t, now)
      BY <3>1, <3>2, <3>3, PutLit
    <3>5. FuelWith(x, t, now) = x.age + end - now
      BY <3>1 DEF FuelWith
    <3> QED BY <3>4, <3>5
  <2>11. FuelIn(w, o, now) = w.obj[o].age
    BY FuelUntimed DEF InStep
  <2>12. Handled(w, v, {o}, now) /\ FuelIn(v, o, now) = FuelIn(w, o, now)
    BY <2>8, <2>9, <2>11, HandledOne
  <2> QED BY <2>1, <2>8, <2>10, <2>12 DEF v
<1> QED BY <1>2, <1>3

\* cleanup_burn() of an object whose timer has been taken off the list
LEMMA CleanupPuts ==
  ASSUME NEW w \in Memories, NEW o \in Objs, NEW now \in Int, NEW expire \in Int,
         w.obj[o].lamplit, w.obj[o].timed = 0, w.lights[o] = 1, TimersOf(w, o) = {}
  PROVE  \E x \in Things :
           /\ Put(w, cleanup_burn(w, o, expire, now), o, x, {}, 0)
           /\ ~x.lamplit /\ x.timed = 0 /\ x.age = w.obj[o].age + expire - now
           /\ x.where = w.obj[o].where /\ x.n = w.obj[o].n
<1> DEFINE x0 == w.obj[o]
           x1 == [x0 EXCEPT !.lamplit = FALSE]
           x2 == [x1 EXCEPT !.age = x0.age + expire - now]
           v1 == [w EXCEPT !.lights[o] = 0]
           v2 == [v1 EXCEPT !.obj[o] = x2]
           v == cleanup_burn(w, o, expire, now)
<1>1. x0 \in Things /\ w.obj \in [Objs -> Things] /\ w.lights \in [Objs -> 0..1]
  BY DEF Memories
<1>2. /\ x2 \in Things /\ ~x2.lamplit /\ x2.timed = 0 /\ x2.age = x0.age + expire - now
      /\ x2.where = x0.where /\ x2.n = x0.n
  <2>1. x0.timed = 0 /\ x0.age + expire - now \in Int
    BY <1>1 DEF Things
  <2> HIDE DEF x0
  <2>2. x1 \in Things /\ x1.timed = 0 /\ x1.where = x0.where /\ x1.n = x0.n /\ ~x1.lamplit
    BY <1>1, <2>1, SetLamplit
  <2> HIDE DEF x1
  <2> QED BY <2>1, <2>2, SetAge
<1>3. del_light_source(w, o) = v1
  BY DEF del_light_source, Memories
<1>4. v1 \in Memories /\ v1.lights = [w.lights EXCEPT ![o] = 0] /\ v1.timers = w.timers
      /\ v1.obj = w.obj
  BY DEF Memories
<1> HIDE DEF v1
<1>5. [v1 EXCEPT !.obj[o].lamplit = FALSE, !.obj[o].age = @ + expire - now] = v2
  <2>1. v1.obj[o] = x0
    BY <1>4
  <2> DEFINE rest == x0.age + expire - now
  <2>2. rest = v1.obj[o].age + expire - now
    BY <2>1
  <2>3. [v1 EXCEPT !.obj[o].lamplit = FALSE, !.obj[o].age = @ + expire - now]
          = [v1 EXCEPT !.obj[o].lamplit = FALSE, !.obj[o].age = rest]
    BY <2>2, <1>4, <1>1 DEF Memories, Things
  <2>4. x2 = [x1 EXCEPT !.age = rest]
    OBVIOUS
  <2> HIDE DEF x0, rest
  <2>5. [v1 EXCEPT !.obj[o].lamplit = FALSE, !.obj[o].age = rest] = v2
    <3> DEFINE va == [v1 EXCEPT !.obj[o] = x1]
    <3>1. [v1 EXCEPT !.obj[o].lamplit = FALSE] = va
      BY <1>1, <1>4, <2>1 DEF Memories, Things
    <3>2. va \in Memories /\ va.obj[o] = x1
      <4>1. x1 \in Things
        BY <1>1 DEF Things
      <4> HIDE DEF x1
      <4> QED BY <1>4, <4>1, SetObj
    <3>3. v2 = [va EXCEPT !.obj[o] = x2]
      BY <1>4, <2>1 DEF Memories
    <3>4. [v1 EXCEPT !.obj[o].lamplit = FALSE, !.obj[o].age = rest]
            = [[v1 EXCEPT !.obj[o].lamplit = FALSE] EXCEPT !.obj[o].age = rest]
      OBVIOUS
    <3> HIDE DEF va, x1, x2, v2
    <3>5. [va EXCEPT !.obj[o].age = rest] = [va EXCEPT !.obj[o] = x2]
      BY <2>4, <3>2 DEF Memories, Things
    <3> QED BY <3>1, <3>3, <3>4, <3>5
  <2> QED BY <2>3, <2>5
<1>6. v2 \in Memories /\ v2.obj = [w.obj EXCEPT ![o] = x2] /\ v2.timers = w.timers
      /\ v2.lights = [w.lights EXCEPT ![o] = 0]
  BY <1>2, <1>4, SetObj
<1> HIDE DEF v2, x2, x1
<1>7. v = v2
  BY <1>3, <1>5 DEF cleanup_burn
<1>8. w.timers = {u \in w.timers : u.obj # o}
  BY DEF TimersOf
<1>9. Put(w, v, o, x2, {}, 0)
  BY <1>6, <1>7, <1>8 DEF Put
<1> QED BY <1>2, <1>9

\* Memory as obj_stop_timers() has it when it calls cleanup_burn()
Untimed(w, o) == [w EXCEPT !.timers = @ \ TimersOf(w, o), !.obj[o].timed = 0]

\* That is memory after the one timer of o was unlinked: o is left lit.
LeftLit(w, v, o) ==
  /\ v \in Memories /\ v.timers = {u \in w.timers : u.obj # o}
  /\ v.lights = w.lights /\ v.lights[o] = 1 /\ TimersOf(v, o) = {}
  /\ \E y \in Things :
       /\ v.obj = [w.obj EXCEPT ![o] = y] /\ v.obj[o] = y /\ y.lamplit
       /\ y.timed = 0 /\ y.age = w.obj[o].age
       /\ y.where = w.obj[o].where /\ y.n = w.obj[o].n

LEMMA Unlinked ==
  ASSUME NEW w \in Memories, NEW o \in Objs, NEW t \in BurnTimer,
         InStep(w, o), w.obj[o].lamplit, TimersOf(w, o) = {t}
  PROVE  unlink_timer(w, t) = Untimed(w, o) /\ LeftLit(w, unlink_timer(w, t), o)
<1> DEFINE x0 == w.obj[o]
           y == [x0 EXCEPT !.timed = 0]
           v1 == [w EXCEPT !.timers = w.timers \ {t}]
           v2 == [v1 EXCEPT !.obj[o] = y]
           v == unlink_timer(w, t)
<1>1. x0 \in Things /\ w.obj \in [Objs -> Things] /\ w.timers \subseteq BurnTimer
  BY DEF Memories
<1>2. t.obj = o /\ t \in w.timers /\ w.timers \ {t} = {u \in w.timers : u.obj # o}
  BY DEF TimersOf
<1>3. x0.timed = 1 /\ w.lights[o] = 1
  BY DEF InStep
<1>4. /\ y \in Things /\ y.lamplit /\ y.timed = 0 /\ y.age = x0.age
      /\ y.where = x0.where /\ y.n = x0.n
  <2>1. x0.lamplit /\ 0 \in 0..1
    OBVIOUS
  <2> HIDE DEF x0
  <2> QED BY <1>1, <2>1, SetTimed
<1>5. v1 \in Memories /\ v1.timers = w.timers \ {t} /\ v1.obj = w.obj /\ v1.lights = w.lights
  BY <1>1, SetTimers
<1>6. v = v2
  BY <1>1, <1>2, <1>3 DEF unlink_timer, Memories, Things
<1>7. Untimed(w, o) = v2
  BY <1>1, <1>2, <1>3 DEF Untimed, Memories, Things
<1> HIDE DEF v1
<1>8. v2 \in Memories /\ v2.obj = [w.obj EXCEPT ![o] = y] /\ v2.obj[o] = y
      /\ v2.timers = w.timers \ {t} /\ v2.lights = w.lights
  BY <1>4, <1>5, SetObj
<1> HIDE DEF v2, y, v
<1>9. TimersOf(v2, o) = {}
  BY <1>2, <1>8 DEF TimersOf
<1>10. LeftLit(w, v2, o)
  BY <1>2, <1>3, <1>4, <1>8, <1>9 DEF LeftLit
<1> QED BY <1>6, <1>7, <1>10 DEF v

\* end_burn() with the timer, and what obj_stop_timers() does to a lit object:
\* the light is out and the rest of the timer is fuel again.
LEMMA PutOut ==
  ASSUME NEW w \in Memories, NEW o \in Objs, NEW now \in Int,
         InStep(w, o), w.obj[o].lamplit
  PROVE  \A v \in {stop_timer(w, o, now), obj_stop_timers(w, o, now)} :
           /\ Changed(w, v, {o}, now) /\ ~v.obj[o].lamplit
           /\ v.obj[o].where = w.obj[o].where /\ v.obj[o].n = w.obj[o].n
           /\ FuelIn(v, o, now) = FuelIn(w, o, now)
<1>1. PICK t \in BurnTimer : TimersOf(w, o) = {t}
  BY DEF InStep
<1>2. (CHOOSE u \in TimersOf(w, o) : TRUE) = t /\ TimersOf(w, o) # {} /\ t.obj = o
  BY <1>1 DEF TimersOf
<1> DEFINE u == unlink_timer(w, t)
           v == cleanup_burn(u, o, t.timeout, now)
<1>3. stop_timer(w, o, now) = v
  BY <1>2 DEF stop_timer
<1>4. u = Untimed(w, o) /\ LeftLit(w, u, o)
  BY <1>1, Unlinked
<1>6. obj_stop_timers(w, o, now) = v
  BY <1>2, <1>4 DEF obj_stop_timers, Untimed
<1> HIDE DEF u
<1>5. PICK y \in Things : /\ u.obj = [w.obj EXCEPT ![o] = y] /\ u.obj[o] = y /\ y.lamplit
                          /\ y.timed = 0 /\ y.age = w.obj[o].age
                          /\ y.where = w.obj[o].where /\ y.n = w.obj[o].n
  BY <1>4 DEF LeftLit
<1>7. t.timeout \in Int
  BY DEF BurnTimer
<1>8. PICK x \in Things :
        /\ Put(u, v, o, x, {}, 0)
        /\ ~x.lamplit /\ x.timed = 0 /\ x.age = u.obj[o].age + t.timeout - now
        /\ x.where = u.obj[o].where /\ x.n = u.obj[o].n
  <2> DEFINE end == t.timeout
  <2>1. /\ u \in Memories /\ u.obj[o].lamplit /\ u.obj[o].timed = 0 /\ u.lights[o] = 1
        /\ TimersOf(u, o) = {} /\ end \in Int
    BY <1>4, <1>5, <1>7 DEF LeftLit
  <2> HIDE DEF end
  <2>2. \E x \in Things :
          /\ Put(u, cleanup_burn(u, o, end, now), o, x, {}, 0)
          /\ ~x.lamplit /\ x.timed = 0 /\ x.age = u.obj[o].age + end - now
          /\ x.where = u.obj[o].where /\ x.n = u.obj[o].n
    BY <2>1, CleanupPuts
  <2> QED BY <2>2 DEF end
<1> HIDE DEF v
<1>9. Put(w, v, o, x, {}, 0)
  <2>1. w.obj \in [Objs -> Things] /\ w.lights \in [Objs -> 0..1]
    BY DEF Memories
  <2> QED BY <1>4, <1>5, <1>8, <2>1 DEF Put, LeftLit
<1>10. Fresh(w, o, now) => x.age >= 0
  <2> SUFFICES ASSUME Fresh(w, o, now) PROVE x.age >= 0
    OBVIOUS
  <2>1. y.age >= 0 /\ t.timeout > now
    BY <1>1, <1>5 DEF Fresh
  <2> QED BY <1>5, <1>7, <1>8, <2>1 DEF Things
<1>11. Changed(w, v, {o}, now) /\ v.obj[o] = x /\ FuelIn(v, o, now) = x.age
  BY <1>8, <1>9, <1>10, PutDark, ZenonT(30)
<1>12. FuelIn(w, o, now) = x.age
  BY <1>1, <1>5, <1>8, FuelTimed DEF FuelWith
<1> QED BY <1>3, <1>5, <1>6, <1>8, <1>11, <1>12

LEMMA EndBurn ==
  ASSUME NEW w \in Memories, NEW o \in Objs, NEW now \in Int, InStep(w, o)
  PROVE  LET v == end_burn(w, o, TRUE, now)
         IN /\ Handled(w, v, {o}, now) /\ ~v.obj[o].lamplit
            /\ v.obj[o].where = w.obj[o].where /\ v.obj[o].n = w.obj[o].n
            /\ FuelIn(v, o, now) = FuelIn(w, o, now)
<1>1. CASE w.obj[o].lamplit
  BY <1>1, PutOut, HandledOne DEF end_burn
<1>2. CASE ~w.obj[o].lamplit
  BY <1>2, NothingChanged, HandledOne DEF end_burn
<1> QED BY <1>1, <1>2

\* This fuel when an age that was old is new
Shifted(fuel, old, new) == fuel + new - old

\* An object whose place, number or age is written stays in step.
LEMMA SetThing ==
  ASSUME NEW w \in Memories, NEW D \in SUBSET Objs, NEW o \in D, NEW x \in Things,
         NEW now \in Int, \A q \in D : InStep(w, q),
         x.lamplit = w.obj[o].lamplit, x.timed = w.obj[o].timed,
         (\A q \in D : Fresh(w, q, now)) => x.age >= 0
  PROVE  LET v == [w EXCEPT !.obj[o] = x]
         IN /\ Changed(w, v, D, now) /\ v.obj[o] = x
            /\ FuelIn(v, o, now) = Shifted(FuelIn(w, o, now), w.obj[o].age, x.age)
            /\ \A q \in Objs \ {o} : Same(v, w, q)
<1> DEFINE v == [w EXCEPT !.obj[o] = x]
<1>1. /\ v \in Memories /\ v.obj = [w.obj EXCEPT ![o] = x] /\ v.obj[o] = x
      /\ v.timers = w.timers /\ v.lights = w.lights
  BY SetObj
<1>2. w.obj \in [Objs -> Things]
  BY DEF Memories
<1> HIDE DEF v
<1>3. \A q \in Objs : TimersOf(v, q) = TimersOf(w, q)
  BY <1>1 DEF TimersOf
<1>4. \A q \in Objs \ {o} : Same(v, w, q)
  BY <1>1, <1>2, <1>3 DEF Same
<1>5. InStep(v, o)
  BY <1>1, <1>3 DEF InStep
<1>6. (\A q \in D : Fresh(w, q, now)) => Fresh(v, o, now)
  BY <1>1, <1>3 DEF Fresh
<1>7. Changed(w, v, D, now)
  BY <1>1, <1>4, <1>5, <1>6 DEF Changed, Same, InStep, Fresh
<1>8. FuelIn(v, o, now) = FuelIn(w, o, now) + x.age - w.obj[o].age
  <2>1. x.age \in Int /\ w.obj[o].age \in Int /\ o \in Objs /\ v \in Memories
        /\ v.obj[o].age = x.age /\ TimersOf(v, o) = TimersOf(w, o)
    BY <1>1, <1>2, <1>3 DEF Things
  <2>2. CASE TimersOf(w, o) = {}
    <3>1. FuelIn(w, o, now) = w.obj[o].age
      BY <2>1, <2>2, FuelUntimed
    <3>2. FuelIn(v, o, now) = v.obj[o].age
      BY <2>1, <2>2, FuelUntimed
    <3> QED BY <2>1, <3>1, <3>2
  <2>3. CASE TimersOf(w, o) # {}
    <3>1. PICK t \in BurnTimer : TimersOf(w, o) = {t}
      BY <2>3 DEF InStep
    <3>2. t.timeout \in Int
      BY DEF BurnTimer
    <3>3. FuelIn(w, o, now) = w.obj[o].age + t.timeout - now
      BY <2>1, <3>1, FuelTimed DEF FuelWith
    <3>4. FuelIn(v, o, now) = v.obj[o].age + t.timeout - now
      BY <2>1, <3>1, FuelTimed DEF FuelWith
    <3> QED BY <2>1, <3>2, <3>3, <3>4
  <2> QED BY <2>2, <2>3
<1> QED BY <1>1, <1>4, <1>7, <1>8 DEF v, Shifted

\* One change after another
LEMMA Then ==
  ASSUME NEW w \in Memories, NEW v, NEW u, NEW D \in SUBSET Objs, NEW E \in SUBSET Objs,
         NEW now \in Int, Changed(w, v, D, now), Changed(v, u, E, now)
  PROVE  /\ Changed(w, u, D \cup E, now)
         /\ \A q \in D \ E : u.obj[q] = v.obj[q]
<1>1. u \in Memories
  BY DEF Changed
<1>2. \A q \in Objs \ (D \cup E) : Same(u, w, q)
  BY DEF Changed, Same
<1>3. \A q \in Objs \ E : Same(u, v, q)
  BY DEF Changed
<1>4. \A q \in D \cup E : InStep(u, q)
  BY <1>3 DEF Changed, Same, InStep
<1>5. ASSUME \A q \in D \cup E : Fresh(w, q, now)
      PROVE  \A q \in D \cup E : Fresh(u, q, now)
  <2>1. \A q \in D : Fresh(v, q, now)
    BY <1>5 DEF Changed
  <2>2. \A q \in E : Fresh(v, q, now)
    BY <1>5, <2>1 DEF Changed, Same, Fresh
  <2>3. \A q \in E : Fresh(u, q, now)
    BY <2>2 DEF Changed
  <2> QED BY <1>3, <2>1, <2>3 DEF Same, Fresh
<1> QED BY <1>1, <1>2, <1>3, <1>4, <1>5 DEF Changed, Same

\* One thing done after another
LEMMA HandledThen ==
  ASSUME NEW w \in Memories, NEW v, NEW u, NEW D \in SUBSET Objs, NEW E \in SUBSET Objs,
         NEW now \in Int, Handled(w, v, D, now), Handled(v, u, E, now)
  PROVE  /\ Handled(w, u, D \cup E, now)
         /\ \A q \in D \ E : u.obj[q] = v.obj[q]
<1> DEFINE fuel(q) == FuelIn(w, q, now)
           mid(q) == FuelIn(v, q, now)
           end(q) == FuelIn(u, q, now)
<1>1. /\ Changed(w, v, D, now) /\ Changed(v, u, E, now)
      /\ \A q \in D : Had(mid(q), w, D, now)
      /\ \A q \in E : Had(end(q), v, E, now)
  BY DEF Handled
<1>2. Changed(w, u, D \cup E, now) /\ \A q \in D \ E : u.obj[q] = v.obj[q]
  BY <1>1, Then
<1>3. v \in Memories /\ u \in Memories
  BY <1>1 DEF Changed
<1>4. \A q \in Objs : fuel(q) \in Int /\ mid(q) \in Int /\ end(q) \in Int
  BY <1>3, FuelInt
<1>5. \A q \in Objs \ D : mid(q) = fuel(q)
  BY <1>1, FuelSame DEF Changed
<1>6. \A q \in Objs \ E : end(q) = mid(q)
  BY <1>1, FuelSame DEF Changed
<1>7. \A q \in D \cup E : Had(mid(q), w, D \cup E, now)
  <2> SUFFICES ASSUME NEW q \in D \cup E PROVE Had(mid(q), w, D \cup E, now)
    OBVIOUS
  <2>1. CASE q \in D
    BY <1>1, <2>1 DEF Had
  <2>2. CASE q \notin D
    <3>1. mid(q) <= fuel(q)
      BY <1>4, <1>5, <2>2
    <3> QED BY <3>1 DEF Had
  <2> QED BY <2>1, <2>2
<1>8. ASSUME NEW q \in D \cup E PROVE Had(end(q), w, D \cup E, now)
  <2>1. CASE q \notin E
    BY <1>6, <1>7, <2>1
  <2>2. CASE q \in E /\ end(q) <= 0
    BY <2>2 DEF Had
  <2>3. ASSUME NEW p \in E, end(q) <= mid(p) PROVE Had(end(q), w, D \cup E, now)
    <3> DEFINE x == end(q)
               y == mid(p)
               F == D \cup E
    <3>1. x \in Int /\ y \in Int /\ F \in SUBSET Objs
      BY <1>4
    <3>2. x <= y /\ Had(y, w, F, now)
      BY <1>7, <2>3
    <3> HIDE DEF x, y, F
    <3>3. Had(x, w, F, now)
      BY <3>1, <3>2, HadLess
    <3> QED BY <3>3 DEF x, F
  <2> QED BY <1>1, <2>1, <2>2, <2>3 DEF Had
<1> QED BY <1>2, <1>8 DEF Handled

\* dealloc_obj() of an object in step leaves nothing of it.
LEMMA Dealloc ==
  ASSUME NEW w \in Memories, NEW o \in Objs, NEW now \in Int, InStep(w, o)
  PROVE  LET v == dealloc_obj(w, o, now)
         IN /\ Handled(w, v, {o}, now) /\ v.obj[o] = NoObject
            /\ FuelIn(v, o, now) = 0
<1> DEFINE u == IF w.obj[o].lamplit THEN obj_stop_timers(w, o, now) ELSE w
           v == [u EXCEPT !.obj[o] = NoObject]
<1>1. Changed(w, u, {o}, now) /\ ~u.obj[o].lamplit
  BY PutOut, NothingChanged
<1>2. dealloc_obj(w, o, now) = v
  BY <1>1 DEF dealloc_obj, InStep
<1> HIDE DEF u
<1>3. NoObject \in Things /\ ~NoObject.lamplit /\ NoObject.timed = 0 /\ NoObject.age >= 0
      /\ NoObject.lamplit = FALSE
  BY DEF NoObject, Things
<1>4. u \in Memories /\ InStep(u, o) /\ u.obj[o].timed = 0 /\ u.obj[o].lamplit = FALSE
  <2>1. u \in Memories /\ InStep(u, o)
    BY <1>1 DEF Changed
  <2>2. u.obj[o] \in Things
    BY <2>1 DEF Memories
  <2> QED BY <1>1, <2>1, <2>2 DEF InStep, Things
<1> DEFINE x == NoObject
<1>5. x \in Things /\ x.lamplit = u.obj[o].lamplit /\ x.timed = u.obj[o].timed /\ x.age >= 0
  BY <1>3, <1>4
<1> HIDE DEF x
<1>6. Changed(u, [u EXCEPT !.obj[o] = x], {o}, now) /\ [u EXCEPT !.obj[o] = x].obj[o] = x
  <2> DEFINE D == {o}
  <2>1. D \in SUBSET Objs /\ o \in D /\ \A q \in D : InStep(u, q)
    BY <1>4
  <2> HIDE DEF D
  <2>2. Changed(u, [u EXCEPT !.obj[o] = x], D, now) /\ [u EXCEPT !.obj[o] = x].obj[o] = x
    BY <1>4, <1>5, <2>1, SetThing, ZenonT(30)
  <2> QED BY <2>2 DEF D
<1>7. Changed(u, v, {o}, now) /\ v.obj[o] = NoObject
  BY <1>6 DEF x
<1> HIDE DEF v
<1>8. Changed(w, v, {o} \cup {o}, now)
  BY <1>1, <1>7, Then
<1>9. v \in Memories /\ InStep(v, o)
  BY <1>7 DEF Changed
<1>10. FuelIn(v, o, now) = 0
  BY <1>7, <1>9, FuelGone
<1>11. Handled(w, v, {o}, now)
  BY <1>8, <1>10 DEF Handled, Had
<1> QED BY <1>2, <1>7, <1>10, <1>11

\* An object with a timer
Timed(x) == [x EXCEPT !.timed = 1]

Started(w, v, o, y, t) ==
  /\ v \in Memories /\ v.obj = [w.obj EXCEPT ![o] = y] /\ v.obj[o] = y
  /\ v.timers = w.timers \cup {t} /\ v.lights = w.lights /\ y \in Things

LEMMA StartTimer ==
  ASSUME NEW w \in Memories, NEW o \in Objs, NEW timeout \in Int, w.obj[o].timed = 0,
         NEW t, t = [obj |-> o, timeout |-> timeout],
         NEW y, y = Timed(w.obj[o]),
         NEW v, v = start_timer(w, o, timeout)
  PROVE  Started(w, v, o, y, t)
<1> DEFINE v1 == [w EXCEPT !.timers = w.timers \cup {t}]
           v2 == [v1 EXCEPT !.obj[o] = y]
<1>1. w.obj[o] \in Things /\ t \in BurnTimer
  BY DEF Memories, BurnTimer
<1>2. y \in Things
  BY <1>1 DEF Timed, Things
<1>3. v = v2
  BY <1>1 DEF Timed, start_timer, Memories, Things
<1>4. v1 \in Memories /\ v1.timers = w.timers \cup {t} /\ v1.obj = w.obj /\ v1.lights = w.lights
  BY <1>1, SetTimers DEF Memories
<1> HIDE DEF v1
<1>5. /\ v2 \in Memories /\ v2.obj = [w.obj EXCEPT ![o] = y] /\ v2.obj[o] = y
      /\ v2.timers = w.timers \cup {t} /\ v2.lights = w.lights
  BY <1>2, <1>4, SetObj
<1> QED BY <1>2, <1>3, <1>5 DEF Started

\* splitobj(): both parts are as lit as the stack was.
LEMMA Split ==
  ASSUME NEW w \in Memories, NEW o \in Objs, NEW p \in Objs, p # o,
         NEW num \in Nat, NEW now \in Int,
         InStep(w, o), InStep(w, p), ~w.obj[p].lamplit, num <= w.obj[o].n
  PROVE  LET v == splitobj(w, o, p, num)
         IN /\ Handled(w, v, {o, p}, now)
            /\ v.obj[o].where = w.obj[o].where /\ v.obj[o].n = w.obj[o].n - num
            /\ v.obj[p].where = w.obj[o].where /\ v.obj[p].n = num
            /\ v.obj[o].lamplit = w.obj[o].lamplit /\ v.obj[p].lamplit = w.obj[o].lamplit
            /\ v.obj[o].age = w.obj[o].age /\ v.obj[p].age = w.obj[o].age
<1> DEFINE x0 == w.obj[o]
           xo == [x0 EXCEPT !.n = x0.n - num]
           xp == [x0 EXCEPT !.n = num, !.timed = 0, !.lamplit = FALSE]
           w1 == [w EXCEPT !.obj[p] = xp]
           copy == [w1 EXCEPT !.obj[o] = xo]
           v == splitobj(w, o, p, num)
<1>1. x0 \in Things /\ w.obj \in [Objs -> Things] /\ w.lights \in [Objs -> 0..1]
  BY DEF Memories
<1>2. /\ xp \in Things /\ ~xp.lamplit /\ xp.timed = 0 /\ xp.n = num
      /\ xp.age = x0.age /\ xp.where = x0.where /\ xp.lamplit = FALSE
  <2> DEFINE x1 == [x0 EXCEPT !.n = num]
             x2 == [x1 EXCEPT !.timed = 0]
  <2>1. xp = [x2 EXCEPT !.lamplit = FALSE]
    BY <1>1 DEF Things
  <2> HIDE DEF x0
  <2>2. x1 \in Things /\ x1.n = num /\ x1.age = x0.age /\ x1.where = x0.where
    BY <1>1, SetN
  <2> HIDE DEF x1
  <2>3. /\ x2 \in Things /\ x2.timed = 0 /\ x2.n = num /\ x2.age = x0.age
        /\ x2.where = x0.where
    BY <2>2 DEF Things
  <2> HIDE DEF x2, xp
  <2> QED BY <2>1, <2>3 DEF Things
<1>3. /\ xo \in Things /\ xo.lamplit = x0.lamplit /\ xo.timed = x0.timed /\ xo.n = x0.n - num
      /\ xo.age = x0.age /\ xo.where = x0.where
  <2>1. num <= x0.n
    OBVIOUS
  <2> HIDE DEF x0
  <2>2. x0.n - num \in Nat
    BY <1>1, <2>1 DEF Things
  <2> QED BY <1>1, <2>2, SetN
<1>4. [w EXCEPT !.obj[p] = [w.obj[o] EXCEPT !.n = num, !.timed = 0, !.lamplit = FALSE],
                !.obj[o].n = @ - num] = copy
  <2>1. [w EXCEPT !.obj[p] = xp, !.obj[o].n = @ - num]
          = [w1 EXCEPT !.obj[o].n = @ - num]
    OBVIOUS
  <2>2. w1.obj[o] = x0 /\ w1 \in Memories
    BY <1>1, <1>2 DEF Memories
  <2> HIDE DEF w1, x0, xp
  <2>3. [w1 EXCEPT !.obj[o].n = @ - num] = copy
    BY <1>1, <2>2 DEF Memories, Things
  <2> QED BY <2>1, <2>3 DEF xp, x0
<1>5. w1 \in Memories /\ w1.obj = [w.obj EXCEPT ![p] = xp] /\ w1.timers = w.timers
      /\ w1.lights = w.lights
  <2> HIDE DEF xp
  <2> QED BY <1>2, SetObj
<1> HIDE DEF w1, xo, xp, x0
<1>6. copy \in Memories /\ copy.obj = [w1.obj EXCEPT ![o] = xo] /\ copy.timers = w.timers
      /\ copy.lights = w.lights
  BY <1>3, <1>5, SetObj
<1>7. copy.obj[o] = xo /\ copy.obj[p] = xp /\ \A q \in Objs \ {o, p} : copy.obj[q] = w.obj[q]
  BY <1>1, <1>5, <1>6 
<1> HIDE DEF copy
<1>8. \A q \in Objs : TimersOf(copy, q) = TimersOf(w, q)
  BY <1>6 DEF TimersOf
<1>9. w.obj[p].timed = 0 /\ w.lights[p] = 0 /\ TimersOf(w, p) = {}
  BY DEF InStep
<1>10. CASE ~x0.lamplit
  <2>1. x0.timed = 0
    BY <1>10 DEF InStep, x0
  <2>2. v = copy
    BY <1>4, <1>10, <2>1 DEF splitobj, x0
  <2> HIDE DEF v
  <2>3. InStep(copy, o)
    BY <1>3, <1>6, <1>7, <1>8 DEF InStep, x0
  <2>4. InStep(copy, p)
    BY <1>2, <1>6, <1>7, <1>8, <1>9 DEF InStep
  <2>5. \A q \in Objs \ {o, p} : Same(copy, w, q)
    BY <1>6, <1>7, <1>8 DEF Same
  <2>6. Fresh(w, o, now) => Fresh(copy, o, now)
    BY <1>3, <1>7, <1>8 DEF Fresh, x0
  <2>7. Fresh(w, o, now) => Fresh(copy, p, now)
    BY <1>2, <1>7, <1>8, <1>9 DEF Fresh, x0
  <2>8. Changed(w, copy, {o, p}, now)
    BY <1>6, <2>3, <2>4, <2>5, <2>6, <2>7 DEF Changed
  <2>9. x0.lamplit = FALSE
    BY <1>1, <1>10 DEF Things
  <2>11. TimersOf(w, o) = {} /\ TimersOf(copy, o) = {} /\ TimersOf(copy, p) = {}
    BY <1>8, <1>9, <1>10 DEF InStep, x0
  <2>12. /\ FuelIn(w, o, now) = x0.age /\ FuelIn(copy, o, now) = x0.age
         /\ FuelIn(copy, p, now) = x0.age
    BY <1>2, <1>3, <1>6, <1>7, <2>11, FuelUntimed DEF x0
  <2>13. x0.age \in Int
    BY <1>1 DEF Things
  <2>14. Handled(w, copy, {o, p}, now)
    BY <2>8, <2>12, <2>13, HandledTwo
  <2>10. Handled(w, v, {o, p}, now) /\ v.obj[o] = xo /\ v.obj[p] = xp
    BY <1>7, <2>2, <2>14
  <2> QED BY <1>2, <1>3, <2>9, <2>10 DEF v, x0
<1>11. CASE x0.lamplit
  <2>1. /\ x0.timed = 1 /\ w.lights[o] = 1
        /\ \E t \in BurnTimer : TimersOf(w, o) = {t}
    BY <1>11 DEF InStep, x0
  <2>2. PICK t \in BurnTimer : TimersOf(w, o) = {t}
    BY <2>1
  <2>3. (CHOOSE u \in TimersOf(w, o) : TRUE) = t /\ TimersOf(copy, o) = TimersOf(w, o)
        /\ t.timeout \in Int /\ t.obj = o /\ TimersOf(w, o) # {}
    BY <1>8, <2>2 DEF BurnTimer, TimersOf
  <2> DEFINE end == t.timeout
             tp == [obj |-> p, timeout |-> end]
             s == start_timer(copy, p, end)
             y == Timed(xp)
             z == [y EXCEPT !.lamplit = TRUE]
             s1 == [s EXCEPT !.lights[p] = 1]
             u == [s1 EXCEPT !.obj[p] = z]
  <2>4. v = [s EXCEPT !.lights[p] = w.lights[o], !.obj[p].lamplit = TRUE]
    <3>1. obj_split_timers(copy, o, p) = s
      BY <2>3 DEF obj_split_timers
    <3>2. w.obj[o].timed # 0 /\ w.lights[o] > 0 /\ w.obj[o].lamplit
      BY <1>11, <2>1 DEF x0
    <3> HIDE DEF s
    <3> QED BY <1>4, <3>1, <3>2 DEF splitobj
  <2>5. end \in Int
    BY <2>3
  <2> HIDE DEF end, v
  <2>6. /\ s \in Memories /\ s.obj = [copy.obj EXCEPT ![p] = y] /\ s.obj[p] = y
        /\ s.timers = copy.timers \cup {tp} /\ s.lights = copy.lights /\ y \in Things
    <3>1. copy.obj[p].timed = 0 /\ y = Timed(copy.obj[p])
      BY <1>2, <1>7
    <3>2. tp = [obj |-> p, timeout |-> end] /\ s = start_timer(copy, p, end)
      OBVIOUS
    <3> HIDE DEF y, xp, tp, s
    <3>3. Started(copy, s, p, y, tp)
      BY <1>6, <2>5, <3>1, <3>2, StartTimer
    <3> QED BY <3>3 DEF Started
  <2>7. y.lamplit = FALSE /\ y.timed = 1 /\ y.n = num /\ y.age = x0.age /\ y.where = x0.where
    BY <1>2 DEF Timed, Things
  <2> HIDE DEF s, y
  <2>8. s1 \in Memories /\ s1.obj = s.obj /\ s1.timers = s.timers
        /\ s1.lights = [s.lights EXCEPT ![p] = 1]
    BY <2>6 DEF Memories
  <2>9. [s EXCEPT !.lights[p] = 1, !.obj[p].lamplit = TRUE] = [s1 EXCEPT !.obj[p].lamplit = TRUE]
    OBVIOUS
  <2> HIDE DEF s1
  <2>10. /\ z \in Things /\ z.lamplit /\ z.timed = 1 /\ z.n = num /\ z.age = x0.age
         /\ z.where = x0.where
    BY <2>6, <2>7 DEF Things
  <2>11. s1.obj[p] = y
    BY <2>6, <2>8
  <2>12. [s1 EXCEPT !.obj[p].lamplit = TRUE] = u
    BY <2>8, <2>11 DEF Memories, Things
  <2> HIDE DEF z
  <2>13. /\ u \in Memories /\ u.obj = [s1.obj EXCEPT ![p] = z] /\ u.obj[p] = z
         /\ u.timers = s1.timers /\ u.lights = s1.lights
    BY <2>8, <2>10, SetObj
  <2> HIDE DEF u
  <2>14. v = u
    BY <2>1, <2>4, <2>9, <2>12
  <2>15. copy.obj \in [Objs -> Things] /\ copy.lights \in [Objs -> 0..1]
    BY <1>6 DEF Memories
  <2>16. u.obj[o] = xo /\ \A q \in Objs \ {o, p} : u.obj[q] = w.obj[q]
    BY <1>7, <2>6, <2>8, <2>13, <2>15
  <2>17. /\ u.timers = w.timers \cup {tp}
         /\ u.lights = [w.lights EXCEPT ![p] = 1]
    BY <1>6, <2>6, <2>8, <2>13
  <2>18. tp \in BurnTimer /\ tp.obj = p /\ tp.timeout = end
    BY <2>5 DEF BurnTimer
  <2> HIDE DEF tp
  <2>19. TimersOf(u, p) = {tp} /\ \A q \in Objs \ {p} : TimersOf(u, q) = TimersOf(w, q)
    BY <1>9, <2>17, <2>18 DEF TimersOf
  <2>20. u.lights[p] = 1 /\ \A q \in Objs \ {p} : u.lights[q] = w.lights[q]
    BY <1>1, <2>17
  <2>21. \A q \in Objs \ {o, p} : Same(u, w, q)
    BY <2>16, <2>19, <2>20 DEF Same
  <2>22. InStep(u, p)
    BY <2>10, <2>13, <2>18, <2>19, <2>20 DEF InStep
  <2>23. InStep(u, o)
    BY <1>3, <1>11, <2>1, <2>16, <2>19, <2>20 DEF InStep
  <2>24. Fresh(w, o, now) => Fresh(u, o, now) /\ Fresh(u, p, now)
    <3> SUFFICES ASSUME Fresh(w, o, now) PROVE Fresh(u, o, now) /\ Fresh(u, p, now)
      OBVIOUS
    <3>1. x0.age >= 0 /\ end > now
      BY <2>2 DEF Fresh, x0, end
    <3>2. Fresh(u, o, now)
      BY <1>3, <2>2, <2>16, <2>19, <3>1 DEF Fresh, end
    <3>3. Fresh(u, p, now)
      BY <2>10, <2>13, <2>18, <2>19, <3>1 DEF Fresh
    <3> QED BY <3>2, <3>3
  <2>25. Changed(w, u, {o, p}, now)
    BY <2>13, <2>21, <2>22, <2>23, <2>24 DEF Changed
  <2> DEFINE rest == x0.age + end - now
  <2>26. FuelIn(w, o, now) = rest
    BY <2>2, FuelTimed DEF FuelWith, x0, end
  <2>27. TimersOf(u, o) = {t} /\ u.obj[o].age = x0.age
    BY <1>3, <2>2, <2>16, <2>19
  <2>28. FuelIn(u, o, now) = rest
    <3>1. FuelIn(u, o, now) = FuelWith(u.obj[o], t, now)
      BY <2>2, <2>13, <2>27, FuelTimed
    <3> QED BY <2>27, <3>1 DEF FuelWith, end
  <2>29. FuelIn(u, p, now) = rest
    <3>2. u \in Memories /\ tp \in BurnTimer /\ TimersOf(u, p) = {tp}
      BY <2>13, <2>18, <2>19
    <3>1. FuelIn(u, p, now) = FuelWith(u.obj[p], tp, now)
      BY <3>2, FuelTimed
    <3> QED BY <2>10, <2>13, <2>18, <3>1 DEF FuelWith
  <2>30. rest \in Int
    <3>1. x0.age \in Int
      BY <1>1 DEF Things
    <3> QED BY <2>5, <3>1
  <2> HIDE DEF rest
  <2>31. Handled(w, u, {o, p}, now)
    <3>1. \A q \in {o, p} : FuelIn(u, q, now) <= FuelIn(w, o, now)
      BY <2>26, <2>28, <2>29, <2>30
    <3> QED BY <2>25, <3>1, HandledTwo
  <2> QED BY <1>3, <1>11, <2>7, <2>10, <2>13, <2>14, <2>16, <2>31 DEF v, x0
<1> QED BY <1>10, <1>11

LEMMA QuotientNat ==
  ASSUME NEW a \in Int, NEW b \in Nat \ {0}
  PROVE  Quotient(a, b) \in Int /\ (a >= 0 => Quotient(a, b) >= 0)
BY DEF Quotient

\* The mean is more than neither, or it is none.
LEMMA MeanAtMost ==
  ASSUME NEW a \in Int, NEW b \in Nat, NEW c \in Int, NEW d \in Nat, b + d > 0
  PROVE  LET mean == Quotient(a * b + c * d, b + d)
         IN mean <= 0 \/ mean <= a \/ mean <= c
<1> DEFINE all == b + d
           sum == a * b + c * d
           mean == Quotient(sum, all)
           most == IF a > c THEN a ELSE c
<1>1. all \in Nat \ {0} /\ most \in Int /\ a <= most /\ c <= most
  OBVIOUS
<1>2. sum \in Int
  OBVIOUS
<1>3. a * b <= most * b /\ c * d <= most * d
  BY <1>1
<1>4. most * all = most * b + most * d
  BY <1>1
<1>5. sum <= most * all
  <2> DEFINE ab == a * b
             cd == c * d
             mb == most * b
             md == most * d
  <2>1. ab \in Int /\ cd \in Int /\ mb \in Int /\ md \in Int
    BY <1>1
  <2>2. ab <= mb /\ cd <= md /\ most * all = mb + md /\ sum = ab + cd
    BY <1>3, <1>4
  <2> HIDE DEF ab, cd, mb, md, sum, most, all
  <2> QED BY <2>1, <2>2
<1> HIDE DEF sum, all
<1>6. CASE sum < 0
  <2>1. -sum \in Nat
    BY <1>2, <1>6
  <2>2. (-sum) \div all \in Nat
    BY <1>1, <2>1
  <2>3. mean = -((-sum) \div all)
    BY <1>6 DEF Quotient
  <2>4. mean <= 0
    BY <2>2, <2>3
  <2> QED BY <2>4 DEF sum, all
<1>7. CASE sum >= 0
  <2> DEFINE q == sum \div all
  <2>1. mean = q
    BY <1>2, <1>7 DEF Quotient
  <2>2. q \in Int /\ all * q <= sum
    BY <1>1, <1>2
  <2> HIDE DEF q, most
  <2>3. all * q <= most * all
    BY <1>1, <1>2, <1>5, <2>2
  <2>4. q <= most
    <3> SUFFICES ASSUME most < q PROVE FALSE
      BY <1>1, <2>2
    <3>1. most + 1 <= q
      BY <1>1, <2>2
    <3>2. all * (most + 1) <= all * q
      BY <1>1, <2>2, <3>1
    <3>3. all * (most + 1) = most * all + all
      BY <1>1
    <3> DEFINE x == all * q
               y == most * all
    <3>4. x \in Int /\ y \in Int /\ x <= y /\ y + all <= x
      BY <1>1, <2>2, <2>3, <3>2, <3>3
    <3> HIDE DEF x, y
    <3> QED BY <1>1, <3>4
  <2>5. mean <= a \/ mean <= c
    BY <2>1, <2>4 DEF most
  <2> QED BY <2>5 DEF sum, all
<1> QED BY <1>2, <1>6, <1>7

\* merged(): the stack that is folded in is gone, the other has its number.
LEMMA Merged ==
  ASSUME NEW w \in Memories, NEW d \in Objs, NEW s \in Objs, NEW now \in Int,
         InStep(w, d), InStep(w, s), mergable(w, d, s), w.obj[d].n > 0
  PROVE  LET v == merged(w, d, s, now)
         IN /\ Handled(w, v, {d, s}, now) /\ v.obj[s] = NoObject
            /\ v.obj[d].where = w.obj[d].where /\ v.obj[d].n > 0
            /\ v.obj[d].lamplit = w.obj[d].lamplit
<1> DEFINE xd == w.obj[d]
           xs == w.obj[s]
           all == xd.n + xs.n
           sum == xd.age * xd.n + xs.age * xs.n
           age == IF xs.lamplit THEN xd.age ELSE Quotient(sum, all)
           x1 == [xd EXCEPT !.n = all]
           x2 == [x1 EXCEPT !.age = age]
           folded == [w EXCEPT !.obj[d] = x2]
           dark == IF xs.lamplit THEN end_burn(folded, s, TRUE, now) ELSE folded
           v == dealloc_obj(dark, s, now)
<1>1. xd \in Things /\ xs \in Things /\ d # s /\ xd.n > 0
  BY DEF mergable, Memories
<1>2. all \in Nat \ {0} /\ sum \in Int
  <2> HIDE DEF xd, xs
  <2> QED BY <1>1 DEF Things
<1>3. xd.age >= 0 /\ xs.age >= 0 => sum >= 0
  <2> SUFFICES ASSUME xd.age >= 0, xs.age >= 0 PROVE sum >= 0
    OBVIOUS
  <2> DEFINE a == xd.age
             b == xd.n
             e == xs.age
             f == xs.n
  <2>1. a \in Nat /\ b \in Nat /\ e \in Nat /\ f \in Nat
    BY <1>1 DEF Things
  <2> HIDE DEF a, b, e, f
  <2>2. a * b \in Nat /\ e * f \in Nat
    BY <2>1
  <2>3. a * b + e * f >= 0
    BY <2>2
  <2> QED BY <2>3 DEF a, b, e, f
<1> HIDE DEF all, sum
<1>4. age \in Int /\ (xd.age >= 0 /\ xs.age >= 0 => age >= 0)
  BY <1>1, <1>2, <1>3, QuotientNat DEF Things
<1>16. age <= 0 \/ age <= xd.age \/ age <= xs.age
  <2>1. CASE xs.lamplit
    <3>1. xd.age \in Int
      BY <1>1 DEF Things
    <3> QED BY <2>1, <3>1
  <2>2. CASE ~xs.lamplit
    <3> DEFINE a == xd.age
               b == xd.n
               e == xs.age
               f == xs.n
               mean == Quotient(a * b + e * f, b + f)
    <3>1. a \in Int /\ b \in Nat /\ e \in Int /\ f \in Nat /\ b + f > 0
      BY <1>1 DEF Things
    <3>2. age = mean
      BY <2>2 DEF all, sum
    <3> HIDE DEF a, b, e, f, age
    <3>3. mean <= 0 \/ mean <= a \/ mean <= e
      BY <3>1, MeanAtMost
    <3> QED BY <3>2, <3>3 DEF a, e
  <2> QED BY <2>1, <2>2
<1>5. merged(w, d, s, now) = v
  <2>1. [w EXCEPT !.obj[d].n = all, !.obj[d].age = IF xs.lamplit THEN @ ELSE Quotient(sum, all)]
          = folded
    <3> DEFINE wn == [w EXCEPT !.obj[d] = x1]
    <3>1. [w EXCEPT !.obj[d].n = all] = wn
      BY <1>1, <1>2 DEF Memories, Things
    <3>2. wn \in Memories /\ wn.obj[d] = x1 /\ x1.age = xd.age /\ x1 \in Things
      <4>1. x1 \in Things /\ x1.age = xd.age
        <5> HIDE DEF xd
        <5> QED BY <1>1, <1>2, SetN
      <4> HIDE DEF x1
      <4> QED BY <4>1, SetObj
    <3>3. folded = [wn EXCEPT !.obj[d] = x2]
      BY DEF Memories
    <3> HIDE DEF wn, x1, age
    <3>4. [wn EXCEPT !.obj[d].age = age] = [wn EXCEPT !.obj[d] = x2]
      BY <3>2 DEF Memories, Things
    <3>5. [w EXCEPT !.obj[d].n = all, !.obj[d].age = IF xs.lamplit THEN @ ELSE Quotient(sum, all)]
            = [w EXCEPT !.obj[d].n = all, !.obj[d].age = age]
      BY <1>1 DEF age, Memories, Things
    <3>6. [w EXCEPT !.obj[d].n = all, !.obj[d].age = age]
            = [[w EXCEPT !.obj[d].n = all] EXCEPT !.obj[d].age = age]
      OBVIOUS
    <3> HIDE DEF folded
    <3> QED BY <3>1, <3>3, <3>4, <3>5, <3>6
  <2>2. merged(w, d, s, now) =
          dealloc_obj(IF xs.lamplit
                        THEN obj_merge_light_sources(
                               [w EXCEPT !.obj[d].n = all,
                                         !.obj[d].age = IF xs.lamplit THEN @ ELSE Quotient(sum, all)],
                               s, d, now)
                        ELSE [w EXCEPT !.obj[d].n = all,
                                       !.obj[d].age = IF xs.lamplit THEN @ ELSE Quotient(sum, all)],
                      s, now)
    BY DEF merged, all, sum
  <2>3. obj_merge_light_sources(folded, s, d, now) = end_burn(folded, s, TRUE, now)
    BY <1>1 DEF obj_merge_light_sources
  <2> HIDE DEF folded, xs
  <2> QED BY <2>1, <2>2, <2>3
<1>6. /\ x2 \in Things /\ x2.lamplit = xd.lamplit /\ x2.timed = xd.timed /\ x2.n = all
      /\ x2.age = age /\ x2.where = xd.where
  <2>1. x1 \in Things /\ x1.lamplit = xd.lamplit /\ x1.timed = xd.timed /\ x1.n = all
        /\ x1.where = xd.where
    <3> HIDE DEF xd
    <3> QED BY <1>1, <1>2, SetN
  <2> HIDE DEF x1, age
  <2> QED BY <1>4, <2>1, SetAge
<1>7. (\A q \in {d, s} : Fresh(w, q, now)) => x2.age >= 0
  BY <1>4, <1>6 DEF Fresh
<1> HIDE DEF x2
<1>8. /\ Changed(w, folded, {d, s}, now) /\ folded.obj[d] = x2
      /\ FuelIn(folded, d, now) = Shifted(FuelIn(w, d, now), xd.age, x2.age)
      /\ Same(folded, w, s)
  <2> DEFINE E == {d, s}
  <2>1. E \in SUBSET Objs /\ d \in E /\ (\A q \in E : InStep(w, q))
        /\ ((\A q \in E : Fresh(w, q, now)) => x2.age >= 0)
    BY <1>7
  <2> HIDE DEF E
  <2>2. /\ Changed(w, folded, E, now) /\ folded.obj[d] = x2
        /\ FuelIn(folded, d, now) = Shifted(FuelIn(w, d, now), xd.age, x2.age)
        /\ \A q \in Objs \ {d} : Same(folded, w, q)
    BY <1>6, <2>1, SetThing
  <2> QED BY <1>1, <2>2 DEF E
<1> HIDE DEF folded
<1>18. Handled(w, folded, {d, s}, now)
  <2>1. /\ FuelIn(w, d, now) \in Int /\ FuelIn(w, s, now) \in Int
        /\ xd.age \in Int /\ FuelIn(folded, s, now) = FuelIn(w, s, now)
    BY <1>1, <1>8, FuelInt, FuelSame DEF Things
  <2>2. CASE xs.lamplit
    <3>1. x2.age = xd.age
      BY <1>6, <2>2
    <3>2. FuelIn(folded, d, now) = FuelIn(w, d, now)
      BY <1>8, <2>1, <3>1 DEF Shifted
    <3>3. \A q \in {d, s} : FuelIn(folded, q, now) <= FuelIn(w, q, now)
      BY <2>1, <3>2
    <3> QED BY <1>8, <3>3, HandledTwo
  <2>3. CASE ~xs.lamplit
    <3>1. ~xd.lamplit
      BY <2>3 DEF mergable
    <3>2. FuelIn(w, d, now) = xd.age /\ FuelIn(w, s, now) = xs.age
      BY <2>3, <3>1, FuelUntimed DEF InStep
    <3> DEFINE a == FuelIn(w, d, now)
               b == FuelIn(w, s, now)
               c == FuelIn(folded, d, now)
    <3>3. c = age
      BY <1>4, <1>6, <1>8, <2>1, <3>2 DEF Shifted
    <3>4. c <= 0 \/ c <= a \/ c <= b
      BY <1>16, <3>2, <3>3
    <3>5. FuelIn(folded, s, now) <= b
      BY <2>1
    <3> QED BY <1>8, <3>4, <3>5, HandledTwo
  <2> QED BY <2>2, <2>3
<1>9. folded \in Memories /\ InStep(folded, s)
  BY <1>8 DEF Changed
<1>10. Handled(folded, dark, {s}, now)
  BY <1>9, EndBurn, NothingChanged, HandledOne
<1> HIDE DEF dark
<1>11. dark \in Memories /\ InStep(dark, s)
  BY <1>10 DEF Handled, Changed
<1>12. Handled(dark, v, {s}, now) /\ v.obj[s] = NoObject
  BY <1>11, Dealloc
<1> HIDE DEF v
<1>13. Handled(folded, v, {s}, now) /\ v.obj[d] = dark.obj[d] /\ dark.obj[d] = folded.obj[d]
  <2>1. Handled(folded, v, {s} \cup {s}, now)
    BY <1>9, <1>10, <1>12, HandledThen
  <2>2. v.obj[d] = dark.obj[d] /\ dark.obj[d] = folded.obj[d]
    BY <1>1, <1>10, <1>12 DEF Handled, Changed, Same
  <2> QED BY <2>1, <2>2
<1>14. Handled(w, v, {d, s} \cup {s}, now)
  BY <1>13, <1>18, HandledThen
<1>15. {d, s} \cup {s} = {d, s}
  OBVIOUS
<1> QED BY <1>2, <1>5, <1>6, <1>8, <1>12, <1>13, <1>14, <1>15

\* use_candle() from the moment the stack that goes on the candelabrum is known
LEMMA Attached ==
  ASSUME NEW w \in Memories, NEW c \in Objs, NEW m \in Objs, c # m, moves \in Int,
         InStep(w, c), InStep(w, m), w.obj[m].lamplit => w.obj[m].n > 0
  PROVE  LET v == attached(w, c, m)
         IN /\ Handled(w, v, {c, m}, moves) /\ v.obj[c] = NoObject
            /\ v.obj[m].where = w.obj[m].where /\ v.obj[m].lamplit = w.obj[m].lamplit
            /\ v.obj[m].n >= w.obj[m].n
<1> DEFINE dark == IF w.obj[c].lamplit THEN end_burn(w, c, TRUE, moves) ELSE w
           xm == dark.obj[m]
           xc == dark.obj[c]
           age == IF xm.n = 0 \/ xm.age > xc.age THEN xc.age ELSE xm.age
           x1 == [xm EXCEPT !.age = age]
           x2 == [x1 EXCEPT !.n = x1.n + xc.n]
           fixed == [dark EXCEPT !.obj[m] = x2]
           v == dealloc_obj(fixed, c, moves)
<1>1. Handled(w, dark, {c}, moves) /\ ~dark.obj[c].lamplit
  BY EndBurn, NothingChanged, HandledOne
<1>2. dark \in Memories /\ InStep(dark, c) /\ InStep(dark, m) /\ xm = w.obj[m]
  BY <1>1 DEF Handled, Changed, Same, InStep
<1>3. attached(w, c, m) = v
  <2>1. [dark EXCEPT !.obj[m].age = IF dark.obj[m].n = 0 \/ @ > dark.obj[c].age
                                      THEN dark.obj[c].age ELSE @,
                     !.obj[m].n = @ + dark.obj[c].n]
          = fixed
    <3> DEFINE da == [dark EXCEPT !.obj[m] = x1]
    <3> HIDE DEF dark
    <3>1. [dark EXCEPT !.obj[m].age = age] = da
      BY <1>2 DEF Memories, Things
    <3>2. xm \in Things /\ xc \in Things
      BY <1>2 DEF Memories
    <3>3. da \in Memories /\ da.obj[m] = x1 /\ x1 \in Things
      <4>1. x1 \in Things
        <5> HIDE DEF xm, xc
        <5>1. age \in Int
          BY <3>2 DEF Things
        <5> QED BY <3>2, <5>1, SetAge
      <4> HIDE DEF x1
      <4> QED BY <1>2, <4>1, SetObj
    <3>4. fixed = [da EXCEPT !.obj[m] = x2]
      <4> HIDE DEF x1, x2
      <4> QED BY <1>2 DEF Memories
    <3>5. [dark EXCEPT !.obj[m].age = IF dark.obj[m].n = 0 \/ @ > dark.obj[c].age
                                        THEN dark.obj[c].age ELSE @]
            = [dark EXCEPT !.obj[m].age = age]
      OBVIOUS
    <3>6. [dark EXCEPT !.obj[m].age = IF dark.obj[m].n = 0 \/ @ > dark.obj[c].age
                                        THEN dark.obj[c].age ELSE @,
                       !.obj[m].n = @ + dark.obj[c].n]
            = [[dark EXCEPT !.obj[m].age = IF dark.obj[m].n = 0 \/ @ > dark.obj[c].age
                                             THEN dark.obj[c].age ELSE @]
                 EXCEPT !.obj[m].n = @ + dark.obj[c].n]
      OBVIOUS
    <3> HIDE DEF da, x1, age
    <3>7. [da EXCEPT !.obj[m].n = @ + dark.obj[c].n] = [da EXCEPT !.obj[m] = x2]
      BY <3>3 DEF Memories, Things
    <3> QED BY <3>1, <3>4, <3>5, <3>6, <3>7
  <2> HIDE DEF fixed
  <2> QED BY <2>1 DEF attached
<1> HIDE DEF dark
<1>4. xm \in Things /\ xc \in Things
  BY <1>2 DEF Memories
<1>5. age \in Int /\ (xm.age >= 0 /\ xc.age >= 0 => age >= 0)
  BY <1>4 DEF Things
<1>6. /\ x2 \in Things /\ x2.lamplit = xm.lamplit /\ x2.timed = xm.timed
      /\ x2.age = age /\ x2.where = xm.where /\ x2.n >= xm.n
  <2> HIDE DEF xm, xc, age
  <2>1. /\ x1 \in Things /\ x1.lamplit = xm.lamplit /\ x1.timed = xm.timed /\ x1.age = age
        /\ x1.where = xm.where /\ x1.n = xm.n
    BY <1>4, <1>5, SetAge
  <2> HIDE DEF x1
  <2>2. x1.n + xc.n \in Nat /\ x1.n + xc.n >= xm.n
    BY <1>4, <2>1 DEF Things
  <2> QED BY <2>1, <2>2, SetN
<1>7. (\A q \in {c, m} : Fresh(dark, q, moves)) => x2.age >= 0
  BY <1>5, <1>6 DEF Fresh
<1> HIDE DEF x2
<1>8. Changed(dark, fixed, {c, m}, moves) /\ fixed.obj[m] = x2
      /\ FuelIn(fixed, m, moves) = Shifted(FuelIn(dark, m, moves), xm.age, x2.age)
      /\ Same(fixed, dark, c)
  <2> DEFINE E == {c, m}
  <2>1. E \in SUBSET Objs /\ m \in E /\ (\A q \in E : InStep(dark, q))
        /\ ((\A q \in E : Fresh(dark, q, moves)) => x2.age >= 0)
    BY <1>2, <1>7
  <2> HIDE DEF E
  <2>2. /\ Changed(dark, fixed, E, moves) /\ fixed.obj[m] = x2
        /\ FuelIn(fixed, m, moves) = Shifted(FuelIn(dark, m, moves), xm.age, x2.age)
        /\ \A q \in Objs \ {m} : Same(fixed, dark, q)
    BY <1>2, <1>6, <2>1, SetThing
  <2> QED BY <2>2 DEF E
<1> HIDE DEF fixed
<1>14. Handled(dark, fixed, {c, m}, moves)
  <2> DEFINE a == FuelIn(dark, c, moves)
             b == FuelIn(dark, m, moves)
             d == FuelIn(fixed, m, moves)
  <2>1. a \in Int /\ b \in Int /\ xm.age \in Int /\ xc.age \in Int
    BY <1>2, <1>4, FuelInt DEF Things
  <2>2. a = xc.age /\ (xm.n = 0 => b = xm.age)
    BY <1>1, <1>2, FuelUntimed DEF InStep
  <2>3. d = b + age - xm.age
    BY <1>6, <1>8 DEF Shifted
  <2>4. FuelIn(fixed, c, moves) = a
    BY <1>8, FuelSame
  <2> HIDE DEF a, b, d
  <2>5. d <= a \/ d <= b
    <3> DEFINE y == xm.age
               z == xc.age
    <3>1. age = IF xm.n = 0 \/ y > z THEN z ELSE y
      BY DEF age
    <3>2. y \in Int /\ z \in Int /\ a = z /\ (xm.n = 0 => b = y) /\ d = b + age - y
      BY <2>1, <2>2, <2>3
    <3> HIDE DEF y, z
    <3> QED BY <2>1, <3>1, <3>2
  <2>6. \A q \in {c, m} : FuelIn(fixed, q, moves) <= a \/ FuelIn(fixed, q, moves) <= b
    BY <2>1, <2>4, <2>5 DEF d
  <2> QED BY <1>2, <1>8, <2>6, HandledTwo DEF a, b
<1>9. fixed \in Memories /\ InStep(fixed, c)
  BY <1>8 DEF Changed
<1>10. Handled(fixed, v, {c}, moves) /\ v.obj[c] = NoObject
  BY <1>9, Dealloc
<1> HIDE DEF v
<1>11. Handled(dark, v, {c, m} \cup {c}, moves) /\ v.obj[m] = fixed.obj[m]
  <2>1. Handled(dark, v, {c, m} \cup {c}, moves)
    <3> DEFINE D == {c, m}
               E == {c}
    <3>1. D \in SUBSET Objs /\ E \in SUBSET Objs
      OBVIOUS
    <3>2. Handled(dark, fixed, D, moves) /\ Handled(fixed, v, E, moves)
      BY <1>10, <1>14
    <3> HIDE DEF D, E
    <3>3. Handled(dark, v, D \cup E, moves)
      BY <1>2, <3>1, <3>2, HandledThen
    <3> QED BY <3>3 DEF D, E
  <2>2. v.obj[m] = fixed.obj[m]
    BY <1>10 DEF Handled, Changed, Same
  <2> QED BY <2>1, <2>2
<1>12. Handled(w, v, {c} \cup ({c, m} \cup {c}), moves)
  BY <1>1, <1>11, HandledThen
<1>13. {c} \cup ({c, m} \cup {c}) = {c, m}
  OBVIOUS
<1> QED BY <1>2, <1>3, <1>6, <1>8, <1>10, <1>11, <1>12, <1>13

\* useup(): one less, or none
LEMMA UseUp ==
  ASSUME NEW w \in Memories, NEW o \in Objs, moves \in Int, InStep(w, o)
  PROVE  LET v == useup(w, o)
         IN /\ Handled(w, v, {o}, moves)
            /\ \/ v.obj[o] = NoObject /\ FuelIn(v, o, moves) = 0
               \/ /\ v.obj[o].where = w.obj[o].where /\ v.obj[o].n > 0
                  /\ v.obj[o].lamplit = w.obj[o].lamplit /\ v.obj[o].age = w.obj[o].age
                  /\ FuelIn(v, o, moves) = FuelIn(w, o, moves)
<1> DEFINE x0 == w.obj[o]
           x == [x0 EXCEPT !.n = x0.n - 1]
           v == [w EXCEPT !.obj[o] = x]
<1>1. CASE w.obj[o].n > 1
  <2>1. useup(w, o) = v
    BY <1>1 DEF useup, Memories, Things
  <2>2. x0 \in Things /\ x0.n > 1
    BY <1>1 DEF Memories
  <2>3. /\ x \in Things /\ x.lamplit = x0.lamplit /\ x.timed = x0.timed
        /\ x.where = x0.where /\ x.n > 0 /\ x.age = x0.age
    <3> HIDE DEF x0
    <3>1. x0.n - 1 \in Nat /\ x0.n - 1 > 0
      BY <2>2 DEF Things
    <3> QED BY <2>2, <3>1, SetN
  <2>4. Fresh(w, o, moves) => x.age >= 0
    BY <2>3 DEF Fresh
  <2> HIDE DEF x
  <2> DEFINE D == {o}
  <2>5. D \in SUBSET Objs /\ o \in D /\ (\A q \in D : InStep(w, q))
        /\ ((\A q \in D : Fresh(w, q, moves)) => x.age >= 0)
    BY <2>4
  <2> HIDE DEF D
  <2>6. /\ Changed(w, v, D, moves) /\ v.obj[o] = x
        /\ FuelIn(v, o, moves) = Shifted(FuelIn(w, o, moves), x0.age, x.age)
    BY <2>2, <2>3, <2>5, SetThing
  <2>7. FuelIn(v, o, moves) = FuelIn(w, o, moves)
    <3>1. FuelIn(w, o, moves) \in Int /\ x0.age \in Int
      BY <2>2, FuelInt DEF Things
    <3> QED BY <2>3, <2>6, <3>1 DEF Shifted
  <2>8. Handled(w, v, {o}, moves)
    BY <2>6, <2>7, HandledOne DEF D
  <2> QED BY <2>1, <2>3, <2>6, <2>7, <2>8
<1>2. CASE ~(w.obj[o].n > 1)
  <2>1. useup(w, o) = dealloc_obj(w, o, moves)
    BY <1>2 DEF useup
  <2>2. /\ Handled(w, dealloc_obj(w, o, moves), {o}, moves)
        /\ dealloc_obj(w, o, moves).obj[o] = NoObject
        /\ FuelIn(dealloc_obj(w, o, moves), o, moves) = 0
    BY Dealloc
  <2> QED BY <2>1, <2>2
<1> QED BY <1>1, <1>2

\* A lit object whose timer has just been taken off the list
Lone(w, o) ==
  /\ w \in Memories /\ w.obj[o].lamplit /\ w.obj[o].timed = 0
  /\ w.lights[o] = 1 /\ TimersOf(w, o) = {}

\* What burn_object() makes of it: a candelabrum that has burnt out is empty.
Ran(w, v, o, now) ==
  /\ v \in Memories /\ \A q \in Objs \ {o} : Same(v, w, q)
  /\ InStep(v, o) /\ (w.obj[o].age >= 0 => Fresh(v, o, now))
  /\ \/ v.obj[o] = NoObject
     \/ /\ v.obj[o].where = w.obj[o].where
        /\ \/ Kind[o] = "menorah" /\ ~v.obj[o].lamplit
           \/ v.obj[o].n = w.obj[o].n

\* It burns on with the fuel there was, or there was none and it is out.
Aged(v, o, fuel, now) ==
  IF v.obj[o].lamplit
    THEN FuelIn(v, o, now) = fuel /\ (Kind[o] = "oil" => v.obj[o].age = 0)
    ELSE FuelIn(v, o, now) = 0 /\ fuel <= 0

\* Its fuel may be written before.
LEMMA LoneAge ==
  ASSUME NEW w, NEW o \in Objs, Lone(w, o), NEW age \in Int
  PROVE  LET v == [w EXCEPT !.obj[o].age = age]
         IN /\ Lone(v, o) /\ \A q \in Objs \ {o} : Same(v, w, q)
            /\ v.obj[o].age = age /\ v.obj[o].where = w.obj[o].where
            /\ v.obj[o].n = w.obj[o].n
<1> DEFINE x0 == w.obj[o]
           x == [x0 EXCEPT !.age = age]
           v == [w EXCEPT !.obj[o] = x]
<1>1. x0 \in Things /\ w \in Memories
  BY DEF Lone, Memories
<1>2. [w EXCEPT !.obj[o].age = age] = v
  BY <1>1 DEF Memories, Things
<1>3. /\ x \in Things /\ x.age = age /\ x.where = x0.where /\ x.n = x0.n
      /\ x.lamplit = x0.lamplit /\ x.timed = x0.timed
  <2> HIDE DEF x0
  <2> QED BY <1>1, SetAge
<1> HIDE DEF x
<1>4. /\ v \in Memories /\ v.obj = [w.obj EXCEPT ![o] = x] /\ v.obj[o] = x
      /\ v.timers = w.timers /\ v.lights = w.lights
  BY <1>1, <1>3, SetObj
<1> HIDE DEF v
<1>5. \A q \in Objs : TimersOf(v, q) = TimersOf(w, q)
  BY <1>4 DEF TimersOf
<1>6. w.obj \in [Objs -> Things]
  BY <1>1 DEF Memories
<1>7. \A q \in Objs \ {o} : Same(v, w, q)
  BY <1>4, <1>5, <1>6 DEF Same
<1>8. Lone(v, o)
  BY <1>3, <1>4, <1>5 DEF Lone
<1> QED BY <1>2, <1>3, <1>4, <1>7, <1>8

LEMMA BurntOut ==
  ASSUME NEW w, NEW o \in Objs, Lone(w, o), NEW now \in Int
  PROVE  /\ Ran(w, burnt_out(w, o, now), o, now)
         /\ ~burnt_out(w, o, now).obj[o].lamplit
         /\ w.obj[o].age = 0 => FuelIn(burnt_out(w, o, now), o, now) = 0
<1> DEFINE x0 == w.obj[o]
           x == [x0 EXCEPT !.lamplit = FALSE]
           v1 == [w EXCEPT !.lights[o] = 0]
           dark == [v1 EXCEPT !.obj[o] = x]
           y == [x EXCEPT !.n = 0]
<1>1. w \in Memories /\ x0 \in Things /\ x0.timed = 0 /\ w.lights[o] = 1
      /\ w.obj \in [Objs -> Things] /\ w.lights \in [Objs -> 0..1] /\ x0.lamplit
  BY DEF Lone, Memories
<1>2. del_light_source(w, o) = v1
  BY <1>1 DEF del_light_source, Memories
<1>3. v1 \in Memories /\ v1.lights = [w.lights EXCEPT ![o] = 0] /\ v1.timers = w.timers
      /\ v1.obj = w.obj
  BY <1>1 DEF Memories
<1> HIDE DEF v1
<1>4. end_burn(w, o, FALSE, now) = dark
  <2>1. end_burn(w, o, FALSE, now) = [v1 EXCEPT !.obj[o].lamplit = FALSE]
    BY <1>1, <1>2 DEF end_burn
  <2>2. v1.obj[o] = x0
    BY <1>3
  <2> HIDE DEF x0
  <2>3. [v1 EXCEPT !.obj[o].lamplit = FALSE] = dark
    BY <1>1, <1>3, <2>2 DEF Memories, Things
  <2> QED BY <2>1, <2>3
<1>5. /\ x \in Things /\ ~x.lamplit /\ x.timed = 0 /\ x.age = x0.age
      /\ x.where = x0.where /\ x.n = x0.n
  <2> HIDE DEF x0
  <2> QED BY <1>1, SetLamplit
<1> HIDE DEF x
<1>6. /\ dark \in Memories /\ dark.obj = [w.obj EXCEPT ![o] = x] /\ dark.timers = w.timers
      /\ dark.lights = [w.lights EXCEPT ![o] = 0]
  BY <1>3, <1>5, SetObj
<1> HIDE DEF dark
<1>7. w.timers = {u \in w.timers : u.obj # o}
  BY DEF Lone, TimersOf
<1>8. Put(w, dark, o, x, {}, 0)
  BY <1>6, <1>7 DEF Put
<1>9. /\ dark.obj[o] = x /\ dark.lights[o] = 0 /\ TimersOf(dark, o) = {}
      /\ \A q \in Objs \ {o} : Same(dark, w, q)
  BY <1>1, <1>5, <1>8, PutObject
<1>10. InStep(dark, o)
  BY <1>5, <1>9 DEF InStep
<1>11. x0.age >= 0 => Fresh(dark, o, now)
  BY <1>5, <1>9 DEF Fresh
<1>12. CASE Kind[o] = "lamp"
  <2>1. burnt_out(w, o, now) = dark
    BY <1>4, <1>12 DEF burnt_out
  <2>2. FuelIn(dark, o, now) = x0.age
    BY <1>5, <1>6, <1>9, FuelUntimed
  <2> QED BY <1>5, <1>6, <1>9, <1>10, <1>11, <2>1, <2>2 DEF Ran
<1>13. CASE Kind[o] = "menorah"
  <2> DEFINE v == [dark EXCEPT !.obj[o] = y]
  <2>1. burnt_out(w, o, now) = v
    <3>1. burnt_out(w, o, now) = [dark EXCEPT !.obj[o].n = 0]
      BY <1>4, <1>13 DEF burnt_out
    <3>2. [dark EXCEPT !.obj[o].n = 0] = v
      BY <1>5, <1>6, <1>9 DEF Memories, Things
    <3> QED BY <3>1, <3>2
  <2>2. /\ y \in Things /\ y.lamplit = x.lamplit /\ y.timed = x.timed /\ y.age = x.age
        /\ y.where = x.where
    BY <1>5, SetN
  <2> HIDE DEF y
  <2>3. /\ v \in Memories /\ v.obj = [dark.obj EXCEPT ![o] = y] /\ v.obj[o] = y
        /\ v.timers = dark.timers /\ v.lights = dark.lights
    BY <1>6, <2>2, SetObj
  <2> HIDE DEF v
  <2>4. \A q \in Objs : TimersOf(v, q) = TimersOf(dark, q)
    BY <2>3 DEF TimersOf
  <2>5. dark.obj \in [Objs -> Things]
    BY <1>6 DEF Memories
  <2>6. \A q \in Objs \ {o} : Same(v, w, q)
    BY <1>9, <2>3, <2>4, <2>5 DEF Same
  <2>7. InStep(v, o) /\ (x0.age >= 0 => Fresh(v, o, now))
    BY <1>5, <1>9, <2>2, <2>3, <2>4 DEF InStep, Fresh
  <2>8. FuelIn(v, o, now) = x0.age
    BY <1>5, <1>9, <2>2, <2>3, <2>4, FuelUntimed
  <2> QED BY <1>5, <1>13, <2>1, <2>2, <2>3, <2>6, <2>7, <2>8 DEF Ran
<1>14. CASE Kind[o] \notin {"lamp", "menorah"}
  <2> DEFINE v == dealloc_obj(dark, o, now)
  <2>1. burnt_out(w, o, now) = v
    BY <1>4, <1>14 DEF burnt_out
  <2>2. Handled(dark, v, {o}, now) /\ v.obj[o] = NoObject /\ FuelIn(v, o, now) = 0
    BY <1>6, <1>10, Dealloc
  <2> HIDE DEF v
  <2>3. \A q \in Objs \ {o} : Same(v, w, q)
    BY <1>9, <2>2 DEF Handled, Changed, Same
  <2>4. v \in Memories /\ InStep(v, o) /\ (x0.age >= 0 => Fresh(v, o, now))
    BY <1>11, <2>2 DEF Handled, Changed
  <2>5. ~v.obj[o].lamplit
    BY <2>2 DEF NoObject
  <2> QED BY <2>1, <2>2, <2>3, <2>4, <2>5 DEF Ran
<1> QED BY <1>12, <1>13, <1>14

\* begin_burn() as burn_object() calls it
LEMMA Relit ==
  ASSUME NEW w, NEW o \in Objs, Lone(w, o), NEW now \in Int, w.obj[o].age # 0
  PROVE  /\ Ran(w, begin_burn(w, o, TRUE, now), o, now)
         /\ Aged(begin_burn(w, o, TRUE, now), o, w.obj[o].age, now)
<1> DEFINE turns == turns_to_burn(o, w.obj[o].age)
           end == now + turns
           t == [obj |-> o, timeout |-> end]
           v == begin_burn(w, o, TRUE, now)
<1>1. w \in Memories /\ w.obj[o].timed = 0 /\ w.lights[o] = 1 /\ TimersOf(w, o) = {}
  BY DEF Lone
<1>2. PICK x \in Things :
        /\ Put(w, v, o, x, {t}, 1)
        /\ x.lamplit /\ x.timed = 1 /\ x.age = w.obj[o].age - turns
        /\ x.where = w.obj[o].where /\ x.n = w.obj[o].n
  BY <1>1, BeginBurnPuts
<1>3. w.obj[o] \in Things
  BY <1>1 DEF Memories
<1>4. turns \in Int /\ (w.obj[o].age > 0 => turns > 0 /\ turns <= w.obj[o].age)
      /\ (Kind[o] = "oil" => turns = w.obj[o].age)
  BY <1>3, TurnsToBurn DEF Things
<1> HIDE DEF turns
<1>5. end \in Int /\ (w.obj[o].age > 0 => end > now /\ x.age >= 0)
      /\ x.age + end - now = w.obj[o].age /\ (Kind[o] = "oil" => x.age = 0)
  BY <1>2, <1>3, <1>4 DEF Things
<1> HIDE DEF end, v
<1>6. t \in BurnTimer /\ t.obj = o /\ t.timeout = end
  BY <1>5 DEF BurnTimer
<1> HIDE DEF t
<1>7. /\ v.obj[o] = x /\ v.lights[o] = 1 /\ TimersOf(v, o) = {t}
      /\ \A q \in Objs \ {o} : Same(v, w, q)
  <2>1. {t} \in SUBSET {u \in BurnTimer : u.obj = o} /\ 1 \in 0..1
    BY <1>6
  <2>2. Put(w, v, o, x, {t}, 1)
    BY <1>2
  <2> QED BY <1>1, <2>1, <2>2, PutObject
<1>8. InStep(v, o)
  BY <1>2, <1>6, <1>7 DEF InStep
<1>9. w.obj[o].age >= 0 => Fresh(v, o, now)
  BY <1>3, <1>5, <1>6, <1>7 DEF Fresh, Things
<1>10. v \in Memories
  BY <1>2 DEF Put
<1>11. Ran(w, v, o, now)
  BY <1>2, <1>7, <1>8, <1>9, <1>10 DEF Ran
<1>12. FuelIn(v, o, now) = FuelWith(x, t, now)
  BY <1>6, <1>7, <1>10, FuelTimed
<1>13. FuelWith(x, t, now) = w.obj[o].age
  BY <1>5, <1>6 DEF FuelWith
<1>14. Aged(v, o, w.obj[o].age, now)
  BY <1>2, <1>5, <1>7, <1>12, <1>13 DEF Aged
<1> QED BY <1>11, <1>14 DEF v

\* burn_object() on time or late
LEMMA BurnObject ==
  ASSUME NEW w, NEW o \in Objs, Lone(w, o), NEW now \in Int, NEW timeout \in Int,
         timeout <= now, Kind[o] = "oil" => w.obj[o].age = 0
  PROVE  /\ Ran(w, burn_object(w, o, timeout, now), o, now)
         /\ Aged(burn_object(w, o, timeout, now), o, w.obj[o].age + timeout - now, now)
<1> DEFINE how_long == now - timeout
           rest == w.obj[o].age - how_long
           none == [w EXCEPT !.obj[o].age = 0]
           less == [w EXCEPT !.obj[o].age = rest]
<1>1. w \in Memories /\ w.obj[o] \in Things /\ w.obj[o].age \in Int
  BY DEF Lone, Memories, Things
<1>2. rest \in Int /\ 0 \in Int
  BY <1>1
<1>3. less = [w EXCEPT !.obj[o].age = @ - (now - timeout)]
  OBVIOUS
<1>7. w.obj[o].age + timeout - now = rest /\ w.obj[o].age \in Int
  BY <1>1
<1>4. CASE how_long = 0
  <2>1. rest = w.obj[o].age
    BY <1>1, <1>4
  <2>2. CASE w.obj[o].age = 0 \/ Kind[o] = "oil"
    <3>1. burn_object(w, o, timeout, now) = burnt_out(w, o, now) /\ w.obj[o].age = 0
      BY <1>4, <2>2 DEF burn_object
    <3> DEFINE v == burnt_out(w, o, now)
    <3>2. Ran(w, v, o, now) /\ ~v.obj[o].lamplit /\ FuelIn(v, o, now) = 0
      BY <3>1, BurntOut
    <3> HIDE DEF v
    <3>3. rest <= 0
      BY <2>1, <3>1
    <3>4. Aged(v, o, rest, now)
      BY <3>2, <3>3 DEF Aged
    <3> QED BY <1>7, <3>1, <3>2, <3>4 DEF v
  <2>3. CASE ~(w.obj[o].age = 0 \/ Kind[o] = "oil")
    <3>1. burn_object(w, o, timeout, now) = begin_burn(w, o, TRUE, now)
      BY <1>4, <2>3 DEF burn_object
    <3> QED BY <1>7, <2>1, <2>3, <3>1, Relit
  <2> QED BY <2>2, <2>3
<1>5. CASE how_long # 0 /\ how_long >= w.obj[o].age
  <2>1. burn_object(w, o, timeout, now) = burnt_out(none, o, now)
    BY <1>5 DEF burn_object
  <2>2. /\ Lone(none, o) /\ \A q \in Objs \ {o} : Same(none, w, q)
        /\ none.obj[o].age = 0 /\ none.obj[o].where = w.obj[o].where
        /\ none.obj[o].n = w.obj[o].n
    <3> DEFINE zero == 0
    <3>1. zero \in Int
      OBVIOUS
    <3> HIDE DEF zero
    <3>2. LET n == [w EXCEPT !.obj[o].age = zero]
          IN /\ Lone(n, o) /\ \A q \in Objs \ {o} : Same(n, w, q)
             /\ n.obj[o].age = zero /\ n.obj[o].where = w.obj[o].where
             /\ n.obj[o].n = w.obj[o].n
      BY <3>1, LoneAge
    <3> QED BY <3>2 DEF zero
  <2> HIDE DEF none
  <2> DEFINE v == burnt_out(none, o, now)
  <2>3. Ran(none, v, o, now) /\ ~v.obj[o].lamplit /\ FuelIn(v, o, now) = 0
    BY <2>2, BurntOut
  <2> HIDE DEF v
  <2>4. rest <= 0
    BY <1>1, <1>5
  <2> HIDE DEF rest, how_long
  <2>5. Aged(v, o, rest, now)
    BY <2>3, <2>4 DEF Aged
  <2>6. Ran(w, v, o, now)
    BY <2>2, <2>3, <1>1 DEF Ran, Same
  <2> QED BY <1>7, <2>1, <2>5, <2>6 DEF v
<1>6. CASE how_long # 0 /\ how_long < w.obj[o].age
  <2>1. burn_object(w, o, timeout, now) = begin_burn(less, o, TRUE, now)
    <3>1. ~(how_long >= w.obj[o].age) /\ how_long # 0
      BY <1>1, <1>6
    <3> HIDE DEF less
    <3> QED BY <1>3, <3>1 DEF burn_object
  <2>2. rest > 0 /\ how_long \in Int
    BY <1>1, <1>6
  <2> HIDE DEF rest
  <2>3. /\ Lone(less, o) /\ \A q \in Objs \ {o} : Same(less, w, q)
        /\ less.obj[o].age = rest /\ less.obj[o].where = w.obj[o].where
        /\ less.obj[o].n = w.obj[o].n
    BY <1>2, LoneAge
  <2> HIDE DEF less
  <2>5. less.obj[o].age # 0 /\ less.obj[o].age >= 0
    BY <1>2, <2>2, <2>3
  <2> DEFINE v == begin_burn(less, o, TRUE, now)
  <2>4. Ran(less, v, o, now) /\ Aged(v, o, rest, now)
    BY <2>3, <2>5, Relit
  <2> HIDE DEF v
  <2>6. Ran(w, v, o, now)
    BY <2>3, <2>4, <2>5 DEF Ran, Same
  <2> QED BY <1>7, <2>1, <2>4, <2>6 DEF v
<1> QED BY <1>1, <1>4, <1>5, <1>6

\* The loop body of run_timers() for the one timer of a lit object
LEMMA RunTimer ==
  ASSUME NEW w \in Memories, NEW o \in Objs, NEW now \in Int, InStep(w, o),
         NEW t \in w.timers, t.obj = o, t.timeout <= now,
         Kind[o] = "oil" => w.obj[o].age = 0
  PROVE  LET v == burn_object(unlink_timer(w, t), o, t.timeout, now)
         IN /\ Ran(w, v, o, now) /\ Aged(v, o, FuelIn(w, o, now), now)
            /\ w.obj[o].lamplit
<1> DEFINE u == unlink_timer(w, t)
           end == t.timeout
           v == burn_object(u, o, end, now)
<1>1. t \in BurnTimer /\ end \in Int /\ t \in TimersOf(w, o)
  BY DEF Memories, BurnTimer, TimersOf
<1>2. w.obj[o].lamplit /\ TimersOf(w, o) = {t}
  BY <1>1 DEF InStep
<1>3. LeftLit(w, u, o)
  BY <1>1, <1>2, Unlinked
<1> HIDE DEF u
<1>4. PICK y \in Things : /\ u.obj = [w.obj EXCEPT ![o] = y] /\ u.obj[o] = y /\ y.lamplit
                          /\ y.timed = 0 /\ y.age = w.obj[o].age
                          /\ y.where = w.obj[o].where /\ y.n = w.obj[o].n
  BY <1>3 DEF LeftLit
<1>5. Lone(u, o)
  BY <1>3, <1>4 DEF Lone, LeftLit
<1>6. end <= now
  OBVIOUS
<1>12. FuelIn(w, o, now) = u.obj[o].age + end - now
  BY <1>1, <1>2, <1>4, FuelTimed DEF FuelWith
<1>13. Kind[o] = "oil" => u.obj[o].age = 0
  BY <1>4
<1> HIDE DEF end
<1>7. Ran(u, v, o, now) /\ Aged(v, o, u.obj[o].age + end - now, now)
  BY <1>1, <1>5, <1>6, <1>13, BurnObject
<1> HIDE DEF v
<1>8. w.obj \in [Objs -> Things]
  BY DEF Memories
<1>9. \A q \in Objs \ {o} : TimersOf(u, q) = TimersOf(w, q)
  BY <1>3 DEF LeftLit, TimersOf
<1>10. \A q \in Objs \ {o} : Same(u, w, q)
  BY <1>3, <1>4, <1>8, <1>9 DEF Same, LeftLit
<1>11. Ran(w, v, o, now)
  BY <1>4, <1>7, <1>10 DEF Ran, Same
<1>14. Aged(v, o, FuelIn(w, o, now), now)
  BY <1>7, <1>12
<1> QED BY <1>2, <1>11, <1>14 DEF v, u, end

-----------------------------------------------------------------------------
(* The inductive invariant *)

Files == [timers : SUBSET BurnTimer, lights : [Objs -> 0..1]]

\* What InStep() says, of an object, its timers and its lights
Agrees(x, T, k) ==
  IF x.lamplit THEN k = 1 /\ x.timed = 1 /\ \E t \in BurnTimer : T = {t}
               ELSE k = 0 /\ x.timed = 0 /\ T = {}

HoldsNothing(f, o) == TimersOf(f, o) = {} /\ f.lights[o] = 0

\* Only what exists burns, and only a candelabrum is a stack of none, but not
\* while it burns; all the fuel of burning oil is in its timer.
Whole(o, x) ==
  /\ x.where = "gone" => ~x.lamplit
  /\ x.where # "gone" /\ Kind[o] # "menorah" => x.n > 0
  /\ x.lamplit => x.n > 0 /\ (Kind[o] = "oil" => x.age = 0)

InvType ==
  /\ mem \in Memories /\ file \in [Levels -> Files]
  /\ moves \in Nat /\ level \in Levels /\ petAt \in Levels /\ praying \in Nat
  /\ running \in BOOLEAN /\ skipped \in BOOLEAN

\* An object that is not away is in step in memory, and no file knows of it...
InvHere ==
  \A o \in Objs : ~Away(o) =>
    InStep(mem, o) /\ \A l \in Levels : HoldsNothing(file[l], o)

\* ...one that is away is in step in the file of its level.
InvAway ==
  \A o \in Objs : Away(o) =>
    /\ HoldsNothing(mem, o)
    /\ LevelOf(o) \in Levels
    /\ Agrees(mem.obj[o], TimersOf(file[LevelOf(o)], o), file[LevelOf(o)].lights[o])
    /\ \A l \in Levels \ {LevelOf(o)} : HoldsNothing(file[l], o)

\* A timer the loop comes to late is about something the hero did not have.
LateNotCarried ==
  \A t \in mem.timers : t.timeout < moves => mem.obj[t.obj].where # "hero"

InvTime ==
  ~skipped =>
    /\ \A o \in Objs : mem.obj[o].age >= 0
    /\ ~running => \A t \in mem.timers : t.timeout > moves
    /\ running => LateNotCarried

InvWhole == \A o \in Objs : Whole(o, mem.obj[o])

IInv == InvType /\ InvHere /\ InvAway /\ InvTime /\ InvWhole

LEMMA InitIInv == Init => IInv
<1> SUFFICES ASSUME Init PROVE IInv
  OBVIOUS
<1>1. PICK stock \in Stock : mem = [obj |-> stock, timers |-> {}, lights |-> NoLights]
  BY DEF Init
<1>2. /\ file = [l \in Levels |-> EmptyFile]
      /\ moves = 1 /\ level \in Levels /\ petAt = level
      /\ praying = 0 /\ running = FALSE /\ skipped = FALSE
  BY DEF Init
<1>3. mem.obj = stock /\ mem.timers = {} /\ mem.lights = NoLights
  BY <1>1
<1>4. stock \in [Objs -> [where : Places \cup {"gone"}, n : Nat, age : Nat,
                          lamplit : {FALSE}, timed : {0}]]
  BY LitAssumption
<1>5. \A o \in Objs : /\ stock[o] \in Things /\ ~stock[o].lamplit /\ stock[o].timed = 0
                      /\ stock[o].age >= 0
  <2> SUFFICES ASSUME NEW o \in Objs
               PROVE  /\ stock[o] \in Things /\ ~stock[o].lamplit /\ stock[o].timed = 0
                      /\ stock[o].age >= 0
    OBVIOUS
  <2> DEFINE x == stock[o]
  <2>1. x \in [where : Places \cup {"gone"}, n : Nat, age : Nat, lamplit : {FALSE}, timed : {0}]
    BY <1>4
  <2> HIDE DEF x
  <2>2. ~x.lamplit /\ x.timed = 0 /\ x.age >= 0
    <3>1. x.lamplit \in {FALSE} /\ x.timed \in {0} /\ x.age \in Nat
      BY <2>1, Zenon
    <3>2. ~x.lamplit /\ x.timed = 0
      BY <3>1, Zenon
    <3> QED BY <3>1, <3>2
  <2>3. x \in Things
    <3>1. {FALSE} \subseteq BOOLEAN /\ {0} \subseteq 0..1 /\ Nat \subseteq Int
      OBVIOUS
    <3>2. [where : Places \cup {"gone"}, n : Nat, age : Nat, lamplit : {FALSE}, timed : {0}]
            \subseteq Things
      BY <3>1, Zenon DEF Things
    <3> QED BY <2>1, <3>2
  <2> QED BY <2>2, <2>3 DEF x
<1>6. stock \in [Objs -> Things] /\ NoLights \in [Objs -> 0..1]
  <2>1. stock = [o \in Objs |-> stock[o]]
    BY <1>4
  <2> QED BY <1>5, <2>1 DEF NoLights
<1>7. InvType
  BY <1>1, <1>2, <1>6 DEF InvType, Memories, Files, EmptyFile
<1>8. \A o \in Objs : /\ TimersOf(mem, o) = {} /\ mem.lights[o] = 0
                      /\ \A l \in Levels : HoldsNothing(file[l], o)
  BY <1>2, <1>3 DEF TimersOf, NoLights, HoldsNothing, EmptyFile
<1>9. InvHere
  BY <1>3, <1>5, <1>8 DEF InvHere, InStep
<1>10. \A o \in Objs : LevelOf(o) \in Levels \/ ~Exists(mem, o)
  BY <1>2, <1>3, <1>5 DEF LevelOf, Exists, Things, Places
<1>11. InvAway
  BY <1>3, <1>5, <1>8, <1>10 DEF InvAway, Agrees, HoldsNothing, Away
<1>14. running = FALSE /\ mem.timers = {}
  BY <1>2, <1>3 DEF Init
<1>12. InvTime
  BY <1>3, <1>5, <1>14 DEF InvTime
<1>13. InvWhole
  BY <1>3, <1>5, LitAssumption DEF InvWhole, Whole
<1> QED BY <1>7, <1>9, <1>11, <1>12, <1>13 DEF IInv

-----------------------------------------------------------------------------
(* Steps of the hero, the pet and accidents: they put objects that are not  *)
(* away, one after the other.                                               *)

\* Object q may be left as x.
Placed(q, x) == Whole(q, x) /\ (x.where = "gone" \/ Reachable(x.where))

\* Memory w can be reached from mem by putting objects that are not away.
Near(w) ==
  \E D \in SUBSET {q \in Objs : ~Away(q)} :
    Changed(mem, w, D, moves) /\ \A q \in D : Placed(q, w.obj[q])

LEMMA AwayReachable ==
  ASSUME InvType, NEW o \in Objs
  PROVE  Away(o) <=> mem.obj[o].where # "gone" /\ ~Reachable(mem.obj[o].where)
<1>1. mem.obj[o].where \in Places \cup {"gone"}
  BY DEF InvType, Memories, Things
<1> QED BY <1>1, BurnAssumption DEF Away, Exists, LevelOf, Reachable, Places, InvType

LEMMA NearMem ==
  ASSUME InvType PROVE Near(mem)
<1>1. Changed(mem, mem, {}, moves)
  BY DEF InvType, Changed, Same
<1> QED BY <1>1 DEF Near

LEMMA NearThen ==
  ASSUME InvType, NEW w, Near(w), NEW v, NEW E \in SUBSET Objs, Changed(w, v, E, moves),
         \A q \in E : ~Away(q) /\ Placed(q, v.obj[q])
  PROVE  Near(v)
<1>1. PICK D \in SUBSET {q \in Objs : ~Away(q)} :
        Changed(mem, w, D, moves) /\ \A q \in D : Placed(q, w.obj[q])
  BY DEF Near
<1>2. mem \in Memories /\ moves \in Int
  BY DEF InvType
<1>3. D \in SUBSET Objs
  OBVIOUS
<1>4. Changed(mem, v, D \cup E, moves) /\ \A q \in D \ E : v.obj[q] = w.obj[q]
  BY <1>1, <1>2, <1>3, Then
<1>5. \A q \in D \cup E : Placed(q, v.obj[q])
  BY <1>1, <1>4
<1> QED BY <1>4, <1>5 DEF Near

LEMMA NearObject ==
  ASSUME IInv, NEW w, Near(w)
  PROVE  /\ w \in Memories /\ moves \in Int
         /\ \A q \in Objs : ~Away(q) => InStep(w, q) /\ Placed(q, w.obj[q])
         /\ \A q \in Objs : Placed(q, w.obj[q]) => ~Away(q)
<1>1. PICK D \in SUBSET {q \in Objs : ~Away(q)} :
        Changed(mem, w, D, moves) /\ \A q \in D : Placed(q, w.obj[q])
  BY DEF Near
<1>2. \A q \in Objs \ D : Same(w, mem, q)
  BY <1>1 DEF Changed
<1>3. w \in Memories /\ moves \in Int
  BY <1>1 DEF Changed, IInv, InvType
<1>4. ASSUME NEW q \in Objs, ~Away(q) PROVE InStep(w, q) /\ Placed(q, w.obj[q])
  <2>1. CASE q \in D
    BY <1>1, <2>1 DEF Changed
  <2>2. CASE q \notin D
    <3>1. InStep(mem, q) /\ Same(w, mem, q)
      BY <1>2, <1>4, <2>2 DEF IInv, InvHere
    <3>2. InStep(w, q)
      BY <3>1 DEF InStep, Same
    <3>3. Placed(q, mem.obj[q])
      BY <1>4, AwayReachable DEF IInv, InvWhole, Placed
    <3> QED BY <3>1, <3>2, <3>3 DEF Same
  <2> QED BY <2>1, <2>2
<1>5. ASSUME NEW q \in Objs, Placed(q, w.obj[q]) PROVE ~Away(q)
  <2>1. CASE q \in D
    BY <2>1
  <2>2. CASE q \notin D
    BY <1>2, <1>5, <2>2, AwayReachable DEF Same, Placed, IInv
  <2> QED BY <2>1, <2>2
<1> QED BY <1>3, <1>4, <1>5

\* Such a step keeps the invariant.
LEMMA NearStep ==
  ASSUME IInv, ~running, NEW v, Near(v), Only(v)
  PROVE  IInv'
<1>1. PICK D \in SUBSET {q \in Objs : ~Away(q)} :
        Changed(mem, v, D, moves) /\ \A q \in D : Placed(q, v.obj[q])
  BY DEF Near
<1>2. /\ mem' = v /\ file' = file /\ moves' = moves /\ level' = level /\ petAt' = petAt
      /\ praying' = praying /\ running' = running /\ skipped' = skipped
  BY DEF Only
<1>3. v \in Memories /\ \A q \in Objs \ D : Same(v, mem, q)
  BY <1>1 DEF Changed
<1>4. InvType'
  BY <1>2, <1>3 DEF IInv, InvType
<1>5. \A q \in Objs \ D : (Away(q)' <=> Away(q)) /\ LevelOf(q)' = LevelOf(q)
  BY <1>2, <1>3 DEF Away, Exists, LevelOf, Same
<1>6. \A q \in D : ~Away(q)'
  <2> SUFFICES ASSUME NEW q \in D PROVE ~Away(q)'
    OBVIOUS
  <2>1. v.obj[q].where = "gone" \/ Reachable(v.obj[q].where)
    BY <1>1 DEF Placed
  <2>2. v.obj[q].where = "gone" \/ Reachable(v.obj[q].where)'
    BY <1>2, <2>1 DEF Reachable
  <2> QED BY <1>2, <2>2, BurnAssumption DEF Away, Exists, LevelOf, Reachable, IInv, InvType
<1>7. \A q \in D : InStep(v, q)
  BY <1>1 DEF Changed
<1>8. InvHere'
  <2> SUFFICES ASSUME NEW q \in Objs, ~Away(q)'
               PROVE  InStep(v, q) /\ \A l \in Levels : HoldsNothing(file[l], q)
    BY <1>2 DEF InvHere
  <2>1. CASE q \in D
    BY <1>7, <2>1 DEF IInv, InvHere
  <2>2. CASE q \notin D
    BY <1>3, <1>5, <2>2 DEF IInv, InvHere, InStep, Same
  <2> QED BY <2>1, <2>2
<1>9. InvAway'
  <2> SUFFICES ASSUME NEW q \in Objs, Away(q)'
               PROVE  /\ HoldsNothing(mem', q) /\ LevelOf(q)' \in Levels
                      /\ Agrees(mem'.obj[q], TimersOf(file'[LevelOf(q)'], q),
                                file'[LevelOf(q)'].lights[q])
                      /\ \A l \in Levels \ {LevelOf(q)'} : HoldsNothing(file'[l], q)
    BY <1>2 DEF InvAway
  <2>1. q \notin D /\ Away(q) /\ LevelOf(q)' = LevelOf(q) /\ Same(v, mem, q)
    BY <1>3, <1>5, <1>6
  <2> QED BY <1>2, <2>1 DEF IInv, InvAway, Same, HoldsNothing
<1>10. InvTime'
  <2> SUFFICES ASSUME ~skipped
               PROVE  /\ \A q \in Objs : v.obj[q].age >= 0
                      /\ \A t \in v.timers : t.timeout > moves
    BY <1>2 DEF InvTime
  <2>1. \A q \in Objs : Fresh(mem, q, moves)
    BY DEF IInv, InvTime, Fresh, TimersOf
  <2>2. \A q \in D : Fresh(v, q, moves)
    BY <1>1, <2>1 DEF Changed
  <2>3. \A q \in Objs : Fresh(v, q, moves)
    BY <1>3, <2>1, <2>2 DEF Same, Fresh
  <2>4. \A t \in v.timers : t.obj \in Objs
    BY <1>3 DEF Memories, BurnTimer
  <2> QED BY <2>3, <2>4 DEF Fresh, TimersOf
<1>11. InvWhole'
  BY <1>1, <1>2, <1>3 DEF InvWhole, IInv, Placed, Same
<1> QED BY <1>4, <1>8, <1>9, <1>10, <1>11 DEF IInv

LEMMA TimersInOnePlace ==
  ASSUME IInv, NEW o \in Objs
  PROVE  /\ ~Away(o) => Timers(o) = TimersOf(mem, o)
         /\ Away(o) => Timers(o) = TimersOf(file[LevelOf(o)], o)
<1>1. CASE ~Away(o)
  <2>1. \A l \in Levels : TimersOf(file[l], o) = {}
    BY <1>1 DEF IInv, InvHere, HoldsNothing
  <2> QED BY <1>1, <2>1 DEF Timers
<1>2. CASE Away(o)
  <2>1. /\ TimersOf(mem, o) = {} /\ LevelOf(o) \in Levels
        /\ \A l \in Levels \ {LevelOf(o)} : TimersOf(file[l], o) = {}
    BY <1>2 DEF IInv, InvAway, HoldsNothing
  <2> QED BY <1>2, <2>1 DEF Timers
<1> QED BY <1>1, <1>2

-----------------------------------------------------------------------------
(* The fuel of FuelClock *)

\* Fuel that comes to nothing is none.
AtLeastNone(x) == IF x > 0 THEN x ELSE 0

\* The fuel of an object that is not away is that of memory.
LEMMA LeftHere ==
  ASSUME IInv, NEW o \in Objs, ~Away(o)
  PROVE  left(o) = FuelIn(mem, o, moves)
<1>1. Timers(o) = TimersOf(mem, o)
  BY TimersInOnePlace
<1> QED BY <1>1 DEF left, FuelIn

\* ...before and after a step that writes memory only.
LEMMA LeftOnly ==
  ASSUME IInv, NEW v, Only(v), NEW o \in Objs
  PROVE  /\ ~Away(o) => left(o)' = FuelIn(v, o, moves)
         /\ Same(v, mem, o) => left(o)' = left(o)
<1> DEFINE kept == UNION {TimersOf(file[l], o) : l \in Levels}
<1>1. mem' = v /\ file' = file /\ moves' = moves
  BY DEF Only
<1>2. Timers(o)' = TimersOf(v, o) \cup kept
  BY <1>1 DEF Timers
<1>3. Timers(o) = TimersOf(mem, o) \cup kept
  BY DEF Timers
<1>4. ASSUME ~Away(o) PROVE left(o)' = FuelIn(v, o, moves)
  <2>1. kept = {}
    BY <1>4 DEF IInv, InvHere, HoldsNothing
  <2>2. Timers(o)' = TimersOf(v, o)
    BY <1>2, <2>1
  <2> QED BY <1>1, <2>2 DEF left, FuelIn
<1>5. ASSUME Same(v, mem, o) PROVE left(o)' = left(o)
  <2>1. Timers(o)' = Timers(o) /\ v.obj[o] = mem.obj[o]
    BY <1>2, <1>3, <1>5 DEF Same
  <2> QED BY <1>1, <2>1 DEF left
<1> QED BY <1>4, <1>5

\* What is done with three objects at most, and makes no fuel, is a Handle step.
LEMMA HandledStep ==
  ASSUME IInv, ~running, NEW v, Near(v), Only(v),
         NEW a \in Objs, NEW b \in Objs, NEW c \in Objs, ~Away(a), ~Away(b), ~Away(c),
         NEW D, D = {a, b, c}, Handled(mem, v, D, moves)
  PROVE  IInv' /\ Clock!ClockNext
<1>1. /\ mem' = v /\ running' = running /\ mem \in Memories /\ v \in Memories
      /\ moves \in Int /\ D \in SUBSET Objs
  BY DEF Only, Handled, Changed, IInv, InvType
<1>2. \A q \in Objs \ D : Same(v, mem, q)
  BY DEF Handled, Changed
<1>3. \A q \in Objs \ D : fuelOf(q)' = fuelOf(q) /\ v.obj[q].lamplit = mem.obj[q].lamplit
  BY <1>2, LeftOnly DEF fuelOf, Same
<1>4. \A q \in D : /\ fuelOf(q) = AtLeastNone(FuelIn(mem, q, moves))
                   /\ fuelOf(q)' = AtLeastNone(FuelIn(v, q, moves))
  <2> SUFFICES ASSUME NEW q \in D
               PROVE  /\ fuelOf(q) = AtLeastNone(FuelIn(mem, q, moves))
                      /\ fuelOf(q)' = AtLeastNone(FuelIn(v, q, moves))
    OBVIOUS
  <2>1. q \in Objs /\ ~Away(q)
    OBVIOUS
  <2>2. left(q) = FuelIn(mem, q, moves)
    BY <2>1, LeftHere
  <2>3. left(q)' = FuelIn(v, q, moves)
    BY <2>1, LeftOnly
  <2> QED BY <2>2, <2>3 DEF fuelOf, AtLeastNone
<1>5. \A q \in D : fuelOf(q)' = 0 \/ \E p \in D : fuelOf(q)' <= fuelOf(p)
  <2> SUFFICES ASSUME NEW q \in D
               PROVE  fuelOf(q)' = 0 \/ \E p \in D : fuelOf(q)' <= fuelOf(p)
    OBVIOUS
  <2> DEFINE x == FuelIn(v, q, moves)
  <2>1. x \in Int /\ \A p \in D : FuelIn(mem, p, moves) \in Int
    BY <1>1, FuelInt
  <2>2. x <= 0 \/ \E p \in D : x <= FuelIn(mem, p, moves)
    BY DEF Handled, Had
  <2> HIDE DEF x
  <2>3. CASE x <= 0
    <3>1. AtLeastNone(x) = 0
      BY <2>1, <2>3 DEF AtLeastNone
    <3> QED BY <1>4, <3>1 DEF x
  <2>4. ASSUME NEW p \in D, x <= FuelIn(mem, p, moves)
        PROVE  fuelOf(q)' <= fuelOf(p)
    <3> DEFINE y == FuelIn(mem, p, moves)
    <3>1. x \in Int /\ y \in Int /\ x <= y
      BY <2>1, <2>4
    <3> HIDE DEF y
    <3>2. AtLeastNone(x) <= AtLeastNone(y)
      BY <3>1 DEF AtLeastNone
    <3> QED BY <1>4, <3>2 DEF x, y
  <2> QED BY <2>2, <2>3, <2>4
<1>6. Clock!Handle(D)
  BY <1>1, <1>3, <1>5 DEF Clock!Handle
<1>7. Clock!ClockNext
  BY <1>6 DEF Clock!ClockNext
<1> QED BY <1>7, NearStep

\* A candelabrum without fuel is lit with one unit.
LEMMA RescueStep ==
  ASSUME IInv, ~running, NEW v, Near(v), Only(v), NEW o \in Objs, ~Away(o),
         Changed(mem, v, {o}, moves), ~mem.obj[o].lamplit, v.obj[o].lamplit,
         FuelIn(mem, o, moves) <= 0, FuelIn(v, o, moves) = 1
  PROVE  IInv' /\ Clock!ClockNext
<1>1. mem' = v /\ running' = running /\ mem \in Memories /\ moves \in Int
  BY DEF Only, IInv, InvType
<1>2. \A q \in Objs \ {o} : Same(v, mem, q)
  BY DEF Changed
<1>3. \A q \in Objs \ {o} : fuelOf(q)' = fuelOf(q) /\ v.obj[q].lamplit = mem.obj[q].lamplit
  BY <1>2, LeftOnly DEF fuelOf, Same
<1>4. fuelOf(o) = 0 /\ fuelOf(o)' = 1
  <2>1. left(o) = FuelIn(mem, o, moves) /\ left(o)' = FuelIn(v, o, moves)
    BY LeftHere, LeftOnly
  <2>2. left(o) <= 0 /\ left(o)' = 1
    BY <2>1
  <2>3. left(o) \in Int
    BY <1>1, <2>1, FuelInt
  <2> QED BY <2>2, <2>3 DEF fuelOf
<1>5. Clock!Rescue(o)
  BY <1>1, <1>3, <1>4 DEF Clock!Rescue
<1> QED BY <1>5, NearStep DEF Clock!ClockNext

\* The oil of p is poured into o.
LEMMA FillStep ==
  ASSUME IInv, ~running, NEW v, Near(v), Only(v), NEW o \in Objs, NEW p \in Objs,
         o # p, ~Away(o), ~Away(p), Changed(mem, v, {o, p}, moves),
         \A q \in {o, p} : ~mem.obj[q].lamplit /\ ~v.obj[q].lamplit,
         FuelIn(v, p, moves) \in {0, FuelIn(mem, p, moves)},
         FuelIn(v, o, moves) <= FuelIn(mem, o, moves) + 2 * FuelIn(mem, p, moves)
  PROVE  IInv' /\ Clock!ClockNext
<1>1. /\ mem' = v /\ running' = running /\ mem \in Memories /\ v \in Memories
      /\ moves \in Int
  BY DEF Only, Changed, IInv, InvType
<1>2. \A q \in Objs \ {o, p} : Same(v, mem, q)
  BY DEF Changed
<1>3. \A q \in Objs \ {o, p} :
        fuelOf(q)' = fuelOf(q) /\ v.obj[q].lamplit = mem.obj[q].lamplit
  BY <1>2, LeftOnly DEF fuelOf, Same
<1> DEFINE fo == FuelIn(mem, o, moves)
           fp == FuelIn(mem, p, moves)
           go == FuelIn(v, o, moves)
           gp == FuelIn(v, p, moves)
<1>4. /\ fuelOf(o) = AtLeastNone(fo) /\ fuelOf(o)' = AtLeastNone(go)
      /\ fuelOf(p) = AtLeastNone(fp) /\ fuelOf(p)' = AtLeastNone(gp)
  <2>1. /\ left(o) = fo /\ left(o)' = go /\ left(p) = fp /\ left(p)' = gp
    BY LeftHere, LeftOnly
  <2> QED BY <2>1 DEF fuelOf, AtLeastNone
<1>5. fo \in Int /\ fp \in Int /\ go \in Int /\ gp \in Int
  BY <1>1, FuelInt
<1>6. gp \in {0, fp} /\ go <= fo + 2 * fp
  OBVIOUS
<1> HIDE DEF fo, fp, go, gp
<1>7. /\ AtLeastNone(go) <= AtLeastNone(fo) + 2 * AtLeastNone(fp)
      /\ AtLeastNone(gp) \in {0, AtLeastNone(fp)}
  BY <1>5, <1>6 DEF AtLeastNone
<1>8. fuelOf(o)' <= fuelOf(o) + 2 * fuelOf(p) /\ fuelOf(p)' \in {0, fuelOf(p)}
  BY <1>4, <1>7
<1>9. Clock!Fill(o, p)
  <2>1. {q \in Objs : mem.obj[q].lamplit}' = {q \in Objs : mem.obj[q].lamplit}
    BY <1>1, <1>3
  <2> QED BY <1>1, <1>3, <1>8, <2>1 DEF Clock!Fill
<1> QED BY <1>9, NearStep DEF Clock!ClockNext

LEMMA HandledOneStep ==
  ASSUME IInv, ~running, NEW v, Near(v), Only(v), NEW o \in Objs, ~Away(o),
         Handled(mem, v, {o}, moves)
  PROVE  IInv' /\ Clock!ClockNext
<1>1. {o} = {o, o, o}
  OBVIOUS
<1> QED BY <1>1, HandledStep

LEMMA HandledTwoStep ==
  ASSUME IInv, ~running, NEW v, Near(v), Only(v), NEW o \in Objs, NEW p \in Objs,
         ~Away(o), ~Away(p), Handled(mem, v, {o, p}, moves)
  PROVE  IInv' /\ Clock!ClockNext
<1>1. {o, p} = {o, p, p}
  OBVIOUS
<1> QED BY <1>1, HandledStep

-----------------------------------------------------------------------------
(* What hero, pet and accidents do *)

\* Objects that are carried or present are not away, nor are those that are
\* no more.
LEMMA NotAway ==
  ASSUME IInv, NEW o \in Objs
  PROVE  /\ Carried(o) => ~Away(o) /\ Exists(mem, o)
         /\ Present(o) => ~Away(o) /\ Exists(mem, o)
         /\ ~Exists(mem, o) => ~Away(o) /\ ~mem.obj[o].lamplit
         /\ Exists(mem, o) /\ Reachable(mem.obj[o].where) => ~Away(o)
<1>1. Carried(o) => ~Away(o) /\ Exists(mem, o)
  BY AwayReachable DEF IInv, Carried, Reachable, Exists
<1>2. Present(o) => ~Away(o) /\ Exists(mem, o)
  BY DEF Present, Away
<1>3. ~Exists(mem, o) => ~Away(o) /\ ~mem.obj[o].lamplit
  BY DEF Away, Exists, IInv, InvWhole, Whole
<1>4. Exists(mem, o) /\ Reachable(mem.obj[o].where) => ~Away(o)
  BY AwayReachable DEF IInv
<1> QED BY <1>1, <1>2, <1>3, <1>4

\* The same number, or fewer, at the same place
LEMMA PlacedSame ==
  ASSUME NEW q \in Objs, NEW x, NEW y, Placed(q, x), x.where # "gone",
         y.where = x.where, Kind[q] = "menorah" \/ y.n = x.n \/ y.n > 0,
         y.lamplit => y.n > 0 /\ (Kind[q] = "oil" => y.age = 0)
  PROVE  Placed(q, y)
BY DEF Placed, Whole

LEMMA PlacedGone ==
  ASSUME NEW q \in Objs, NEW x, x = NoObject PROVE Placed(q, x)
<1>1. x.where = "gone" /\ ~x.lamplit
  BY DEF NoObject
<1> QED BY <1>1 DEF Placed, Whole

LEMMA NearBegin ==
  ASSUME IInv, NEW w, Near(w), NEW o \in Objs, ~Away(o), ~w.obj[o].lamplit,
         w.obj[o].where # "gone", w.obj[o].n > 0
  PROVE  LET v == begin_burn(w, o, FALSE, moves)
         IN /\ Near(v) /\ Handled(w, v, {o}, moves)
            /\ FuelIn(v, o, moves) = FuelIn(w, o, moves)
            /\ w.obj[o].age # 0 => v.obj[o].lamplit
<1> DEFINE v == begin_burn(w, o, FALSE, moves)
<1>1. w \in Memories /\ InStep(w, o) /\ Placed(o, w.obj[o]) /\ moves \in Int
  BY NearObject
<1>2. /\ Handled(w, v, {o}, moves)
      /\ v.obj[o].where = w.obj[o].where /\ v.obj[o].n = w.obj[o].n
      /\ v.obj[o].lamplit /\ Kind[o] = "oil" => v.obj[o].age = 0
      /\ FuelIn(v, o, moves) = FuelIn(w, o, moves)
      /\ w.obj[o].age # 0 => v.obj[o].lamplit
  BY <1>1, BeginBurn
<1> HIDE DEF v
<1>3. Placed(o, v.obj[o])
  BY <1>1, <1>2, PlacedSame
<1>4. Near(v)
  BY <1>2, <1>3, NearThen DEF IInv, Handled
<1> QED BY <1>2, <1>4 DEF v

LEMMA NearEnd ==
  ASSUME IInv, NEW w, Near(w), NEW o \in Objs, ~Away(o), w.obj[o].where # "gone"
  PROVE  LET v == end_burn(w, o, TRUE, moves)
         IN /\ Near(v) /\ Handled(w, v, {o}, moves)
            /\ v.obj[o].where = w.obj[o].where /\ ~v.obj[o].lamplit
<1> DEFINE v == end_burn(w, o, TRUE, moves)
<1>1. w \in Memories /\ InStep(w, o) /\ Placed(o, w.obj[o]) /\ moves \in Int
  BY NearObject
<1>2. /\ Handled(w, v, {o}, moves) /\ ~v.obj[o].lamplit
      /\ v.obj[o].where = w.obj[o].where /\ v.obj[o].n = w.obj[o].n
  BY <1>1, EndBurn
<1> HIDE DEF v
<1>3. Placed(o, v.obj[o])
  BY <1>1, <1>2, PlacedSame
<1>4. Near(v)
  BY <1>2, <1>3, NearThen DEF IInv, Handled
<1> QED BY <1>2, <1>4 DEF v

LEMMA NearDealloc ==
  ASSUME IInv, NEW w, Near(w), NEW o \in Objs, ~Away(o)
  PROVE  LET v == dealloc_obj(w, o, moves)
         IN Near(v) /\ Handled(w, v, {o}, moves)
<1> DEFINE v == dealloc_obj(w, o, moves)
<1>1. w \in Memories /\ InStep(w, o) /\ moves \in Int
  BY NearObject
<1>2. Handled(w, v, {o}, moves) /\ v.obj[o] = NoObject
  BY <1>1, Dealloc
<1> HIDE DEF v
<1>3. Near(v)
  BY <1>2, PlacedGone, NearThen DEF IInv, Handled
<1> QED BY <1>2, <1>3 DEF v

LEMMA NearSplit ==
  ASSUME IInv, NEW w, Near(w), NEW o \in Objs, NEW p \in Objs, ~Away(o), ~Away(p),
         o # p, w.obj[o].where # "gone", w.obj[p].where = "gone", Kind[p] = Kind[o],
         NEW num \in Nat \ {0}, num < w.obj[o].n
  PROVE  LET v == splitobj(w, o, p, num)
         IN /\ Near(v) /\ Handled(w, v, {o, p}, moves)
            /\ v.obj[p].where = w.obj[o].where /\ v.obj[p].n > 0
            /\ v.obj[p].lamplit = w.obj[o].lamplit
<1> DEFINE v == splitobj(w, o, p, num)
<1>1. /\ w \in Memories /\ InStep(w, o) /\ InStep(w, p) /\ moves \in Int
      /\ Placed(o, w.obj[o]) /\ Placed(p, w.obj[p])
  BY NearObject
<1>2. ~w.obj[p].lamplit
  BY <1>1 DEF Placed, Whole
<1>3. w.obj[o].n \in Nat /\ num \in Nat
  BY <1>1 DEF Memories, Things
<1>4. num <= w.obj[o].n /\ w.obj[o].n - num > 0 /\ num > 0
  BY <1>3
<1>5. /\ Handled(w, v, {o, p}, moves)
      /\ v.obj[o].where = w.obj[o].where /\ v.obj[o].n = w.obj[o].n - num
      /\ v.obj[p].where = w.obj[o].where /\ v.obj[p].n = num
      /\ v.obj[o].lamplit = w.obj[o].lamplit /\ v.obj[p].lamplit = w.obj[o].lamplit
      /\ v.obj[o].age = w.obj[o].age /\ v.obj[p].age = w.obj[o].age
  BY <1>1, <1>2, <1>3, <1>4, Split
<1> HIDE DEF v
<1>6. Placed(o, v.obj[o]) /\ Placed(p, v.obj[p])
  BY <1>1, <1>4, <1>5 DEF Placed, Whole
<1>7. Near(v)
  BY <1>5, <1>6, NearThen DEF IInv, Handled
<1> QED BY <1>4, <1>5, <1>7 DEF v

LEMMA NearMerged ==
  ASSUME IInv, NEW w, Near(w), NEW d \in Objs, NEW s \in Objs, ~Away(d), ~Away(s),
         mergable(w, d, s)
  PROVE  LET v == merged(w, d, s, moves)
         IN Near(v) /\ Handled(w, v, {d, s}, moves)
<1> DEFINE v == merged(w, d, s, moves)
<1>1. /\ w \in Memories /\ InStep(w, d) /\ InStep(w, s) /\ moves \in Int
      /\ Placed(d, w.obj[d])
  BY NearObject
<1>2. w.obj[d].where # "gone" /\ w.obj[d].n > 0
  BY <1>1 DEF mergable, Exists, Placed, Whole
<1>3. /\ Handled(w, v, {d, s}, moves) /\ v.obj[s] = NoObject
      /\ v.obj[d].where = w.obj[d].where /\ v.obj[d].n > 0
      /\ v.obj[d].lamplit = w.obj[d].lamplit
  BY <1>1, <1>2, Merged
<1> HIDE DEF v
<1>6. Kind[d] = "oil" => ~v.obj[d].lamplit
  BY <1>3 DEF mergable
<1>4. Placed(d, v.obj[d]) /\ Placed(s, v.obj[s])
  BY <1>1, <1>2, <1>3, <1>6, PlacedSame, PlacedGone
<1>5. Near(v)
  BY <1>3, <1>4, NearThen DEF IInv, Handled
<1> QED BY <1>3, <1>5 DEF v

LEMMA NearAttached ==
  ASSUME IInv, NEW w, Near(w), NEW c \in Objs, NEW m \in Objs, ~Away(c), ~Away(m),
         Kind[c] = "candle", Kind[m] = "menorah", w.obj[m].where # "gone"
  PROVE  LET v == attached(w, c, m)
         IN Near(v) /\ Handled(w, v, {c, m}, moves)
<1> DEFINE v == attached(w, c, m)
<1>1. /\ w \in Memories /\ InStep(w, c) /\ InStep(w, m) /\ moves \in Int
      /\ Placed(m, w.obj[m]) /\ c # m
  BY NearObject
<1>5. w.obj[m].lamplit => w.obj[m].n > 0
  BY <1>1 DEF Placed, Whole
<1>2. /\ Handled(w, v, {c, m}, moves) /\ v.obj[c] = NoObject
      /\ v.obj[m].where = w.obj[m].where /\ v.obj[m].lamplit = w.obj[m].lamplit
      /\ v.obj[m].n >= w.obj[m].n
  BY <1>1, <1>5, Attached
<1> HIDE DEF v
<1>6. v.obj[m].lamplit => v.obj[m].n > 0
  <2>1. w.obj[m].n \in Nat /\ v.obj[m].n \in Nat
    BY <1>1, <1>2 DEF Handled, Changed, Memories, Things
  <2> QED BY <1>2, <1>5, <2>1
<1>3. Placed(m, v.obj[m]) /\ Placed(c, v.obj[c])
  BY <1>1, <1>2, <1>6, PlacedSame, PlacedGone
<1>4. Near(v)
  BY <1>2, <1>3, NearThen DEF IInv, Handled
<1> QED BY <1>2, <1>4 DEF v

LEMMA NearUseUp ==
  ASSUME IInv, NEW w, Near(w), NEW o \in Objs, ~Away(o), w.obj[o].where # "gone"
  PROVE  LET v == useup(w, o)
         IN /\ Near(v) /\ Handled(w, v, {o}, moves)
            /\ v.obj[o].lamplit => w.obj[o].lamplit
            /\ FuelIn(v, o, moves) \in {0, FuelIn(w, o, moves)}
<1> DEFINE v == useup(w, o)
<1>1. w \in Memories /\ InStep(w, o) /\ Placed(o, w.obj[o]) /\ moves \in Int
  BY NearObject
<1>2. /\ Handled(w, v, {o}, moves)
      /\ \/ v.obj[o] = NoObject /\ FuelIn(v, o, moves) = 0
         \/ /\ v.obj[o].where = w.obj[o].where /\ v.obj[o].n > 0
            /\ v.obj[o].lamplit = w.obj[o].lamplit /\ v.obj[o].age = w.obj[o].age
            /\ FuelIn(v, o, moves) = FuelIn(w, o, moves)
  BY <1>1, UseUp
<1> HIDE DEF v
<1>3. Placed(o, v.obj[o])
  <2>1. CASE v.obj[o] = NoObject
    BY <2>1, PlacedGone
  <2>2. CASE v.obj[o] # NoObject
    BY <1>1, <1>2, <2>2 DEF Placed, Whole
  <2> QED BY <2>1, <2>2
<1>4. Near(v)
  BY <1>2, <1>3, NearThen DEF IInv, Handled
<1> QED BY <1>2, <1>4 DEF v, NoObject

\* An object is somewhere else.
LEMMA NearMoved ==
  ASSUME IInv, NEW w, Near(w), NEW o \in Objs, ~Away(o), w.obj[o].where # "gone",
         NEW place \in Places, Reachable(place)
  PROVE  LET v == [w EXCEPT !.obj[o].where = place]
         IN Near(v) /\ v.obj[o].where = place /\ Handled(w, v, {o}, moves)
<1> DEFINE x0 == w.obj[o]
           x == [x0 EXCEPT !.where = place]
           v == [w EXCEPT !.obj[o] = x]
           D == {o}
<1>1. w \in Memories /\ InStep(w, o) /\ Placed(o, x0) /\ moves \in Int
  BY NearObject
<1>2. x0 \in Things
  BY <1>1 DEF Memories
<1>3. [w EXCEPT !.obj[o].where = place] = v
  BY <1>1 DEF Memories, Things
<1>4. place # "gone"
  BY BurnAssumption DEF Places
<1>5. /\ x \in Things /\ x.where = place /\ x.n = x0.n /\ x.age = x0.age
      /\ x.lamplit = x0.lamplit /\ x.timed = x0.timed
  <2> HIDE DEF x0
  <2> QED BY <1>2, SetWhere
<1> HIDE DEF x
<1>6. D \in SUBSET Objs /\ o \in D /\ (\A q \in D : InStep(w, q))
      /\ ((\A q \in D : Fresh(w, q, moves)) => x.age >= 0)
  BY <1>1, <1>5 DEF Fresh
<1> HIDE DEF D
<1>7. /\ Changed(w, v, D, moves) /\ v.obj[o] = x
      /\ FuelIn(v, o, moves) = Shifted(FuelIn(w, o, moves), x0.age, x.age)
  BY <1>1, <1>5, <1>6, SetThing
<1> HIDE DEF v
<1>10. Handled(w, v, {o}, moves)
  <2>1. FuelIn(w, o, moves) \in Int /\ x0.age \in Int
    BY <1>1, <1>2, FuelInt DEF Things
  <2>2. FuelIn(v, o, moves) = FuelIn(w, o, moves)
    BY <1>5, <1>7, <2>1 DEF Shifted
  <2> QED BY <1>1, <1>7, <2>2, HandledOne DEF D
<1>8. Placed(o, x)
  BY <1>1, <1>4, <1>5 DEF Placed, Whole
<1>9. Near(v)
  BY <1>6, <1>7, <1>8, NearThen DEF IInv, D
<1> QED BY <1>3, <1>5, <1>7, <1>9, <1>10

LEMMA UseLampStep ==
  ASSUME IInv, NEW o \in Objs, use_lamp(o) \/ catch_lit(o)
  PROVE  IInv' /\ Clock!ClockNext
<1> DEFINE v == begin_burn(mem, o, FALSE, moves)
<1>1. /\ ~running /\ ~mem.obj[o].lamplit /\ Only(v)
      /\ ~Away(o) /\ mem.obj[o].where # "gone"
  BY NotAway DEF use_lamp, catch_lit, HeroActs, OthersAct, Exists
<1>2. Near(mem)
  BY NearMem DEF IInv
<1>4. mem.obj[o].n > 0
  BY DEF use_lamp, catch_lit, Carried
<1>3. Near(v) /\ Handled(mem, v, {o}, moves)
  BY <1>1, <1>2, <1>4, NearBegin
<1> HIDE DEF v
<1> QED BY <1>1, <1>3, HandledOneStep

LEMMA UseCandelabrumStep ==
  ASSUME IInv, NEW o \in Objs, use_candelabrum(o)
  PROVE  IInv' /\ Clock!ClockNext
<1> DEFINE x0 == mem.obj[o]
           half == Quotient(x0.age + 1, 2)
<1>1. PICK age \in {x0.age, IF half = 0 THEN 1 ELSE half} :
        Only(begin_burn([mem EXCEPT !.obj[o].age = age], o, FALSE, moves))
  BY DEF use_candelabrum
<1> DEFINE x == [x0 EXCEPT !.age = age]
           w == [mem EXCEPT !.obj[o] = x]
           D == {o}
<1>2. /\ ~running /\ ~x0.lamplit /\ ~Away(o) /\ x0.where # "gone" /\ x0.n > 0
  BY NotAway DEF use_candelabrum, HeroActs, Exists, Carried
<1>3. Near(mem)
  BY NearMem DEF IInv
<1>4. mem \in Memories /\ InStep(mem, o) /\ Placed(o, x0) /\ moves \in Int
  BY <1>2, <1>3, NearObject
<1>5. x0 \in Things
  BY <1>4 DEF Memories
<1>6. age \in Int /\ (x0.age >= 0 => age >= 0)
      /\ (age <= 0 \/ age <= x0.age \/ (age = 1 /\ x0.age <= 0))
  <2> HIDE DEF x0
  <2>1. x0.age \in Int /\ x0.age + 1 \in Int /\ 2 \in Nat \ {0}
    BY <1>5 DEF Things
  <2> DEFINE next == x0.age + 1
  <2>2. next \in Int /\ (x0.age >= 0 => next >= 0)
    BY <2>1
  <2> HIDE DEF next
  <2>3. /\ Quotient(next, 2) \in Int /\ (next >= 0 => Quotient(next, 2) >= 0)
        /\ next < 0 => Quotient(next, 2) <= 0
        /\ next >= 0 => Quotient(next, 2) = 0 \/ Quotient(next, 2) <= next - 1
    BY <2>2 DEF Quotient
  <2>4. half \in Int /\ (x0.age >= 0 => half >= 0) /\ (half <= 0 \/ half <= x0.age)
    BY <2>1, <2>2, <2>3 DEF next
  <2> HIDE DEF half
  <2> QED BY <2>1, <2>4
<1>7. [mem EXCEPT !.obj[o].age = age] = w
  BY <1>4 DEF Memories, Things
<1>8. /\ x \in Things /\ x.age = age /\ x.where = x0.where /\ x.n = x0.n
      /\ x.lamplit = x0.lamplit /\ x.timed = x0.timed
  <2> HIDE DEF x0, half
  <2> QED BY <1>5, <1>6, SetAge
<1> HIDE DEF x
<1>9. D \in SUBSET Objs /\ o \in D /\ (\A q \in D : InStep(mem, q))
      /\ ((\A q \in D : Fresh(mem, q, moves)) => x.age >= 0)
  BY <1>4, <1>6, <1>8 DEF Fresh
<1> HIDE DEF D
<1>10. /\ Changed(mem, w, D, moves) /\ w.obj[o] = x
       /\ FuelIn(w, o, moves) = Shifted(FuelIn(mem, o, moves), x0.age, x.age)
  BY <1>4, <1>8, <1>9, SetThing
<1> HIDE DEF w
<1>15. FuelIn(mem, o, moves) = x0.age /\ FuelIn(w, o, moves) = age
  <2>1. FuelIn(mem, o, moves) = x0.age
    BY <1>2, <1>4, FuelUntimed DEF InStep
  <2>2. x0.age \in Int
    BY <1>5 DEF Things
  <2> QED BY <1>6, <1>8, <1>10, <2>1, <2>2 DEF Shifted
<1>11. Placed(o, x)
  BY <1>2, <1>4, <1>8, PlacedSame
<1>12. Near(w)
  BY <1>2, <1>3, <1>9, <1>10, <1>11, NearThen DEF IInv, D
<1> DEFINE v == begin_burn(w, o, FALSE, moves)
<1>13. /\ Near(v) /\ Handled(w, v, {o}, moves)
       /\ FuelIn(v, o, moves) = FuelIn(w, o, moves) /\ (age # 0 => v.obj[o].lamplit)
  BY <1>2, <1>8, <1>10, <1>12, NearBegin
<1>14. Only(v)
  BY <1>1, <1>7
<1> HIDE DEF v
<1>16. CASE age <= 0 \/ age <= x0.age
  <2>1. Handled(mem, w, {o}, moves)
    BY <1>10, <1>15, <1>16 DEF Handled, Had, D
  <2>2. Handled(mem, v, {o} \cup {o}, moves)
    BY <1>4, <1>13, <2>1, HandledThen
  <2> QED BY <1>2, <1>13, <1>14, <2>2, HandledOneStep
<1>17. CASE age = 1 /\ x0.age <= 0
  <2>1. Changed(mem, v, {o} \cup {o}, moves)
    BY <1>4, <1>10, <1>13, Then DEF D, Handled
  <2>2. Changed(mem, v, {o}, moves)
    BY <2>1
  <2>3. v.obj[o].lamplit /\ FuelIn(mem, o, moves) <= 0 /\ FuelIn(v, o, moves) = 1
    BY <1>13, <1>15, <1>17
  <2> QED BY <1>2, <1>13, <1>14, <2>2, <2>3, RescueStep
<1> QED BY <1>6, <1>16, <1>17

LEMMA LightCocktailStep ==
  ASSUME IInv, NEW o \in Objs, light_cocktail(o)
  PROVE  IInv' /\ Clock!ClockNext
<1>1. /\ ~running /\ ~mem.obj[o].lamplit /\ ~Away(o) /\ mem.obj[o].where # "gone"
      /\ mem.obj[o].n > 0 /\ Kind[o] = "oil"
  BY NotAway DEF light_cocktail, HeroActs, Exists, Carried
<1>2. Near(mem) /\ mem \in Memories /\ moves \in Int
  BY NearMem DEF IInv, InvType
<1>3. CASE Only(begin_burn(mem, o, FALSE, moves))
  <2> DEFINE v == begin_burn(mem, o, FALSE, moves)
  <2>1. Near(v) /\ Handled(mem, v, {o}, moves)
    BY <1>1, <1>2, NearBegin
  <2>2. Only(v)
    BY <1>3
  <2> HIDE DEF v
  <2> QED BY <1>1, <2>1, <2>2, HandledOneStep
<1>4. CASE /\ mem.obj[o].n > 1
           /\ \E p \in Objs :
                /\ Kind[p] = "oil" /\ ~Exists(mem, p)
                /\ Only(begin_burn(splitobj(mem, o, p, 1), p, FALSE, moves))
  <2>1. PICK p \in Objs : /\ Kind[p] = "oil" /\ ~Exists(mem, p)
                          /\ Only(begin_burn(splitobj(mem, o, p, 1), p, FALSE, moves))
    BY <1>4
  <2> DEFINE w == splitobj(mem, o, p, 1)
             v == begin_burn(w, p, FALSE, moves)
  <2>2. ~Away(p) /\ o # p /\ mem.obj[p].where = "gone" /\ Kind[p] = Kind[o]
    BY <1>1, <2>1, NotAway DEF Exists
  <2>3. /\ Near(w) /\ Handled(mem, w, {o, p}, moves)
        /\ w.obj[p].where = mem.obj[o].where /\ w.obj[p].n > 0
        /\ w.obj[p].lamplit = mem.obj[o].lamplit
    <3>1. 1 \in Nat \ {0} /\ 1 < mem.obj[o].n
      BY <1>4
    <3> QED BY <1>1, <1>2, <2>2, <3>1, NearSplit
  <2> HIDE DEF w
  <2>4. Near(v) /\ Handled(w, v, {p}, moves)
    BY <1>1, <2>2, <2>3, NearBegin
  <2>5. Only(v)
    BY <2>1 DEF w
  <2> HIDE DEF v
  <2>6. Handled(mem, v, {o, p} \cup {p}, moves)
    BY <1>2, <2>3, <2>4, HandledThen
  <2>7. {o, p} \cup {p} = {o, p}
    OBVIOUS
  <2> QED BY <1>1, <2>2, <2>4, <2>5, <2>6, <2>7, HandledTwoStep
<1> QED BY <1>3, <1>4 DEF light_cocktail

LEMMA SnuffStep ==
  ASSUME IInv, NEW o \in Objs, snuff_lit(o)
  PROVE  IInv' /\ Clock!ClockNext
<1> DEFINE dark == end_burn(mem, o, TRUE, moves)
<1>1. ~running /\ ~Away(o) /\ mem.obj[o].where # "gone"
  BY NotAway DEF snuff_lit, OthersAct, Exists
<1>2. Near(mem) /\ mem \in Memories /\ moves \in Int
  BY NearMem DEF IInv, InvType
<1>3. Near(dark) /\ Handled(mem, dark, {o}, moves)
  BY <1>1, <1>2, NearEnd
<1>4. \/ Only(dark)
      \/ \E d \in Objs : /\ mergable(dark, d, o) /\ Carried(d)
                         /\ Only(merged(dark, d, o, moves))
  BY DEF snuff_lit
<1> HIDE DEF dark
<1>5. CASE Only(dark)
  BY <1>1, <1>3, <1>5, HandledOneStep
<1>6. CASE \E d \in Objs : /\ mergable(dark, d, o) /\ Carried(d)
                           /\ Only(merged(dark, d, o, moves))
  <2>1. PICK d \in Objs : /\ mergable(dark, d, o) /\ Carried(d)
                          /\ Only(merged(dark, d, o, moves))
    BY <1>6
  <2> DEFINE v == merged(dark, d, o, moves)
  <2>2. ~Away(d)
    BY <2>1, NotAway
  <2>3. Near(v) /\ Handled(dark, v, {d, o}, moves)
    BY <1>1, <1>3, <2>1, <2>2, NearMerged
  <2>4. Only(v)
    BY <2>1
  <2> HIDE DEF v
  <2>5. Handled(mem, v, {o} \cup {d, o}, moves)
    BY <1>2, <1>3, <2>3, HandledThen
  <2>6. {o} \cup {d, o} = {d, o}
    OBVIOUS
  <2> QED BY <1>1, <2>2, <2>3, <2>4, <2>5, <2>6, HandledTwoStep
<1> QED BY <1>4, <1>5, <1>6

LEMMA UseCandleStep ==
  ASSUME IInv, NEW c \in Objs, NEW m \in Objs, use_candle(c, m)
  PROVE  IInv' /\ Clock!ClockNext
<1> DEFINE room == MaxCandles - mem.obj[m].n
<1>1. /\ ~running /\ ~Away(c) /\ mem.obj[c].where # "gone" /\ room > 0
      /\ ~Away(m) /\ mem.obj[m].where # "gone" /\ Kind[c] = "candle" /\ Kind[m] = "menorah"
  <2>1. mem.obj[m].where = "hero" /\ "hero" # "gone" /\ Reachable(mem.obj[m].where)
    BY DEF use_candle, Reachable
  <2> QED BY <2>1, NotAway DEF use_candle, HeroActs, Exists
<1>2. Near(mem) /\ mem \in Memories /\ moves \in Int
  BY NearMem DEF IInv, InvType
<1>3. CASE Only(attached(mem, c, m))
  <2> DEFINE v == attached(mem, c, m)
  <2>1. Near(v) /\ Handled(mem, v, {c, m}, moves)
    BY <1>1, <1>2, NearAttached
  <2>2. Only(v)
    BY <1>3
  <2> HIDE DEF v
  <2> QED BY <1>1, <2>1, <2>2, HandledTwoStep
<1>4. CASE /\ mem.obj[c].n > room
           /\ \E p \in Objs :
                /\ Kind[p] = "candle" /\ ~Exists(mem, p)
                /\ Only(attached(splitobj(mem, c, p, room), p, m))
  <2>1. PICK p \in Objs : /\ Kind[p] = "candle" /\ ~Exists(mem, p)
                          /\ Only(attached(splitobj(mem, c, p, room), p, m))
    BY <1>4
  <2>2. ~Away(p) /\ c # p /\ mem.obj[p].where = "gone" /\ Kind[p] = Kind[c]
    BY <1>1, <2>1, NotAway DEF Exists
  <2> DEFINE w == splitobj(mem, c, p, room)
             v == attached(w, p, m)
  <2>3. mem.obj[m] \in Things /\ mem.obj[c] \in Things
    BY <1>2 DEF Memories
  <2>4. room \in Nat \ {0} /\ room < mem.obj[c].n
    <3>1. MaxCandles \in Nat /\ mem.obj[m].n \in Nat /\ mem.obj[c].n \in Nat
      BY <2>3, LitAssumption DEF Things
    <3> QED BY <1>1, <1>4, <3>1
  <2> HIDE DEF room
  <2>5. Near(w) /\ Handled(mem, w, {c, p}, moves) /\ w.obj[p].where = mem.obj[c].where
    BY <1>1, <1>2, <2>2, <2>4, NearSplit
  <2> HIDE DEF w
  <2>6. w.obj[m].where = mem.obj[m].where
    BY <1>1, <2>1, <2>5 DEF Handled, Changed, Same
  <2>7. Near(v) /\ Handled(w, v, {p, m}, moves)
    BY <1>1, <2>1, <2>2, <2>5, <2>6, NearAttached
  <2>8. Only(v)
    BY <2>1 DEF w, room
  <2> HIDE DEF v
  <2>9. Handled(mem, v, {c, p} \cup {p, m}, moves)
    BY <1>2, <2>5, <2>7, HandledThen
  <2>10. {c, p} \cup {p, m} = {c, p, m}
    OBVIOUS
  <2> QED BY <1>1, <2>2, <2>7, <2>8, <2>9, <2>10, HandledStep
<1> QED BY <1>3, <1>4 DEF use_candle

\* The fuel of the potion goes into the lamp.
LEMMA DipLampStep ==
  ASSUME IInv, NEW o \in Objs, NEW p \in Objs, dip_lamp(o, p)
  PROVE  IInv' /\ Clock!ClockNext
<1> DEFINE x0 == mem.obj[o]
           filled == x0.age + 2 * mem.obj[p].age
           age == IF filled > LampCap THEN LampCap ELSE filled
           used == useup(mem, p)
           x == [x0 EXCEPT !.age = age]
           w == [used EXCEPT !.obj[o] = x]
<1>1. /\ ~running /\ ~Away(o) /\ ~Away(p) /\ mem.obj[o].where # "gone"
      /\ mem.obj[p].where # "gone" /\ o # p
  BY NotAway DEF dip_lamp, HeroActs, Exists
<1>2. Near(mem)
  BY NearMem DEF IInv
<1>3. /\ Near(used) /\ Handled(mem, used, {p}, moves) /\ Changed(mem, used, {p}, moves)
      /\ used.obj[p].lamplit => mem.obj[p].lamplit
      /\ FuelIn(used, p, moves) \in {0, FuelIn(mem, p, moves)}
  BY <1>1, <1>2, NearUseUp DEF Handled
<1>4. /\ mem \in Memories /\ used \in Memories /\ moves \in Int
      /\ x0 \in Things /\ mem.obj[p] \in Things /\ used.obj[o] = x0
      /\ InStep(used, o) /\ Placed(o, x0)
  BY <1>1, <1>2, <1>3, NearObject DEF Memories, Changed, Same
<1>5. \/ Only(used)
      \/ /\ ~mem.obj[o].lamplit /\ ~mem.obj[p].lamplit
         /\ Only([used EXCEPT !.obj[o].age = age])
  BY DEF dip_lamp
<1> HIDE DEF used
<1>6. CASE Only(used)
  BY <1>1, <1>3, <1>6, HandledOneStep
<1>7. CASE /\ ~mem.obj[o].lamplit /\ ~mem.obj[p].lamplit
           /\ Only([used EXCEPT !.obj[o].age = age])
  <2>1. LampCap \in Nat /\ x0.age \in Int /\ mem.obj[p].age \in Int
    BY <1>4, LitAssumption DEF Things
  <2>2. age \in Int /\ (x0.age >= 0 /\ mem.obj[p].age >= 0 => age >= 0)
        /\ age <= x0.age + 2 * mem.obj[p].age
    BY <2>1
  <2> HIDE DEF age
  <2>3. [used EXCEPT !.obj[o].age = age] = w
    <3> HIDE DEF x0
    <3> QED BY <1>4 DEF Memories, Things
  <2>4. /\ x \in Things /\ x.age = age /\ x.where = x0.where /\ x.n = x0.n
        /\ x.lamplit = x0.lamplit /\ x.timed = x0.timed
    <3> HIDE DEF x0
    <3> QED BY <1>4, <2>2, SetAge
  <2> HIDE DEF x
  <2>5. /\ w \in Memories /\ w.obj = [used.obj EXCEPT ![o] = x] /\ w.obj[o] = x
        /\ w.timers = used.timers /\ w.lights = used.lights
    BY <1>4, <2>4, SetObj
  <2> HIDE DEF w
  <2>6. \A q \in Objs : TimersOf(w, q) = TimersOf(used, q)
    BY <2>5 DEF TimersOf
  <2>7. used.obj \in [Objs -> Things]
    BY <1>4 DEF Memories
  <2>8. \A q \in Objs \ {o} : Same(w, used, q)
    BY <2>5, <2>6, <2>7 DEF Same
  <2>9. InStep(w, o)
    BY <1>4, <2>4, <2>5, <2>6 DEF InStep
  <2> DEFINE E == {o, p}
  <2>10. \A q \in Objs \ E : Same(w, mem, q)
    BY <1>3, <2>8 DEF Changed, Same
  <2>11. \A q \in E : InStep(w, q)
    BY <1>1, <1>3, <2>8, <2>9 DEF Changed, Same, InStep
  <2>12. (\A q \in E : Fresh(mem, q, moves)) => \A q \in E : Fresh(w, q, moves)
    <3> SUFFICES ASSUME Fresh(mem, o, moves), Fresh(mem, p, moves)
                 PROVE  Fresh(w, o, moves) /\ Fresh(w, p, moves)
      OBVIOUS
    <3>1. Fresh(used, p, moves)
      BY <1>3 DEF Changed
    <3>2. Fresh(w, p, moves)
      BY <1>1, <2>8, <3>1 DEF Same, Fresh
    <3>3. x.age >= 0
      BY <2>2, <2>4 DEF Fresh
    <3>4. TimersOf(w, o) = TimersOf(mem, o)
      BY <1>1, <1>3, <2>6 DEF Changed, Same
    <3>5. Fresh(w, o, moves)
      BY <2>5, <3>3, <3>4 DEF Fresh
    <3> QED BY <3>2, <3>5
  <2>13. Changed(mem, w, E, moves)
    BY <2>5, <2>10, <2>11, <2>12 DEF Changed
  <2>14. Placed(o, w.obj[o])
    BY <1>1, <1>4, <1>7, <2>4, <2>5, PlacedSame
  <2>15. Placed(p, w.obj[p])
    <3>1. Placed(p, used.obj[p])
      BY <1>1, <1>3, NearObject
    <3> QED BY <1>1, <2>8, <3>1 DEF Same
  <2>16. Near(w)
    BY <1>1, <1>2, <2>13, <2>14, <2>15, NearThen DEF IInv
  <2>17. Only(w)
    BY <1>7, <2>3
  <2>18. \A q \in {o, p} : ~mem.obj[q].lamplit /\ ~w.obj[q].lamplit
    BY <1>1, <1>3, <1>7, <2>4, <2>5, <2>8 DEF Same
  <2>19. FuelIn(w, p, moves) \in {0, FuelIn(mem, p, moves)}
    BY <1>1, <1>3, <2>8, FuelSame
  <2>20. /\ FuelIn(mem, o, moves) = x0.age /\ FuelIn(mem, p, moves) = mem.obj[p].age
         /\ FuelIn(w, o, moves) = age
    <3>1. TimersOf(mem, o) = {} /\ TimersOf(mem, p) = {}
      BY <1>1, <1>7 DEF IInv, InvHere, InStep
    <3>2. TimersOf(w, o) = {}
      BY <2>9, <2>18 DEF InStep
    <3> QED BY <1>4, <2>4, <2>5, <3>1, <3>2, FuelUntimed
  <2>21. FuelIn(w, o, moves) <= FuelIn(mem, o, moves) + 2 * FuelIn(mem, p, moves)
    BY <2>2, <2>20
  <2> QED BY <1>1, <2>13, <2>16, <2>17, <2>18, <2>19, <2>21, FillStep
<1> QED BY <1>5, <1>6, <1>7

\* An object arrives, and may be merged with one that is there.
LEMMA NearArrivals ==
  ASSUME IInv, NEW w, Near(w), NEW o \in Objs, ~Away(o), w.obj[o].where # "gone",
         NEW place \in Places, Reachable(place), NEW v \in Arrivals(w, o, place)
  PROVE  /\ Near(v)
         /\ \E d \in Objs : ~Away(d) /\ Handled(w, v, {o, d}, moves)
<1> DEFINE here == [w EXCEPT !.obj[o].where = place]
<1>1. Near(here) /\ here.obj[o].where = place /\ Handled(w, here, {o}, moves)
  BY NearMoved
<1>4. w \in Memories /\ moves \in Int
  BY NearObject
<1>2. \/ v = here
      \/ \E d \in Objs : /\ here.obj[d].where = place /\ mergable(here, d, o)
                         /\ v \in {merged(here, o, d, moves), merged(here, d, o, moves)}
  BY DEF Arrivals
<1> HIDE DEF here
<1>3. ASSUME NEW d \in Objs, here.obj[d].where = place, mergable(here, d, o),
             v \in {merged(here, o, d, moves), merged(here, d, o, moves)}
      PROVE  Near(v) /\ ~Away(d) /\ Handled(w, v, {o, d}, moves)
  <2>1. ~Away(d)
    <3>1. \/ ~Exists(mem, d)
          \/ Near(here) /\ Reachable(here.obj[d].where)
      BY <1>1, <1>3
    <3>2. PICK D \in SUBSET {q \in Objs : ~Away(q)} : Changed(mem, here, D, moves)
      BY <1>1 DEF Near
    <3>3. CASE d \in D
      BY <3>3
    <3>4. CASE d \notin D
      BY <1>3, <3>2, <3>4, AwayReachable DEF Changed, Same, IInv
    <3> QED BY <3>3, <3>4
  <2>2. mergable(here, o, d)
    <3>1. here.obj[o].age \in Int /\ here.obj[d].age \in Int
      BY <1>1, NearObject DEF Memories, Things
    <3> QED BY <1>3, <3>1 DEF mergable
  <2>3. {o, d} = {d, o}
    OBVIOUS
  <2>4. Near(v) /\ Handled(here, v, {o, d}, moves)
    BY <1>1, <1>3, <2>1, <2>2, <2>3, NearMerged
  <2>5. Handled(w, v, {o} \cup {o, d}, moves)
    BY <1>1, <1>4, <2>4, HandledThen
  <2>6. {o} \cup {o, d} = {o, d}
    OBVIOUS
  <2> QED BY <2>1, <2>4, <2>5, <2>6
<1>5. CASE v = here
  <2>1. {o} = {o, o}
    OBVIOUS
  <2>2. Handled(w, v, {o, o}, moves)
    BY <1>1, <1>5, <2>1
  <2> QED BY <1>1, <1>5, <2>2
<1> QED BY <1>2, <1>3, <1>5

LEMMA TransferStep ==
  ASSUME IInv, NEW o \in Objs, NEW place \in Places, transfer(o, place)
  PROVE  IInv' /\ Clock!ClockNext
<1>1. /\ ~running /\ Exists(mem, o) /\ Reachable(mem.obj[o].where) /\ Reachable(place)
  BY DEF transfer, OthersAct
<1>2. ~Away(o) /\ mem.obj[o].where # "gone"
  BY <1>1, NotAway DEF Exists
<1>3. Near(mem) /\ mem \in Memories /\ moves \in Int
  BY NearMem DEF IInv, InvType
<1>4. CASE \E w \in Arrivals(mem, o, place) : Only(w)
  <2>1. PICK w \in Arrivals(mem, o, place) : Only(w)
    BY <1>4
  <2>2. PICK d \in Objs : Near(w) /\ ~Away(d) /\ Handled(mem, w, {o, d}, moves)
    BY <1>1, <1>2, <1>3, NearArrivals
  <2> QED BY <1>1, <1>2, <2>1, <2>2, HandledTwoStep
<1>5. CASE /\ mem.obj[o].n > 1
           /\ \E p \in Objs :
                /\ Kind[p] = Kind[o] /\ ~Exists(mem, p)
                /\ \E w \in Arrivals(splitobj(mem, o, p, 1), p, place) : Only(w)
  <2>1. PICK p \in Objs :
          /\ Kind[p] = Kind[o] /\ ~Exists(mem, p)
          /\ \E w \in Arrivals(splitobj(mem, o, p, 1), p, place) : Only(w)
    BY <1>5
  <2> DEFINE s == splitobj(mem, o, p, 1)
  <2>2. ~Away(p) /\ o # p /\ mem.obj[p].where = "gone"
    BY <1>1, <2>1, NotAway DEF Exists
  <2>3. Near(s) /\ Handled(mem, s, {o, p}, moves) /\ s.obj[p].where = mem.obj[o].where
    <3>1. 1 \in Nat \ {0} /\ 1 < mem.obj[o].n
      BY <1>5
    <3> QED BY <1>2, <1>3, <2>1, <2>2, <3>1, NearSplit
  <2>4. PICK w \in Arrivals(s, p, place) : Only(w)
    BY <2>1
  <2> HIDE DEF s
  <2>5. PICK d \in Objs : Near(w) /\ ~Away(d) /\ Handled(s, w, {p, d}, moves)
    BY <1>1, <1>2, <2>2, <2>3, <2>4, NearArrivals
  <2>6. Handled(mem, w, {o, p} \cup {p, d}, moves)
    BY <1>3, <2>3, <2>5, HandledThen
  <2>7. {o, p} \cup {p, d} = {o, p, d}
    OBVIOUS
  <2> QED BY <1>1, <1>2, <2>2, <2>4, <2>5, <2>6, <2>7, HandledStep
<1> QED BY <1>4, <1>5 DEF transfer

LEMMA DelobjStep ==
  ASSUME IInv, NEW o \in Objs, delobj(o)
  PROVE  IInv' /\ Clock!ClockNext
<1> DEFINE v == dealloc_obj(mem, o, moves)
<1>1. ~running /\ Only(v) /\ ~Away(o)
  BY NotAway DEF delobj, OthersAct
<1>2. Near(v) /\ Handled(mem, v, {o}, moves)
  BY <1>1, NearMem, NearDealloc DEF IInv
<1> HIDE DEF v
<1> QED BY <1>1, <1>2, HandledOneStep

-----------------------------------------------------------------------------
(* Time, and other levels *)

LEMMA QuietStep ==
  ASSUME IInv, dopray \/ next_turn \/ timers_done \/ UNCHANGED vars PROVE IInv'
<1>1. mem' = mem /\ file' = file /\ level' = level /\ petAt' = petAt
  BY DEF dopray, next_turn, timers_done, vars
<1>2. InvHere' /\ InvAway' /\ InvWhole'
  BY <1>1 DEF IInv, InvHere, InvAway, InvWhole, Away, Exists, LevelOf
<1>3. InvType /\ InvTime
  BY DEF IInv
<1>4. CASE dopray
  <2>1. moves' = moves /\ running' = running /\ skipped' = skipped /\ praying' \in Nat
    BY <1>4, LitAssumption DEF dopray
  <2>2. InvType' /\ InvTime'
    BY <1>1, <1>3, <2>1 DEF InvType, InvTime, LateNotCarried
  <2> QED BY <1>2, <2>2 DEF IInv
<1>5. CASE next_turn
  <2>1. /\ moves' = moves + 1 /\ running' = (praying = 0) /\ skipped' = (skipped \/ praying > 0)
        /\ praying' = IF praying > 0 THEN praying - 1 ELSE 0
    BY <1>5 DEF next_turn
  <2>2. moves' \in Nat /\ praying' \in Nat /\ (praying = 0 \/ praying > 0)
    BY <1>3, <2>1 DEF InvType
  <2>3. running' \in BOOLEAN /\ skipped' \in BOOLEAN /\ (skipped' \/ running')
        /\ (skipped => skipped')
    BY <2>1, <2>2
  <2>5. ASSUME ~skipped' PROVE \A t \in mem.timers : ~(t.timeout < moves + 1)
    <3>1. ~skipped /\ ~running
      BY <1>5, <2>1, <2>5 DEF next_turn, OthersAct
    <3>2. mem.timers \subseteq BurnTimer /\ moves \in Int
      BY <1>3 DEF InvType, Memories
    <3>3. \A t \in mem.timers : t.timeout > moves /\ t.timeout \in Int
      BY <1>3, <3>1, <3>2 DEF InvTime, BurnTimer
    <3> QED BY <3>2, <3>3
  <2>4. InvType' /\ InvTime'
    BY <1>1, <1>3, <2>1, <2>2, <2>3, <2>5 DEF InvType, InvTime, LateNotCarried
  <2> QED BY <1>2, <2>4 DEF IInv
<1>6. CASE timers_done
  <2>1. /\ moves' = moves /\ running' = FALSE /\ skipped' = skipped /\ praying' = praying
        /\ \A t \in mem.timers : t.timeout > moves
    BY <1>6 DEF timers_done
  <2>2. InvType' /\ InvTime'
    BY <1>1, <1>3, <2>1 DEF InvType, InvTime, LateNotCarried
  <2> QED BY <1>2, <2>2 DEF IInv
<1>7. CASE UNCHANGED vars
  <2>1. moves' = moves /\ running' = running /\ skipped' = skipped /\ praying' = praying
    BY <1>7 DEF vars
  <2>2. InvType' /\ InvTime'
    BY <1>1, <1>3, <2>1 DEF InvType, InvTime, LateNotCarried
  <2> QED BY <1>2, <2>2 DEF IInv
<1> QED BY <1>4, <1>5, <1>6, <1>7

\* What burn_object() makes of a timer that is due either burns on, with the
\* fuel it had, or is out and had none.
LEMMA RunTimerStep ==
  ASSUME IInv, NEW t \in mem.timers, run_timer(t)
  PROVE  IInv' /\ [Clock!ClockNext]_(Clock!clockVars)
<1> DEFINE o == t.obj
           v == burn_object(unlink_timer(mem, t), o, t.timeout, moves)
<1>1. /\ mem' = v /\ running /\ t.timeout <= moves
      /\ file' = file /\ moves' = moves /\ level' = level /\ petAt' = petAt
      /\ praying' = praying /\ running' = running /\ skipped' = skipped
  BY DEF run_timer, IsHead
<1>2. o \in Objs /\ mem \in Memories /\ moves \in Int /\ t \in TimersOf(mem, o)
  BY DEF IInv, InvType, Memories, BurnTimer, TimersOf
<1>3. ~Away(o)
  BY <1>2 DEF IInv, InvAway, HoldsNothing
<1>4. InStep(mem, o)
  BY <1>2, <1>3 DEF IInv, InvHere
<1>15. mem.obj[o].lamplit /\ Whole(o, mem.obj[o])
  BY <1>2, <1>4 DEF InStep, IInv, InvWhole
<1>16. /\ Kind[o] = "oil" => mem.obj[o].age = 0
       /\ mem.obj[o].where # "gone" /\ mem.obj[o].n > 0
  BY <1>15 DEF Whole
<1>5. Ran(mem, v, o, moves) /\ Aged(v, o, FuelIn(mem, o, moves), moves)
  <2> HIDE DEF o
  <2>1. t.obj = o
    BY DEF o
  <2> QED BY <1>1, <1>2, <1>4, <1>16, <2>1, RunTimer
<1>6. /\ v \in Memories /\ \A q \in Objs \ {o} : Same(v, mem, q)
      /\ InStep(v, o) /\ (mem.obj[o].age >= 0 => v.obj[o].age >= 0)
      /\ \/ v.obj[o] = NoObject
         \/ /\ v.obj[o].where = mem.obj[o].where
            /\ \/ Kind[o] = "menorah" /\ ~v.obj[o].lamplit
               \/ v.obj[o].n = mem.obj[o].n
  BY <1>5 DEF Ran, Fresh
<1>7. v.obj[o].lamplit /\ Kind[o] = "oil" => v.obj[o].age = 0
  BY <1>5 DEF Aged
<1> HIDE DEF v, o
<1>8. \A q \in Objs \ {o} : (Away(q)' <=> Away(q)) /\ LevelOf(q)' = LevelOf(q)
  BY <1>1, <1>6 DEF Away, Exists, LevelOf, Same
<1>9. ~Away(o)'
  <2>1. CASE v.obj[o] = NoObject
    BY <1>1, <2>1 DEF Away, Exists, NoObject
  <2>2. CASE v.obj[o].where = mem.obj[o].where
    BY <1>1, <1>3, <2>2 DEF Away, Exists, LevelOf
  <2> QED BY <1>6, <2>1, <2>2
<1>10. InvType'
  BY <1>1, <1>6 DEF IInv, InvType
<1>11. InvHere'
  BY <1>1, <1>2, <1>3, <1>6, <1>8 DEF IInv, InvHere, InStep, Same
<1>12. InvAway'
  <2> SUFFICES ASSUME NEW q \in Objs, Away(q)'
               PROVE  /\ HoldsNothing(mem', q) /\ LevelOf(q)' \in Levels
                      /\ Agrees(mem'.obj[q], TimersOf(file'[LevelOf(q)'], q),
                                file'[LevelOf(q)'].lights[q])
                      /\ \A l \in Levels \ {LevelOf(q)'} : HoldsNothing(file'[l], q)
    BY <1>1 DEF InvAway
  <2>1. Away(q) /\ LevelOf(q)' = LevelOf(q) /\ Same(v, mem, q)
    BY <1>6, <1>8, <1>9
  <2> QED BY <1>1, <2>1 DEF IInv, InvAway, Same, HoldsNothing
\* A timer that is started anew is still to come.
<1>22. ASSUME ~skipped PROVE LateNotCarried'
  <2>1. Fresh(v, o, moves) /\ LateNotCarried
    BY <1>1, <1>2, <1>5, <1>22 DEF Ran, IInv, InvTime
  <2> SUFFICES ASSUME NEW u \in v.timers, u.timeout < moves
               PROVE  v.obj[u.obj].where # "hero"
    BY <1>1 DEF LateNotCarried
  <2>2. u.obj \in Objs /\ u \in TimersOf(v, u.obj) /\ u.timeout \in Int
    BY <1>6 DEF Memories, BurnTimer, TimersOf
  <2>3. u.obj # o
    BY <1>2, <2>1, <2>2 DEF Fresh
  <2>4. u \in mem.timers /\ v.obj[u.obj] = mem.obj[u.obj]
    BY <1>6, <2>2, <2>3 DEF Same, TimersOf
  <2> QED BY <2>1, <2>4 DEF LateNotCarried
<1>13. InvTime'
  BY <1>1, <1>2, <1>6, <1>22 DEF IInv, InvTime, Same
<1>14. InvWhole'
  <2>1. Whole(o, v.obj[o])
    <3>1. CASE v.obj[o] = NoObject
      BY <1>2, <3>1, PlacedGone DEF Placed
    <3>2. CASE v.obj[o] # NoObject
      <4>1. /\ v.obj[o].where = mem.obj[o].where
            /\ \/ Kind[o] = "menorah" /\ ~v.obj[o].lamplit
               \/ v.obj[o].n = mem.obj[o].n
        BY <1>6, <3>2
      <4> QED BY <1>7, <1>16, <4>1 DEF Whole
    <3> QED BY <3>1, <3>2
  <2> QED BY <1>1, <1>6, <2>1 DEF IInv, InvWhole, Same
\* The clock: what the others have is left alone.
<1>17. Only(v)
  BY <1>1 DEF Only
<1>18. \A q \in Objs \ {o} : fuelOf(q)' = fuelOf(q) /\ v.obj[q].lamplit = mem.obj[q].lamplit
  BY <1>6, <1>17, LeftOnly DEF fuelOf, Same
<1>19. left(o) = FuelIn(mem, o, moves) /\ left(o)' = FuelIn(v, o, moves)
  BY <1>2, <1>3, <1>17, LeftHere, LeftOnly
<1>20. ASSUME v.obj[o].lamplit PROVE UNCHANGED Clock!clockVars
  <2>1. left(o)' = left(o)
    BY <1>5, <1>19, <1>20 DEF Aged
  <2>2. fuelOf(o)' = fuelOf(o) /\ (v.obj[o].lamplit <=> mem.obj[o].lamplit)
    BY <1>15, <1>20, <2>1 DEF fuelOf
  <2>3. \A q \in Objs : fuelOf(q)' = fuelOf(q)
    BY <1>18, <2>2
  <2>4. {q \in Objs : mem.obj[q].lamplit}' = {q \in Objs : mem.obj[q].lamplit}
    BY <1>1, <1>18, <2>2
  <2> QED BY <1>1, <2>3, <2>4 DEF Clock!clockVars
<1>21. ASSUME ~v.obj[o].lamplit PROVE Clock!ClockNext
  <2>1. left(o)' = 0 /\ left(o) <= 0 /\ left(o) \in Int
    BY <1>2, <1>5, <1>19, <1>21, FuelInt DEF Aged
  <2>2. fuelOf(o)' = 0 /\ fuelOf(o) = 0
    BY <2>1 DEF fuelOf
  <2>3. \A q \in Objs : fuelOf(q)' = fuelOf(q)
    BY <1>18, <2>2
  <2>4. {q \in Objs : mem.obj[q].lamplit}' = {q \in Objs : mem.obj[q].lamplit} \ {o}
    BY <1>1, <1>18, <1>21
  <2>5. Clock!GoOut(o)
    BY <1>1, <1>2, <1>15, <2>2, <2>3, <2>4 DEF Clock!GoOut
  <2> QED BY <1>2, <2>5 DEF Clock!ClockNext
<1> QED BY <1>10, <1>11, <1>12, <1>13, <1>14, <1>20, <1>21 DEF IInv

\* What stays behind goes from memory into the file of the level that is
\* left, what is on the level arrived at comes out of its file.
LEMMA GotoLevelStep ==
  ASSUME IInv, NEW l \in Levels, NEW follows \in BOOLEAN, goto_level(l, follows)
  PROVE  IInv'
<1> DEFINE f == file[l]
           g == saved(follows)
           v == restored(follows, f)
           Local(q) == obj_is_local(q, follows)
<1>1. /\ ~running /\ l # level /\ mem' = v /\ level' = l /\ running' = TRUE
      /\ file' = [file EXCEPT ![level] = g, ![l] = EmptyFile]
      /\ petAt' = IF petAt = level /\ follows THEN l ELSE petAt
      /\ moves' = moves /\ praying' = praying /\ skipped' = skipped
  BY DEF goto_level, HeroActs
<1>2. mem \in Memories /\ file \in [Levels -> Files] /\ level \in Levels /\ petAt \in Levels
      /\ f \in Files
  BY DEF IInv, InvType
<1>3. /\ g.timers = {t \in mem.timers : Local(t.obj)}
      /\ \A q \in Objs : g.lights[q] = IF Local(q) THEN mem.lights[q] ELSE 0
  BY DEF saved
<1>4. g \in Files
  BY <1>2 DEF saved, Files, Memories
<1>5. /\ v.obj = mem.obj /\ v.timers = (mem.timers \ g.timers) \cup f.timers
      /\ \A q \in Objs : v.lights[q] = mem.lights[q] - g.lights[q] + f.lights[q]
      /\ v = [obj |-> mem.obj, timers |-> v.timers, lights |-> v.lights]
      /\ v.lights = [q \in Objs |-> v.lights[q]]
  <2> DEFINE lights == [q \in Objs |-> mem.lights[q] - g.lights[q] + f.lights[q]]
             T == (mem.timers \ g.timers) \cup f.timers
  <2> HIDE DEF T, f, g
  <2>1. v = [mem EXCEPT !.timers = T, !.lights = lights]
    BY DEF restored, T, g
  <2>2. \A q \in Objs : lights[q] = mem.lights[q] - g.lights[q] + f.lights[q]
    OBVIOUS
  <2>3. lights = [q \in Objs |-> lights[q]]
    OBVIOUS
  <2> HIDE DEF lights, v
  <2>4. v.obj = mem.obj /\ v.timers = T /\ v.lights = lights
        /\ v = [obj |-> mem.obj, timers |-> T, lights |-> lights]
    BY <1>2, <2>1 DEF Memories
  <2> QED BY <2>2, <2>3, <2>4 DEF T
<1>6. file'[l] = EmptyFile /\ file'[level] = g
      /\ \A k \in Levels \ {l, level} : file'[k] = file[k]
  BY <1>1, <1>2
<1> HIDE DEF g, v
<1>7. \A q \in Objs : /\ TimersOf(g, q) = IF Local(q) THEN TimersOf(mem, q) ELSE {}
                      /\ TimersOf(v, q) = (IF Local(q) THEN {} ELSE TimersOf(mem, q))
                                            \cup TimersOf(f, q)
                      /\ HoldsNothing(EmptyFile, q)
  BY <1>3, <1>5 DEF TimersOf, HoldsNothing, EmptyFile, NoLights
<1>8. \A q \in Objs : mem.lights[q] \in 0..1 /\ f.lights[q] \in 0..1
  BY <1>2 DEF Memories, Files
<1>9. \A q \in Objs :
        v.lights[q] = (IF Local(q) THEN 0 ELSE mem.lights[q]) + f.lights[q]
  BY <1>3, <1>5, <1>8
<1>10. \A q \in Objs : mem.obj[q].where \in Places \cup {"gone"}
  BY <1>2 DEF Memories, Things
\* Where an object was and is
<1>11. ASSUME NEW q \in Objs, Local(q)
       PROVE  ~Away(q) /\ Away(q)' /\ LevelOf(q)' = level
  BY <1>1, <1>2, <1>5, <1>10, <1>11, BurnAssumption
     DEF obj_is_local, Present, Away, Exists, LevelOf, Places
<1>12. ASSUME NEW q \in Objs, ~Local(q), ~Away(q)
       PROVE  ~Away(q)'
  BY <1>1, <1>2, <1>5, <1>10, <1>12, BurnAssumption
     DEF obj_is_local, Present, Away, Exists, LevelOf, Places
<1>13. ASSUME NEW q \in Objs, Away(q), LevelOf(q) = l
       PROVE  ~Local(q) /\ ~Away(q)'
  BY <1>1, <1>2, <1>5, <1>10, <1>13, BurnAssumption
     DEF obj_is_local, Present, Away, Exists, LevelOf, Places
<1>14. ASSUME NEW q \in Objs, Away(q), LevelOf(q) # l
       PROVE  ~Local(q) /\ Away(q)' /\ LevelOf(q)' = LevelOf(q) /\ LevelOf(q) # level
  BY <1>1, <1>2, <1>5, <1>10, <1>14, BurnAssumption
     DEF obj_is_local, Present, Away, Exists, LevelOf, Places
<1> HIDE DEF Local, f
\* What memory and the files held of it
<1>15. ASSUME NEW q \in Objs, ~Away(q)
       PROVE  InStep(mem, q) /\ \A k \in Levels : HoldsNothing(file[k], q)
  BY <1>15 DEF IInv, InvHere
<1>16. ASSUME NEW q \in Objs, Away(q)
       PROVE  /\ HoldsNothing(mem, q) /\ LevelOf(q) \in Levels
              /\ Agrees(mem.obj[q], TimersOf(file[LevelOf(q)], q), file[LevelOf(q)].lights[q])
              /\ \A k \in Levels \ {LevelOf(q)} : HoldsNothing(file[k], q)
  BY <1>16 DEF IInv, InvAway
\* One object after the other
<1>17. ASSUME NEW q \in Objs, Local(q)
       PROVE  /\ HoldsNothing(v, q) /\ Agrees(mem.obj[q], TimersOf(g, q), g.lights[q])
              /\ \A k \in Levels \ {level} : HoldsNothing(file'[k], q)
  <2>1. InStep(mem, q) /\ \A k \in Levels : HoldsNothing(file[k], q)
    BY <1>11, <1>15, <1>17
  <2>2. HoldsNothing(v, q)
    BY <1>7, <1>9, <1>17, <2>1 DEF HoldsNothing, f
  <2>3. Agrees(mem.obj[q], TimersOf(g, q), g.lights[q])
    BY <1>3, <1>7, <1>17, <2>1 DEF Agrees, InStep
  <2>4. \A k \in Levels \ {level} : HoldsNothing(file'[k], q)
    BY <1>6, <1>7, <2>1
  <2> QED BY <2>2, <2>3, <2>4
<1>18. ASSUME NEW q \in Objs, ~Local(q), ~Away(q)
       PROVE  Same(v, mem, q) /\ \A k \in Levels : HoldsNothing(file'[k], q)
  <2>1. \A k \in Levels : HoldsNothing(file[k], q)
    BY <1>15, <1>18
  <2>2. Same(v, mem, q)
    <3>1. TimersOf(f, q) = {} /\ f.lights[q] = 0
      BY <2>1 DEF HoldsNothing, f
    <3>2. v.lights[q] = mem.lights[q] + f.lights[q]
      BY <1>9, <1>18
    <3>3. v.lights[q] = mem.lights[q]
      BY <1>8, <3>1, <3>2
    <3>4. TimersOf(v, q) = TimersOf(mem, q)
      BY <1>7, <1>18, <3>1
    <3> QED BY <1>5, <3>3, <3>4 DEF Same
  <2>3. HoldsNothing(g, q)
    BY <1>3, <1>7, <1>18 DEF HoldsNothing
  <2>4. \A k \in Levels : HoldsNothing(file'[k], q)
    BY <1>6, <1>7, <2>1, <2>3
  <2> QED BY <2>2, <2>4
<1>19. ASSUME NEW q \in Objs, Away(q), LevelOf(q) = l
       PROVE  InStep(v, q) /\ \A k \in Levels : HoldsNothing(file'[k], q)
  <2>1. /\ HoldsNothing(mem, q) /\ Agrees(mem.obj[q], TimersOf(f, q), f.lights[q])
        /\ \A k \in Levels \ {l} : HoldsNothing(file[k], q)
    BY <1>16, <1>19 DEF f
  <2>2. ~Local(q)
    BY <1>13, <1>19
  <2>3. TimersOf(v, q) = TimersOf(f, q) /\ v.lights[q] = f.lights[q]
    <3>1. TimersOf(mem, q) = {} /\ mem.lights[q] = 0
      BY <2>1 DEF HoldsNothing
    <3>2. v.lights[q] = mem.lights[q] + f.lights[q]
      BY <1>9, <2>2
    <3>3. v.lights[q] = f.lights[q]
      BY <1>8, <3>1, <3>2
    <3>4. TimersOf(v, q) = TimersOf(f, q)
      BY <1>7, <2>2, <3>1
    <3> QED BY <3>3, <3>4
  <2>4. InStep(v, q)
    BY <1>5, <2>1, <2>3 DEF InStep, Agrees
  <2>5. HoldsNothing(g, q)
    BY <1>3, <1>7, <2>2 DEF HoldsNothing
  <2>6. \A k \in Levels : HoldsNothing(file'[k], q)
    BY <1>6, <1>7, <2>1, <2>5
  <2> QED BY <2>4, <2>6
<1>20. ASSUME NEW q \in Objs, Away(q), LevelOf(q) # l
       PROVE  /\ HoldsNothing(v, q)
              /\ Agrees(mem.obj[q], TimersOf(file'[LevelOf(q)], q), file'[LevelOf(q)].lights[q])
              /\ \A k \in Levels \ {LevelOf(q)} : HoldsNothing(file'[k], q)
  <2>1. ~Local(q) /\ LevelOf(q) # level
    BY <1>14, <1>20
  <2>2. /\ HoldsNothing(mem, q) /\ LevelOf(q) \in Levels
        /\ Agrees(mem.obj[q], TimersOf(file[LevelOf(q)], q), file[LevelOf(q)].lights[q])
        /\ \A k \in Levels \ {LevelOf(q)} : HoldsNothing(file[k], q)
    BY <1>16, <1>20
  <2>3. HoldsNothing(f, q)
    BY <1>20, <2>2 DEF f
  <2>4. HoldsNothing(v, q)
    BY <1>7, <1>9, <2>1, <2>2, <2>3 DEF HoldsNothing
  <2>5. HoldsNothing(g, q)
    BY <1>3, <1>7, <2>1 DEF HoldsNothing
  <2>6. file'[LevelOf(q)] = file[LevelOf(q)]
    BY <1>6, <1>20, <2>1, <2>2
  <2>7. \A k \in Levels \ {LevelOf(q)} : HoldsNothing(file'[k], q)
    BY <1>6, <1>7, <2>2, <2>5
  <2> QED BY <2>2, <2>4, <2>6, <2>7
\* The invariant
<1>21. \A q \in Objs : v.lights[q] \in 0..1
  <2> SUFFICES ASSUME NEW q \in Objs PROVE v.lights[q] \in 0..1
    OBVIOUS
  <2>1. CASE Local(q)
    BY <1>17, <2>1 DEF HoldsNothing
  <2>2. CASE ~Local(q) /\ ~Away(q)
    BY <1>8, <1>18, <2>2 DEF Same
  <2>3. CASE Away(q) /\ LevelOf(q) = l
    BY <1>19, <2>3 DEF InStep
  <2>4. CASE Away(q) /\ LevelOf(q) # l
    BY <1>20, <2>4 DEF HoldsNothing
  <2> QED BY <2>1, <2>2, <2>3, <2>4
<1>22. InvType'
  <2>1. v.timers \subseteq BurnTimer
    BY <1>2, <1>5 DEF Memories, Files, f
  <2>2. v.lights \in [Objs -> 0..1]
    BY <1>5, <1>21
  <2>3. v \in Memories
    BY <1>2, <1>5, <2>1, <2>2 DEF Memories
  <2>4. EmptyFile \in Files
    BY DEF EmptyFile, Files, NoLights
  <2>5. file' \in [Levels -> Files]
    BY <1>1, <1>2, <1>4, <2>4
  <2> QED BY <1>1, <2>3, <2>5 DEF IInv, InvType
<1>23. InvHere'
  <2> SUFFICES ASSUME NEW q \in Objs, ~Away(q)'
               PROVE  InStep(v, q) /\ \A k \in Levels : HoldsNothing(file'[k], q)
    BY <1>1 DEF InvHere
  <2>1. CASE ~Local(q) /\ ~Away(q)
    BY <1>15, <1>18, <2>1 DEF Same, InStep
  <2>2. CASE Away(q) /\ LevelOf(q) = l
    BY <1>19, <2>2
  <2> QED BY <1>11, <1>14, <2>1, <2>2
<1>24. InvAway'
  <2> SUFFICES ASSUME NEW q \in Objs, Away(q)'
               PROVE  /\ HoldsNothing(v, q) /\ LevelOf(q)' \in Levels
                      /\ Agrees(v.obj[q], TimersOf(file'[LevelOf(q)'], q),
                                file'[LevelOf(q)'].lights[q])
                      /\ \A k \in Levels \ {LevelOf(q)'} : HoldsNothing(file'[k], q)
    BY <1>1 DEF InvAway
  <2>1. CASE Local(q)
    BY <1>2, <1>5, <1>6, <1>11, <1>17, <2>1
  <2>2. CASE Away(q) /\ LevelOf(q) # l
    BY <1>5, <1>14, <1>16, <1>20, <2>2
  <2> QED BY <1>12, <1>13, <2>1, <2>2
\* What the file brings back was on that level, or with a pet the hero left there.
<1>26. ASSUME ~skipped PROVE LateNotCarried'
  <2>1. \A t \in mem.timers : t.timeout > moves
    BY <1>1, <1>26 DEF IInv, InvTime
  <2> SUFFICES ASSUME NEW t \in v.timers, t.timeout < moves
               PROVE  mem.obj[t.obj].where # "hero"
    BY <1>1, <1>5 DEF LateNotCarried
  <2>2. CASE t \in mem.timers
    <3>1. t.timeout > moves /\ t.timeout \in Int /\ moves \in Int
      BY <1>2, <2>1, <2>2 DEF Memories, BurnTimer, IInv, InvType
    <3> QED BY <3>1
  <2>3. CASE t \in f.timers
    <3>1. t.obj \in Objs /\ t \in TimersOf(f, t.obj)
      BY <1>2, <2>3 DEF Files, BurnTimer, TimersOf
    <3>2. Away(t.obj)
      BY <1>15, <3>1 DEF HoldsNothing, f
    <3> QED BY <3>2 DEF Away, LevelOf
  <2> QED BY <1>5, <2>2, <2>3
<1>25. InvTime' /\ InvWhole'
  BY <1>1, <1>5, <1>26 DEF IInv, InvTime, InvWhole
<1> QED BY <1>22, <1>23, <1>24, <1>25 DEF IInv

-----------------------------------------------------------------------------
(* The clock, as time goes by and from level to level *)

\* A lit object has one timer, wherever it is, and an unlit one has none.
LEMMA OneTimer ==
  ASSUME IInv, NEW o \in Objs
  PROVE  IF mem.obj[o].lamplit THEN \E t \in BurnTimer : Timers(o) = {t} ELSE Timers(o) = {}
<1>1. CASE ~Away(o)
  <2>1. InStep(mem, o) /\ Timers(o) = TimersOf(mem, o)
    BY <1>1, TimersInOnePlace DEF IInv, InvHere
  <2> QED BY <2>1 DEF InStep
<1>2. CASE Away(o)
  <2>1. /\ Agrees(mem.obj[o], TimersOf(file[LevelOf(o)], o), file[LevelOf(o)].lights[o])
        /\ Timers(o) = TimersOf(file[LevelOf(o)], o)
    BY <1>2, TimersInOnePlace DEF IInv, InvAway
  <2> QED BY <2>1 DEF Agrees
<1> QED BY <1>1, <1>2

\* Next to the objects and their timers, fuel depends on the turn.
LEMMA LeftLater ==
  ASSUME IInv, NEW o \in Objs, mem'.obj[o] = mem.obj[o], Timers(o)' = Timers(o),
         moves' \in Int
  PROVE  /\ left(o) \in Int
         /\ left(o)' = IF mem.obj[o].lamplit THEN left(o) + moves - moves' ELSE left(o)
<1>1. mem.obj[o].age \in Int /\ moves \in Int
  BY DEF IInv, InvType, Memories, Things
<1>2. CASE ~mem.obj[o].lamplit
  <2>1. Timers(o) = {}
    BY <1>2, OneTimer
  <2>2. left(o) = mem.obj[o].age + 0 /\ left(o)' = mem.obj[o].age + 0
    BY <2>1 DEF left
  <2> QED BY <1>1, <1>2, <2>2
<1>3. CASE mem.obj[o].lamplit
  <2>1. PICK t \in BurnTimer : Timers(o) = {t}
    BY <1>3, OneTimer
  <2>2. t.timeout \in Int
    BY DEF BurnTimer
  <2>3. Timers(o) # {} /\ (CHOOSE u \in Timers(o) : TRUE) = t
    BY <2>1
  <2>4. Timers(o)' # {} /\ (CHOOSE u \in Timers(o)' : TRUE) = t
    BY <2>1
  <2>5. left(o) = mem.obj[o].age + (t.timeout - moves)
    BY <2>3 DEF left
  <2>6. left(o)' = mem.obj[o].age + (t.timeout - moves')
    BY <2>4 DEF left
  <2> QED BY <1>1, <1>3, <2>2, <2>5, <2>6
<1> QED BY <1>2, <1>3

\* A turn takes one unit from what burns, as far as there is any.
LEMMA TurnStep ==
  ASSUME IInv, next_turn PROVE Clock!Turn
<1>1. /\ mem' = mem /\ file' = file /\ moves' = moves + 1 /\ moves \in Int
      /\ ~running /\ running' = (praying = 0)
  BY DEF next_turn, OthersAct, IInv, InvType
<1>2. running' \in BOOLEAN
  BY <1>1
<1>3. ASSUME NEW o \in Objs
      PROVE  fuelOf(o)' = IF mem.obj[o].lamplit /\ fuelOf(o) > 0 THEN fuelOf(o) - 1
                                                                 ELSE fuelOf(o)
  <2>1. Timers(o)' = Timers(o)
    BY <1>1 DEF Timers, TimersOf
  <2>2. /\ left(o) \in Int
        /\ left(o)' = IF mem.obj[o].lamplit THEN left(o) + moves - moves' ELSE left(o)
    BY <1>1, <2>1, LeftLater
  <2> QED BY <1>1, <2>2 DEF fuelOf
<1>4. {o \in Objs : mem.obj[o].lamplit}' = {o \in Objs : mem.obj[o].lamplit}
  BY <1>1
<1> QED BY <1>1, <1>2, <1>3, <1>4 DEF Clock!Turn

\* What else leaves the objects, their timers and the turn as they are.
LEMMA FuelKept ==
  ASSUME IInv, moves' = moves,
         \A o \in Objs : mem'.obj[o] = mem.obj[o] /\ Timers(o)' = Timers(o)
  PROVE  /\ \A o \in Objs : fuelOf(o)' = fuelOf(o)
         /\ {o \in Objs : mem.obj[o].lamplit}' = {o \in Objs : mem.obj[o].lamplit}
<1>1. ASSUME NEW o \in Objs PROVE fuelOf(o)' = fuelOf(o)
  <2>1. mem'.obj[o] = mem.obj[o] /\ Timers(o)' = Timers(o)
    OBVIOUS
  <2>2. (CHOOSE t \in Timers(o) : TRUE)' = (CHOOSE t \in Timers(o) : TRUE)
    BY <2>1
  <2>3. left(o)' = left(o)
    BY <2>1, <2>2 DEF left
  <2> QED BY <2>3 DEF fuelOf
<1>2. {o \in Objs : mem.obj[o].lamplit}' = {o \in Objs : mem.obj[o].lamplit}
  OBVIOUS
<1> QED BY <1>1, <1>2

\* Timers go from memory to the file of the level that is left, and back from
\* that of the level arrived at; none is lost or becomes another's.
LEMMA ArriveStep ==
  ASSUME IInv, NEW l \in Levels, NEW follows \in BOOLEAN, goto_level(l, follows)
  PROVE  Clock!Arrive
<1> DEFINE f == file[l]
           g == saved(follows)
<1>1. /\ ~running /\ l # level /\ mem' = restored(follows, f) /\ running' = TRUE
      /\ file' = [file EXCEPT ![level] = g, ![l] = EmptyFile]
      /\ moves' = moves
  BY DEF goto_level, HeroActs
<1>2. mem \in Memories /\ file \in [Levels -> Files] /\ level \in Levels
  BY DEF IInv, InvType
<1>3. file'[l] = EmptyFile /\ file'[level] = g
      /\ \A k \in Levels \ {l, level} : file'[k] = file[k]
  BY <1>1, <1>2
<1>4. g.timers \subseteq mem.timers /\ EmptyFile.timers = {}
  BY DEF saved, EmptyFile
<1>5. mem'.obj = mem.obj /\ mem'.timers = (mem.timers \ g.timers) \cup f.timers
  BY <1>1, <1>2 DEF restored, Memories
<1> HIDE DEF g
\* The file of the level the hero is on holds nothing.
<1>6. ASSUME NEW o \in Objs PROVE TimersOf(file[level], o) = {}
  <2>1. CASE ~Away(o)
    BY <1>2, <2>1 DEF IInv, InvHere, HoldsNothing
  <2>2. CASE Away(o)
    BY <1>2, <2>2 DEF IInv, InvAway, HoldsNothing, Away
  <2> QED BY <2>1, <2>2
<1>7. ASSUME NEW o \in Objs PROVE Timers(o)' = Timers(o)
  <2>1. Timers(o)' = TimersOf(mem', o) \cup UNION {TimersOf(file'[k], o) : k \in Levels}
    BY DEF Timers
  <2>2. Timers(o) = TimersOf(mem, o) \cup UNION {TimersOf(file[k], o) : k \in Levels}
    BY DEF Timers
  <2>3. /\ TimersOf(mem', o) = (TimersOf(mem, o) \ TimersOf(g, o)) \cup TimersOf(f, o)
        /\ TimersOf(g, o) \subseteq TimersOf(mem, o)
    BY <1>4, <1>5 DEF TimersOf
  <2>4. /\ TimersOf(file'[l], o) = {} /\ TimersOf(file'[level], o) = TimersOf(g, o)
        /\ \A k \in Levels \ {l, level} : TimersOf(file'[k], o) = TimersOf(file[k], o)
    BY <1>3, <1>4 DEF TimersOf
  <2>5. ASSUME NEW t PROVE t \in Timers(o)' <=> t \in Timers(o)
    <3>1. ASSUME t \in Timers(o)' PROVE t \in Timers(o)
      BY <2>1, <2>2, <2>3, <2>4, <3>1
    <3>2. ASSUME t \in Timers(o) PROVE t \in Timers(o)'
      <4>1. CASE t \in TimersOf(mem, o)
        BY <1>2, <2>1, <2>3, <2>4, <4>1
      <4>2. ASSUME NEW k \in Levels, t \in TimersOf(file[k], o) PROVE t \in Timers(o)'
        BY <1>6, <2>1, <2>3, <2>4, <4>2
      <4> QED BY <2>2, <3>2, <4>1, <4>2
    <3> QED BY <3>1, <3>2
  <2> QED BY <2>5
<1>8. /\ \A o \in Objs : fuelOf(o)' = fuelOf(o)
      /\ {o \in Objs : mem.obj[o].lamplit}' = {o \in Objs : mem.obj[o].lamplit}
  BY <1>1, <1>5, <1>7, FuelKept
<1> QED BY <1>1, <1>8 DEF Clock!Arrive

LEMMA QuietClock ==
  ASSUME IInv, dopray \/ timers_done \/ UNCHANGED vars
  PROVE  [Clock!ClockNext]_(Clock!clockVars)
<1>1. mem' = mem /\ file' = file /\ moves' = moves
  BY DEF dopray, timers_done, vars
<1>2. \A o \in Objs : mem'.obj[o] = mem.obj[o] /\ Timers(o)' = Timers(o)
  BY <1>1 DEF Timers, TimersOf
<1>3. /\ \A o \in Objs : fuelOf(o)' = fuelOf(o)
      /\ {o \in Objs : mem.obj[o].lamplit}' = {o \in Objs : mem.obj[o].lamplit}
  BY <1>1, <1>2, FuelKept
<1>4. CASE dopray \/ UNCHANGED vars
  <2>1. running' = running
    BY <1>4 DEF dopray, vars
  <2> QED BY <1>3, <2>1 DEF Clock!clockVars
<1>5. CASE timers_done
  <2>1. Clock!Settled
    BY <1>3, <1>5 DEF timers_done, Clock!Settled
  <2> QED BY <2>1 DEF Clock!ClockNext
<1> QED BY <1>4, <1>5

-----------------------------------------------------------------------------
(* Every step *)

LEMMA NextIInv == IInv /\ [Next]_vars => IInv'
<1> SUFFICES ASSUME IInv, [Next]_vars PROVE IInv'
  OBVIOUS
<1>1. CASE UNCHANGED vars
  BY <1>1, QuietStep
<1>2. CASE HeroNext
  <2>1. ASSUME NEW o \in Objs, use_lamp(o) \/ use_candelabrum(o) \/ light_cocktail(o)
        PROVE  IInv'
    BY <2>1, UseLampStep, UseCandelabrumStep, LightCocktailStep
  <2>2. ASSUME NEW o \in Objs, NEW p \in Objs, use_candle(o, p) \/ dip_lamp(o, p)
        PROVE  IInv'
    BY <2>2, UseCandleStep, DipLampStep
  <2>3. ASSUME NEW l \in Levels, NEW follows \in BOOLEAN, goto_level(l, follows)
        PROVE  IInv'
    BY <2>3, GotoLevelStep
  <2>4. CASE dopray
    BY <2>4, QuietStep
  <2> QED BY <1>2, <2>1, <2>2, <2>3, <2>4 DEF HeroNext
<1>3. CASE OtherNext
  <2>1. ASSUME NEW o \in Objs, snuff_lit(o) \/ catch_lit(o) \/ delobj(o)
        PROVE  IInv'
    BY <2>1, SnuffStep, UseLampStep, DelobjStep
  <2>2. ASSUME NEW o \in Objs, NEW place \in Places, transfer(o, place)
        PROVE  IInv'
    BY <2>2, TransferStep
  <2> QED BY <1>3, <2>1, <2>2 DEF OtherNext
<1>4. CASE TimeNext
  BY <1>4, QuietStep, RunTimerStep DEF TimeNext
<1> QED BY <1>1, <1>2, <1>3, <1>4 DEF Next

\* Every step of the model is a step of the clock, or none.
LEMMA NextClock == IInv /\ [Next]_vars => [Clock!ClockNext]_(Clock!clockVars)
<1> SUFFICES ASSUME IInv, [Next]_vars PROVE [Clock!ClockNext]_(Clock!clockVars)
  OBVIOUS
<1>1. CASE UNCHANGED vars
  BY <1>1, QuietClock
<1>2. CASE HeroNext
  <2>1. ASSUME NEW o \in Objs, use_lamp(o) \/ use_candelabrum(o) \/ light_cocktail(o)
        PROVE  Clock!ClockNext
    BY <2>1, UseLampStep, UseCandelabrumStep, LightCocktailStep
  <2>2. ASSUME NEW o \in Objs, NEW p \in Objs, use_candle(o, p) \/ dip_lamp(o, p)
        PROVE  Clock!ClockNext
    BY <2>2, UseCandleStep, DipLampStep
  <2>3. ASSUME NEW l \in Levels, NEW follows \in BOOLEAN, goto_level(l, follows)
        PROVE  Clock!ClockNext
    BY <2>3, ArriveStep DEF Clock!ClockNext
  <2>4. CASE dopray
    BY <2>4, QuietClock
  <2> QED BY <1>2, <2>1, <2>2, <2>3, <2>4 DEF HeroNext
<1>3. CASE OtherNext
  <2>1. ASSUME NEW o \in Objs, snuff_lit(o) \/ catch_lit(o) \/ delobj(o)
        PROVE  Clock!ClockNext
    BY <2>1, SnuffStep, UseLampStep, DelobjStep
  <2>2. ASSUME NEW o \in Objs, NEW place \in Places, transfer(o, place)
        PROVE  Clock!ClockNext
    BY <2>2, TransferStep
  <2> QED BY <1>3, <2>1, <2>2 DEF OtherNext
<1>4. CASE TimeNext
  <2>1. CASE next_turn
    BY <2>1, TurnStep DEF Clock!ClockNext
  <2> QED BY <1>4, <2>1, RunTimerStep, QuietClock DEF TimeNext
<1> QED BY <1>1, <1>2, <1>3, <1>4 DEF Next

\* Nothing burns when the game starts, and no object has less than no fuel.
LEMMA InitClock == Init => Clock!ClockInit
<1> SUFFICES ASSUME Init PROVE Clock!ClockInit
  OBVIOUS
<1>1. PICK stock \in Stock : mem = [obj |-> stock, timers |-> {}, lights |-> NoLights]
  BY DEF Init
<1>2. running = FALSE /\ \A k \in Levels : file[k].timers = {}
  BY DEF Init, EmptyFile
<1>3. ASSUME NEW o \in Objs
      PROVE  fuelOf(o) \in Nat /\ mem.obj[o].lamplit = FALSE
  <2>1. mem.obj[o].age \in Nat /\ mem.obj[o].lamplit = FALSE
    BY <1>1, LitAssumption
  <2>2. Timers(o) = {}
    BY <1>1, <1>2 DEF Timers, TimersOf
  <2>3. left(o) = mem.obj[o].age
    BY <2>1, <2>2 DEF left
  <2> QED BY <2>1, <2>3 DEF fuelOf
<1>4. {o \in Objs : mem.obj[o].lamplit} = {}
  BY <1>3
<1> QED BY <1>2, <1>3, <1>4 DEF Clock!ClockInit

\* The invariant holds of every behaviour.
THEOREM SpecIInv == Spec => []IInv
BY InitIInv, NextIInv, PTL DEF Spec

-----------------------------------------------------------------------------
(* What follows from it *)

\* Every object has at most one timer counted and at most one light source, in
\* memory as in the file of any level.
THEOREM LitTypeCorrect == Spec => []LitTypeOK
<1>1. IInv => LitTypeOK
  BY DEF IInv, InvType, Memories, Files, Things, BurnTimer, LitTypeOK
<1> QED BY <1>1, SpecIInv, PTL

\* An object that is lit has one light source and one burn timer, wherever the
\* hero has left it, and one that is not lit has neither.
THEOREM LitCorrect == Spec => []LitHasLightAndTimer
<1>1. ASSUME IInv PROVE LitHasLightAndTimer
  <2> SUFFICES ASSUME NEW o \in Objs
               PROVE  IF mem.obj[o].lamplit
                        THEN /\ Lights(o) = 1 /\ mem.obj[o].timed = 1
                             /\ \E t \in Timers(o) : Timers(o) = {t}
                        ELSE Lights(o) = 0 /\ mem.obj[o].timed = 0 /\ Timers(o) = {}
    BY DEF LitHasLightAndTimer
  <2>1. CASE ~Away(o)
    <3>1. InStep(mem, o) /\ Timers(o) = TimersOf(mem, o) /\ Lights(o) = mem.lights[o]
      BY <1>1, <2>1, TimersInOnePlace DEF IInv, InvHere, Lights
    <3> QED BY <3>1 DEF InStep
  <2>2. CASE Away(o)
    <3>1. /\ Agrees(mem.obj[o], TimersOf(file[LevelOf(o)], o), file[LevelOf(o)].lights[o])
          /\ Timers(o) = TimersOf(file[LevelOf(o)], o)
          /\ Lights(o) = file[LevelOf(o)].lights[o]
      BY <1>1, <2>2, TimersInOnePlace DEF IInv, InvAway, Lights
    <3> QED BY <3>1 DEF Agrees
  <2> QED BY <2>1, <2>2
<1> QED BY <1>1, SpecIInv, PTL

\* No timer and no light source is about an object that is not there to be
\* found: relink_timers() and relink_light_sources() never panic.
THEOREM NothingDangles == Spec => []NothingDangling
<1>1. ASSUME IInv PROVE NothingDangling
  <2>1. mem \in Memories /\ file \in [Levels -> Files]
    BY <1>1 DEF IInv, InvType
  <2>2. ASSUME NEW o \in Objs, TimersOf(mem, o) # {} \/ mem.lights[o] # 0
        PROVE  Present(o)
    <3>1. ~Away(o)
      BY <1>1, <2>2 DEF IInv, InvAway, HoldsNothing
    <3>2. mem.obj[o].lamplit
      BY <1>1, <2>2, <3>1 DEF IInv, InvHere, InStep
    <3> QED BY <1>1, <3>1, <3>2 DEF IInv, InvWhole, Whole, Away, Present, Exists
  <2>3. ASSUME NEW l \in Levels, NEW o \in Objs, ~HoldsNothing(file[l], o)
        PROVE  Away(o) /\ LevelOf(o) = l
    BY <1>1, <2>3 DEF IInv, InvHere, InvAway
  <2>4. ASSUME NEW t \in mem.timers PROVE Present(t.obj)
    <3>1. t.obj \in Objs /\ t \in TimersOf(mem, t.obj)
      BY <2>1 DEF Memories, BurnTimer, TimersOf
    <3> QED BY <2>2, <3>1
  <2>5. ASSUME NEW l \in Levels, NEW t \in file[l].timers
        PROVE  Away(t.obj) /\ LevelOf(t.obj) = l
    <3>1. t.obj \in Objs /\ t \in TimersOf(file[l], t.obj)
      BY <2>1 DEF Files, BurnTimer, TimersOf
    <3> QED BY <2>3, <3>1 DEF HoldsNothing
  <2>6. \A o \in Objs : mem.lights[o] > 0 => Present(o)
    BY <2>2
  <2>7. ASSUME NEW l \in Levels, NEW o \in Objs, file[l].lights[o] > 0
        PROVE  Away(o) /\ LevelOf(o) = l
    BY <2>3, <2>7 DEF HoldsNothing
  <2> QED BY <2>4, <2>5, <2>6, <2>7 DEF NothingDangling
<1> QED BY <1>1, SpecIInv, PTL

\* Without a prayer no timer is overdue while anybody acts, and fuel is never
\* negative.
THEOREM NothingIsOverdue == Spec => []NothingOverdue
<1>1. IInv => NothingOverdue
  BY DEF IInv, InvTime, NothingOverdue
<1> QED BY <1>1, SpecIInv, PTL

\* As long as run_timers() had its turn, nothing it finds late is carried by the
\* hero: burn_object() may well let it go without a message.
THEOREM LateIsElsewhere == Spec => []LateOnlyAfterPrayer
<1>1. IInv => LateOnlyAfterPrayer
  BY DEF IInv, InvTime, LateNotCarried, LateOnlyAfterPrayer
<1> QED BY <1>1, SpecIInv, PTL

\* Timers, magic times, the splitting and merging of stacks, the prayers that
\* hold run_timers() back and the files of levels add up to FuelClock: a light
\* burns one unit a turn wherever it is, run_timers() puts out those that have
\* none left and no other, and no fuel comes from nothing.
THEOREM ImplementsClock == Spec => RefinesClock
<1>1. IInv /\ [Next]_vars => [Clock!ClockNext]_(Clock!clockVars)
  BY NextClock
<1> QED BY <1>1, InitClock, SpecIInv, PTL DEF Spec, RefinesClock, Clock!ClockSpec

=============================================================================
