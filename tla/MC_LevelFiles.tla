---------------------------- MODULE MC_LevelFiles ---------------------------
(* LevelFiles for TLC: the processes are alike. *)
EXTENDS LevelFiles, TLC

ProcSymmetry == Permutations(Procs)

\* Two states differ only if a property or a later step can tell.  With rivals
\* about, of all histories only mixed can; what a player knows is forgotten
\* with his process; what was kept of a game, when it is ended, in pieces or
\* littered; and what became of a game, when no file and no process has it.
Played(g) == \E p \in Procs : Alive(p) /\ mem[p] # NoGame /\ mem[p].game = g
Stored(g) ==
  \/ lock.kind = "state" /\ lock.state.game = g
  \/ save.kind = "save" /\ save.state.game = g
Told == {g \in Procs : pc[g] # "dead" \/ Played(g) \/ Stored(g)}

Known == [g \in Procs |-> IF Undisturbed(g) /\ Played(g) THEN now[g] ELSE Nowhere]
Due == [g \in Procs |-> IF Undisturbed(g) THEN kept[g] ELSE Nowhere]

\* With rivals about, only whose the levels are matters, not what is on them.
Bare(r) == [f \in DOMAIN r \ {"things", "inv", "here", "state", "levels", "left", "cur"} |-> r[f]]
BareLevels(ls) == [l \in DOMAIN ls |-> Bare(ls[l])]
Nested(r) ==
  <<Bare(r),
    IF "state" \in DOMAIN r THEN Bare(r.state) ELSE NoFile,
    IF "levels" \in DOMAIN r THEN BareLevels(r.levels) ELSE << >>,
    IF "left" \in DOMAIN r THEN BareLevels(r.left) ELSE << >>,
    IF "cur" \in DOMAIN r THEN Bare(r.cur) ELSE NoFile>>

View == IF rivalry
          THEN <<Nested(lock), BareLevels(levels), Nested(save), readable, pc,
                 [p \in Procs |-> Nested(mem[p])], mixed \cap Told>>
          ELSE <<disk, pc, mem, Known, Due, (over \cup torn) \cap Told, littered \cap Told,
                 mixed \cap Told, accused>>

=============================================================================
