---------------------------- MODULE MC_LitObjects ---------------------------
(* LitObjects for TLC: short lives, one magic time for each kind. *)
EXTENDS LitObjects, TLC

CONSTANTS D1, D2

MCObjs == {"candle1", "candle2", "lamp", "oil1", "oil2", "menorah"}
MCKind == [o \in MCObjs |-> CASE o \in {"candle1", "candle2"} -> "candle"
                            [] o \in {"oil1", "oil2"} -> "oil"
                            [] OTHER -> o]
MCLevels == {D1, D2}
MCMarks == [k \in {"lamp", "candle", "oil", "menorah"} |->
              IF k = "oil" THEN {} ELSE {2}]

Thing(where, n, age) ==
  [where |-> where, n |-> n, age |-> age, lamplit |-> FALSE, timed |-> 0]

\* Two candles, with or without a candelabrum to fix one of them on; two
\* potions of oil; a lamp and a potion to fill it from
Nothing == [o \in MCObjs |-> NoObject]
MCStock ==
  {[Nothing EXCEPT !["candle1"] = Thing("hero", 2, 3)],
   [Nothing EXCEPT !["candle1"] = Thing("hero", 2, 2),
                   !["menorah"] = Thing("hero", 0, 0)],
   [Nothing EXCEPT !["oil1"] = Thing("hero", 2, 2)],
   [Nothing EXCEPT !["lamp"] = Thing("hero", 1, 1), !["oil1"] = Thing("hero", 1, 1)]}

\* The two levels are alike.
LevelSymmetry == Permutations(MCLevels)

=============================================================================
