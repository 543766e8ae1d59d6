------------------------------- MODULE Levels -------------------------------
(***************************************************************************)
(* How many levels a cave has and how tall they are: planLevels of         *)
(* shared/src/map/skeleton.ts, which draws the heights and fits the stack  *)
(* to the map, and the choice of the trunk in buildSkeleton.               *)
(*                                                                         *)
(* The random draws are choices, no two of them equal.  A height that was  *)
(* squeezed is a fraction: the heights of a fitted stack are times scale.  *)
(***************************************************************************)
EXTENDS Series, SequencesExt

CONSTANTS
  Tunings,      \* the maps and tunings that may be asked for, a set of Tuning
  Heights       \* bound: the heights a level may be drawn with

\* Widening is what variation and roughness add to a height, in tenths.
Tuning == [mapHeight : Nat, floor : Nat, ceiling : Nat, trunk : Nat, wall : Nat, margin : Nat,
           widening : Nat, routeCount : Nat \ {0}, short : Nat, tall : Nat]

ASSUME LevelsAssumption ==
  /\ Tunings \subseteq Tuning /\ Heights \subseteq Nat
  /\ \A t \in Tunings : t.floor <= t.tall

VARIABLES
  tuning,     \* what was asked for
  levels,     \* the heights drawn so far, then those that are kept
  drawn,      \* the heights as they were drawn
  plan        \* the fitted stack: the heights times scale, from the bottom; or that there is none

levelVars == <<tuning, levels, drawn, plan>>

Unfitted == [fitted |-> FALSE]
Refused == [fitted |-> FALSE, refused |-> TRUE]

Biggest(s) == CHOOSE h \in ToSet(s) : \A k \in ToSet(s) : k <= h
Smallest(s) == CHOOSE h \in ToSet(s) : \A k \in ToSet(s) : h <= k

\* Ten times the height a level takes once everything that widens it is counted.
reservedHeight(h) == h * (10 + tuning.widening) + 20 * tuning.margin

InitLevels ==
  /\ tuning \in Tunings
  /\ levels = <<>> /\ drawn = <<>> /\ plan = Unfitted

---------------------------------------------------------------------------

\* A trunk that has no room is refused before anything is drawn.
unsatisfiable == reservedHeight(tuning.trunk) + 20 * tuning.wall > 10 * tuning.mapHeight

\* The first is short, the second tall and wide enough for the trunk, the others are what they are.
Drawable(n) ==
  CASE n = 1 -> {h \in Heights : tuning.floor <= h /\ h <= tuning.short}
    [] n = 2 -> {h \in Heights : tuning.trunk <= h /\ tuning.tall <= h /\ h <= tuning.ceiling}
    [] OTHER -> {h \in Heights : tuning.floor <= h /\ h <= tuning.ceiling}

draw ==
  /\ plan = Unfitted /\ ~unsatisfiable
  /\ Len(drawn) < tuning.routeCount
  /\ \E h \in Drawable(Len(drawn) + 1) \ ToSet(drawn) : levels' = Append(levels, h) /\ drawn' = levels'
  /\ UNCHANGED <<tuning, plan>>

unplannable ==
  /\ plan = Unfitted /\ unsatisfiable
  /\ plan' = Refused
  /\ UNCHANGED <<tuning, levels, drawn>>

---------------------------------------------------------------------------
(* Fitting.                                                                *)

\* Mutant: the first level of all is the short one, the last the tall one.
ordinaryByPlace(s) == 2 .. Len(s) - 1

\* All but the first of the shortest and the last of the tallest.
ordinary(s) ==
  LET shortest == CHOOSE i \in DOMAIN s : s[i] = Smallest(s) /\ \A j \in 1 .. i - 1 : s[j] # s[i]
      tallest == CHOOSE i \in DOMAIN s : s[i] = Biggest(s) /\ \A j \in i + 1 .. Len(s) : s[j] # s[i]
  IN DOMAIN s \ {shortest, tallest}

Floored(s) == [i \in DOMAIN s |-> reservedHeight(IF i \in ordinary(s) THEN tuning.floor ELSE s[i])]

\* Mutant: a wall for every level, and none on top.
FixedOneWallShort(s) == 10 * Len(s) * tuning.wall + SumOver(Floored(s), DOMAIN s)

\* The stack with its ordinary levels on the floor, and what they would have on top of it.
Fixed(s) == 10 * (Len(s) + 1) * tuning.wall + SumOver(Floored(s), DOMAIN s)
Slope(s) ==
  SumOver([i \in ordinary(s) |-> reservedHeight(s[i]) - reservedHeight(tuning.floor)], ordinary(s))

Fits(s) == Fixed(s) <= 10 * tuning.mapHeight

\* What is left after the floor and the two extremes, as a share of what the others ask for.
Room(s) ==
  LET left == 10 * tuning.mapHeight - Fixed(s)
  IN IF Slope(s) = 0 \/ left >= Slope(s) THEN [num |-> 1, den |-> 1] ELSE [num |-> left, den |-> Slope(s)]

squeezeToFit(s) ==
  [fitted |-> TRUE, scale |-> Room(s).den,
   heights |-> [i \in DOMAIN s |-> IF i \in ordinary(s)
                  THEN tuning.floor * Room(s).den + (s[i] - tuning.floor) * Room(s).num
                  ELSE s[i] * Room(s).den]]

\* Mutant: the tall ones go first.
leastByHeight(s) == CHOOSE i \in DOMAIN s : s[i] = Biggest(s)

\* The level nearest the middle of the spread; of more than two, neither a shortest nor a tallest.
leastCharacterful(s) ==
  LET off(h) == LET d == 2 * h - Smallest(s) - Biggest(s) IN IF d < 0 THEN -d ELSE d
      may == {i \in DOMAIN s : Len(s) <= 2 \/ s[i] \notin {Smallest(s), Biggest(s)}}
  IN IF may = {} THEN Len(s)
     ELSE CHOOSE i \in may : \A j \in may : off(s[i]) < off(s[j]) \/ (off(s[i]) = off(s[j]) /\ i <= j)

\* A stack that fits is the plan; of one that does not, a level is dropped; the last is cut down.
fit ==
  /\ plan = Unfitted /\ ~unsatisfiable
  /\ Len(drawn) = tuning.routeCount
  /\ CASE Fits(levels) -> plan' = squeezeToFit(levels) /\ UNCHANGED levels
       [] ~Fits(levels) /\ Len(levels) > 1 ->
            levels' = RemoveAt(levels, leastCharacterful(levels)) /\ UNCHANGED plan
       [] OTHER ->
            /\ UNCHANGED levels
            /\ plan' = [fitted |-> TRUE, scale |-> 10 + tuning.widening,
                        heights |-> <<10 * (tuning.mapHeight - 2 * tuning.wall) - 20 * tuning.margin>>]
  /\ UNCHANGED <<tuning, drawn>>

NextLevels == draw \/ unplannable \/ fit
SpecLevels == InitLevels /\ [][NextLevels]_levelVars

---------------------------------------------------------------------------
(* Properties.                                                             *)

\* What a stack of drawn heights would have to give up nothing for.
ExtremesFit == drawn # <<>> /\ Fits(<<Smallest(drawn), Biggest(drawn)>>)

\* What the levels of the plan take, counted as reservedHeight does.
Claimed ==
  [i \in DOMAIN plan.heights |-> plan.heights[i] * (10 + tuning.widening) + 20 * plan.scale * tuning.margin]

\* A planned stack fits the map with its walls, and no level of it is below the floor, unless it is
\* the only one that is left: that one is cut to what there is, and no lower than the trunk.
StackFits ==
  plan.fitted =>
    /\ 10 * plan.scale * tuning.wall * (Len(plan.heights) + 1) + SumOver(Claimed, DOMAIN plan.heights)
         <= 10 * plan.scale * tuning.mapHeight
    /\ \A h \in ToSet(plan.heights) :
         \/ h >= plan.scale * tuning.floor
         \/ Len(plan.heights) = 1 /\ h >= plan.scale * tuning.trunk

\* The spread survives: where the shortest and the tallest drawn fit together, both are planned at
\* the heights they were drawn with, whatever else was squeezed or dropped.
SpreadSurvives ==
  (plan.fitted /\ ExtremesFit) =>
    {plan.scale * Smallest(drawn), plan.scale * Biggest(drawn)} \subseteq ToSet(plan.heights)

\* The trunk: the tallest level is as wide as the trunk must be, with two levels or more and the
\* extremes fitting (buildSkeleton: "guaranteed to clear the trunk floor").
TrunkSurvives ==
  (plan.fitted /\ ExtremesFit /\ tuning.routeCount >= 2) =>
    Biggest(plan.heights) >= plan.scale * tuning.trunk

\* A plan keeps all that it was drawn for and still fits.
PlanIsSound == StackFits /\ SpreadSurvives /\ TrunkSurvives
=============================================================================
