------------------------------ MODULE MCMatch ------------------------------
(***************************************************************************)
(* An instance of Match: two boats, one a side, the first with two tubes.  *)
(***************************************************************************)
EXTENDS Match, TLC

CONSTANTS b1, b2, t1, t2, p1, p2

OneASide == (b1 :> t1) @@ (b2 :> t2)
PlayerTeams == (p1 :> t1) @@ (p2 :> t2)
TwoTubesAndOne == (b1 :> 2) @@ (b2 :> 1)
AnyLoad == [b \in Boat |-> TubeLoad]
AllFish == [b \in Boat |-> "fish"]
FishAndDecoy == (b1 :> "fish") @@ (b2 :> "decoy")
Reloads == [b \in Boat |-> 4]
Hulls == (b1 :> 1) @@ (b2 :> 2)
Prices == (b1 :> 3) @@ (b2 :> 4)

Quiet ==
  [objectives |-> FALSE, loaded |-> FishAndDecoy, roam |-> {0}, shots |-> 0, drops |-> 0, loads |-> 0,
   switches |-> 0, rams |-> FALSE, early |-> FALSE, sonar |-> {}, duration |-> 4,
   movers |-> {}, moves |-> 0, faults |-> 0, chart |-> 0]

\* The sides the match is looked at from, each as large as the others' absence lets it be:
\* the tubes under way while orders change, a battle, a decoy under sonar, two noisemakers,
\* a race for the zones, and players who come and go while the clock throws.
Sides == {
  [Quiet EXCEPT !.shots = 1, !.loads = 2, !.duration = 3],
  [Quiet EXCEPT !.loaded = AllFish, !.shots = 2, !.rams = TRUE, !.duration = 2],
  [Quiet EXCEPT !.shots = 1, !.switches = 2, !.sonar = {t1}],
  [Quiet EXCEPT !.drops = 2, !.early = TRUE, !.sonar = Team, !.faults = 1],
  [Quiet EXCEPT !.objectives = TRUE, !.roam = Spot, !.rams = TRUE, !.duration = 7],
  [Quiet EXCEPT !.movers = Player, !.moves = 2, !.chart = 2, !.faults = 1, !.duration = 1],
  [Quiet EXCEPT !.movers = {p1}, !.moves = 3, !.chart = 4]}
=============================================================================
