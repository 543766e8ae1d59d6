------------------------------- MODULE Match -------------------------------
(***************************************************************************)
(* A match from its first frame to its results: the runtime's tick         *)
(* (server/src/match/runtime.ts) over the loading gear, the weapons, the   *)
(* objectives, the books and the tallies; the orders that come between     *)
(* ticks; the clock that drives it (clock.ts); and what the players'       *)
(* pages are told.                                                         *)
(*                                                                         *)
(* A scene bounds what happens in a behaviour, so that one model can be    *)
(* looked at from several sides: it restricts the players and the          *)
(* geometry, never the code.                                               *)
(***************************************************************************)
EXTENDS Tubes, Results, Vision, Delivery

CONSTANTS
  Scenes,      \* the scenes of a model
  MaxRam       \* the most a collision takes off a hull

VARIABLES
  tick,        \* the last tick that completed
  beat,        \* the clock's timer: it turns over on every step
  scene,       \* what is possible in this behaviour
  used         \* how much of it has been used up

worldVars == <<gearVars, waterVars, zoneVars, resultVars, visionVars, tick>>
vars == <<worldVars, deliveryVars, beat, scene, used>>

\* The bounds: the zones mode or not, the loads boats start with, where they go, the orders given,
\* whether boats collide and runs end early, who uses its sonar, the length of the match, whose
\* socket comes and goes and how often, and how often something throws and the chart grows.
Scene ==
  [objectives : BOOLEAN, loaded : [Boat -> TubeLoad], roam : SUBSET Place,
   shots : Nat, drops : Nat, loads : Nat, switches : Nat,
   rams : BOOLEAN, early : BOOLEAN, sonar : SUBSET Team, duration : Nat \ {0},
   movers : SUBSET Player, moves : Nat, faults : Nat, chart : Nat]
\* A hit point comes in enough shares to be split between as many as may claim it in a tick: the
\* runtime splits it in fractions.
ASSUME MatchAssumption ==
  /\ Scenes \subseteq Scene /\ MaxRam \in Nat
  /\ \A s \in Scenes, b \in Boat : s.loaded[b] \in Fits[b]
  /\ \A s \in Scenes : \A n \in 1 .. MaxBurst * (s.shots + s.drops) : Share % n = 0
Spending == {"drops", "loads", "switches", "moves", "faults"}
Spend(what) == used' = [used EXCEPT ![what] = @ + 1]
MaySpend(what) == used[what] < scene[what]

Init ==
  /\ scene \in Scenes
  /\ used = [s \in Spending |-> 0]
  /\ tick = 0 /\ beat = 0
  /\ InitGear(scene.loaded) /\ InitWater /\ InitBoard(scene.objectives) /\ InitResults /\ InitVision
  /\ \E there \in SUBSET scene.movers : InitDelivery(there)

---------------------------------------------------------------------------
(* Orders, which the handler takes between ticks, before the end of the    *)
(* match and after it.                                                     *)

Shots == SumOver([b \in Boat |-> tallies[b].torpedoesFired], Boat)

fire(b, wanted) ==
  /\ Shots + Cardinality(Launching(b, wanted)) <= scene.shots
  /\ fireTubes(b, wanted)
  /\ launch(b, [i \in Launching(b, wanted) |-> tubes[b][i].weapon], tick)
  /\ tallies' = [tallies EXCEPT ![b].torpedoesFired = @ + Cardinality(Launching(b, wanted))]
  /\ UNCHANGED <<zoneVars, teams, results, rammed, visionVars, deliveryVars, tick, beat, scene, used>>

dropNoisemaker(b) ==
  /\ MaySpend("drops") /\ Spend("drops")
  /\ dropGear(b)
  /\ dropCountermeasure(b, tick)
  /\ UNCHANGED <<zoneVars, resultVars, visionVars, deliveryVars, tick, beat, scene>>

reload(b, i, w, swap) ==
  /\ MaySpend("loads") /\ Spend("loads")
  /\ load(b, i, w, swap)
  /\ UNCHANGED <<waterVars, zoneVars, resultVars, visionVars, deliveryVars, tick, beat, scene>>

switchSonar(b, on) ==
  /\ TeamOf[b] \in scene.sonar /\ MaySpend("switches") /\ Spend("switches")
  /\ setActiveSonar(b, on)
  /\ UNCHANGED <<gearVars, waterVars, zoneVars, resultVars, deliveryVars, tick, beat, scene>>

---------------------------------------------------------------------------
(* The clock.                                                              *)

\* What resolveCollisions may do: nothing, boats put back off rock, or two boats that meet, each
\* losing the same or nothing at all.
Collisions ==
  LET off   == [touched |-> FALSE, harm |-> Unharmed]
      meets(pair, n) == [touched |-> TRUE, harm |-> [c \in Boat |-> IF c \in pair THEN n ELSE 0]]
      pairs == {pair \in SUBSET Active : Cardinality(pair) = 2}
  IN {off} \cup IF scene.rams THEN {meets(pair, n) : pair \in pairs \cup {{}}, n \in 0 .. MaxRam}
                ELSE {}

\* The tick.  It throws in the solve, if at all, after the world has been put together, and then
\* nobody asks whether that was the match; it is asked again on the next tick.
Ticked(now, thrown) ==
  \E ram \in Collisions : \E fate \in Fates(now, ram.harm, scene.early) :
    /\ stepWeapons(ram.harm, fate)
    /\ stepTubes
    /\ rammed' = rammed + SumOver([b \in Boat |-> hp[b] - Settled(ram.harm)[b]], Active)
    /\ VisionTick(now, scene.sonar, thrown)
    /\ \E where \in [Boat -> scene.roam] :
         LET board == Advanced(Boat \ destroyed', where)
         IN /\ ZonesTick(Boat \ destroyed', where)
            /\ tallies' = Tallied(now, ram, fate, board, where)
            /\ teams' = IF standsToRecount(ram, fate, board) THEN standings(hp') ELSE teams
    /\ \E grown \in 0 .. Least(2, scene.chart) :
         chart' = [t \in Team |-> IF chart[t] + grown <= scene.chart THEN chart[t] + grown
                                  ELSE chart[t]]
    /\ LET verdict == Verdict(scene.objectives, Player, connected, now >= scene.duration)
       IN IF thrown \/ verdict = {} THEN results' = None
          ELSE \E d \in verdict :
                 results' = [winner |-> d.winner, reason |-> d.reason, tick |-> now]

\* One step of the clock: the tick, the frame if one is due, the results if it is over.  What
\* throws is logged, the rest of the step is skipped and the clock goes on.  A match that has
\* its results but has not been concluded only tries to conclude.
step ==
  /\ ~concluded
  /\ beat' = 1 - beat
  /\ UNCHANGED scene
  /\ IF results # None
     THEN /\ UNCHANGED <<worldVars, chart, used>>
          /\ ClockSends(FALSE, FALSE, TRUE)
     ELSE LET now == tick + 1
              solves == now % TICKS_PER_SOLVE = 0
          IN /\ tick' = now
             /\ \E fault \in {"none"} \cup (IF MaySpend("faults") THEN {"solve", "publish"} ELSE {}) :
                  /\ fault = "solve" => solves
                  /\ IF fault = "none" THEN UNCHANGED used ELSE Spend("faults")
                  /\ Ticked(now, fault = "solve")
                  /\ ClockSends(solves \/ results' # None, fault # "none", results' # None)

---------------------------------------------------------------------------
(* Players.                                                                *)

moving == MaySpend("moves") /\ Spend("moves") /\ UNCHANGED <<worldVars, beat, scene>>

playerMoves(p) ==
  /\ p \in scene.movers /\ moving
  /\ \/ \E fresh \in BOOLEAN : attach(p, fresh)
     \/ detach(p)
     \/ pressLeave(p)
     \/ pressRejoin(p)

playerActs(p) ==
  /\ departed(p) \/ rejoin(p) \/ receive(p)
  /\ UNCHANGED <<worldVars, beat, scene, used>>

Next ==
  \/ \E b \in Boat :
       \/ \E wanted \in SUBSET Tubes(b) : fire(b, wanted)
       \/ \E i \in Tubes(b), w \in Fits[b], swap \in BOOLEAN : reload(b, i, w, swap)
       \/ dropNoisemaker(b)
       \/ \E on \in BOOLEAN : switchSonar(b, on)
  \/ step
  \/ \E p \in Player : playerMoves(p) \/ playerActs(p)

\* The timer's part of a step, which is enabled exactly when the step is.
turns == ~concluded /\ beat' = 1 - beat

\* The clock is an interval timer: it goes on stepping until the match is concluded.
Spec == Init /\ [][Next]_vars /\ WF_beat(turns)

---------------------------------------------------------------------------
(* Properties.                                                             *)

MatchTypeOK ==
  /\ GearTypeOK /\ TubesInv /\ WaterTypeOK /\ ZonesTypeOK /\ ResultsTypeOK /\ VisionTypeOK /\ DeliveryTypeOK
  /\ tick \in 0 .. scene.duration + scene.faults /\ beat \in {0, 1}
  /\ \A b \in Boat : b \in destroyed <=> hp[b] = 0

\* No weapon outlives its clock, in whichever phase it is held up (torpedoExpired).
NoRunIsEndless == EveryRunEnds(tick)

\* The verdict is the one the fleets, the score and the room warrant, and it comes on the very
\* tick that warrants it: a wipe before the score, the score before the clock, and an empty room
\* before them all (decideAbandonment, decideMatch); it is read off standings that are not
\* always recounted.  A side that brought no boats is not wiped out.
JustlyDecided ==
  LET ended   == results = None /\ results' # None
      goesOn  == results' = None /\ tick' # tick /\ used'.faults = used.faults
      empty   == Player # {} /\ connected = {}
      afloat  == {t \in Team : Fleet(t) # {} => Fleet(t) \ destroyed' # {}}
      won     == {t \in Team : scene.objectives /\ scores'[t] >= ScoreTarget}
      ahead(t, u) == IF scene.objectives THEN scores'[t] > scores'[u]
                     ELSE standingFor(hp', t).survivingPoints
                            > standingFor(hp', u).survivingPoints
  IN /\ goesOn => ~empty /\ afloat = Team /\ won = {} /\ tick' < scene.duration
     /\ ended =>
          CASE empty -> results'.reason = "abandoned" /\ results'.winner = None
            [] ~empty /\ afloat # Team ->
                 /\ results'.reason = "wipe"
                 /\ IF afloat = {} THEN results'.winner = None ELSE results'.winner \in afloat
            [] OTHER ->
                 /\ results'.reason = IF won # {} THEN "score" ELSE "time"
                 /\ won # {} \/ tick' >= scene.duration
                 /\ \A t \in Team : results'.winner = t <=> \A u \in Team \ {t} : ahead(t, u)

\* Every step of a match, from its first frame on, decides it justly or rightly does not.
VerdictIsJust == [][JustlyDecided]_vars

\* A match is reported in the end, though steps of the clock throw, players come and go, and
\* orders reach a match that has been decided already.
MatchIsReported == <>concluded
=============================================================================
