------------------------------ MODULE Weapons ------------------------------
(***************************************************************************)
(* The weapons in the water and the harm they do: the life of a torpedo    *)
(* (shared/src/match/torpedo.ts), its launch (sim/weapons/launch.ts), and  *)
(* the weapons phase of a tick (sim/weapons/phase.ts) on the fleet that    *)
(* collision has settled (sim/collision/phase.ts).                         *)
(*                                                                         *)
(* Geometry is an arbitrary choice: whether a weapon is on its bearing, at *)
(* its aim point, in rock or near a hull, and what a burst does to each    *)
(* boat.  What a seeker hears only steers, and is left out with it.        *)
(***************************************************************************)
EXTENDS Fleet

CONSTANTS
  Warhead,           \* those with a warhead
  Decoy,             \* those that sound like the boat that fired them
  Noisemaker,        \* the load of the countermeasure launcher
  MaxHp,             \* boat -> hit points it is deployed with
  MaxBurst,          \* the most a burst takes off a hull
  LIFETIME, SETTLE, RING, FUZE_ARM, FUZE_SELF_SAFE   \* in ticks

ASSUME WeaponsAssumption ==
  /\ Warhead \subseteq TubeLoad /\ Decoy \subseteq TubeLoad
  /\ Noisemaker \notin TubeLoad
  /\ MaxHp \in [Boat -> Nat \ {0}] /\ MaxBurst \in Nat
  /\ {LIFETIME, RING} \subseteq Nat \ {0} /\ {SETTLE, FUZE_ARM, FUZE_SELF_SAFE} \subseteq Nat

VARIABLES
  hp,             \* boat -> hit points left
  torpedoes,      \* id -> the weapon, for those in the water
  nextEntityId

waterVars == <<hp, torpedoes, nextEntityId>>

TorpedoPhase == {"launch", "running", "enabled", "spent"}
InWater == DOMAIN torpedoes
Live(water) == {i \in DOMAIN water : water[i].phase # "spent"}
NoWeapons == [i \in {} |-> None]

---------------------------------------------------------------------------
(* Into the water.                                                         *)

newTorpedo(b, load, phase, now) ==
  [load |-> load, firedBy |-> b, firedTick |-> now, phase |-> phase,
   alignedTick |-> 0, bang |-> None]

\* A salvo: the loads of some tubes of a boat, in tube order.
launch(b, loads, now) ==
  LET id(k) == nextEntityId + Cardinality({j \in DOMAIN loads : j < k})
  IN /\ torpedoes' = [i \in InWater \cup {id(k) : k \in DOMAIN loads} |->
                        IF i \in InWater THEN torpedoes[i]
                        ELSE newTorpedo(b, loads[CHOOSE k \in DOMAIN loads : id(k) = i],
                                        "launch", now)]
     /\ nextEntityId' = nextEntityId + Cardinality(DOMAIN loads)
     /\ UNCHANGED hp

\* A noisemaker is dropped, not fired: it is enabled from the start.
dropCountermeasure(b, now) ==
  /\ torpedoes' = [i \in InWater \cup {nextEntityId} |->
                     IF i \in InWater THEN torpedoes[i]
                     ELSE newTorpedo(b, Noisemaker, "enabled", now)]
  /\ nextEntityId' = nextEntityId + 1
  /\ UNCHANGED hp

---------------------------------------------------------------------------
(* One weapon, one tick.                                                   *)

isRinging(t, now) == t.bang # None /\ now - t.bang < RING

\* Mutant: only a weapon that is past its launch has a clock.
expiredUnderway(t, now) == t.phase # "launch" /\ now - t.firedTick >= LIFETIME

\* The clock of a run starts when it is fired.
torpedoExpired(t, now) == now - t.firedTick >= LIFETIME

\* The end of a run: a warhead goes off, anything else scuttles in silence.
finish(t, now) ==
  [t EXCEPT !.phase = "spent", !.bang = IF t.load \in Warhead THEN now ELSE None]

\* The launch phase ends once the weapon has held its bearing, or is at its aim point and
\* has pointed there or has had the time to.
settle(t, now, aligned, arrived) ==
  LET since    == IF ~aligned THEN 0 ELSE IF t.alignedTick = 0 THEN now ELSE t.alignedTick
      held     == since > 0 /\ now - since >= SETTLE
      orbiting == arrived /\ now - t.firedTick >= SETTLE
  IN [t EXCEPT !.alignedTick = since,
               !.phase = IF held \/ (aligned /\ arrived) \/ orbiting THEN "running" ELSE @]

steered(t, now, aligned, arrived) ==
  LET settled == IF t.phase = "launch" THEN settle(t, now, aligned, arrived) ELSE t
  IN IF settled.phase = "running" /\ arrived THEN [settled EXCEPT !.phase = "enabled"]
     ELSE settled

\* Whether the fuze goes off with these hulls within its reach: it arms late, and later
\* still for the boat that fired it.
Fuzes(t, now, touched) ==
  /\ now - t.firedTick >= FUZE_ARM
  /\ touched \ (IF now - t.firedTick < FUZE_SELF_SAFE THEN {t.firedBy} ELSE {}) # {}

\* What a burst may do: harm to boats afloat, the ones its fuze touched among them.
Bursts(t, afloat, touched) ==
  IF t.load \notin Warhead THEN {[b \in Boat |-> 0]}
  ELSE {h \in [Boat -> 0 .. MaxBurst] :
          \A b \in Boat : /\ b \notin afloat => h[b] = 0
                          /\ b \in afloat \cap touched => h[b] > 0}

Unharmed == [b \in Boat |-> 0]
Outcome(t, harm) == [weapon |-> t, harm |-> harm]

\* The end of a run where the weapon is, with these hulls within its reach.
Ends(t, now, afloat, touched) ==
  {Outcome(finish(t, now), h) : h \in Bursts(t, afloat, touched)}

\* A weapon that has moved: its fuze goes off, it runs into rock or out of range if it can, or
\* it runs on.
AfterMoving(t, now, afloat, early) ==
  (UNION {IF Fuzes(t, now, touched) THEN Ends(t, now, afloat, touched)
          ELSE {Outcome(t, Unharmed)} : touched \in SUBSET Boat})
    \cup (IF early THEN Ends(t, now, afloat, {}) ELSE {})

\* What a tick may make of a weapon.  Its run may end early if there is rock to run into or if
\* its range is one it can run out of.
Outcomes(t, now, afloat, early) ==
  IF t.phase = "spent"
  THEN {Outcome(IF isRinging(t, now) THEN t ELSE None, Unharmed)}
  ELSE IF torpedoExpired(t, now)
  THEN Ends(t, now, afloat, {})
  ELSE UNION {AfterMoving(steered(t, now, aligned, arrived), now, afloat, early) :
              aligned \in BOOLEAN, arrived \in BOOLEAN}

---------------------------------------------------------------------------
(* The phase.                                                              *)

\* Mutant: a hull may go below nothing.
LessUnclamped(points, amount) == points - amount

\* A hull that is gone loses no more.
Less(points, amount) == IF points = 0 \/ amount >= points THEN 0 ELSE points - amount

\* Rammed hulls lose theirs first (resolveCollisions); a wreck rams nobody.
Settled(ram) == [b \in Boat |-> IF b \in destroyed THEN 0 ELSE Less(hp[b], ram[b])]
StillAfloat(points) == {b \in Boat : points[b] > 0}

\* Every burst of a tick is summed before any of it is applied.
Harm(fate) == [b \in Boat |-> SumOver([i \in InWater |-> fate[i].harm[b]], InWater)]

\* Mutant: a hull takes only the worst of the bursts that reach it.
WorstHarm(fate) ==
  [b \in Boat |-> CHOOSE n \in 0 .. MaxBurst :
     /\ \A i \in InWater : fate[i].harm[b] <= n
     /\ n = 0 \/ \E i \in InWater : fate[i].harm[b] = n]

stepWeapons(ram, fate) ==
  /\ hp' = [b \in Boat |-> Less(Settled(ram)[b], Harm(fate)[b])]
  /\ destroyed' = {b \in Boat : hp'[b] = 0}
  /\ torpedoes' = [i \in {j \in InWater : fate[j].weapon # None} |-> fate[i].weapon]
  /\ UNCHANGED nextEntityId

\* The outcomes of a tick, one for every weapon.
Fates(now, ram, early) ==
  LET may == [i \in InWater |-> Outcomes(torpedoes[i], now, StillAfloat(Settled(ram)), early)]
  IN {f \in [InWater -> UNION {may[i] : i \in InWater}] : \A i \in InWater : f[i] \in may[i]}

InitWater ==
  /\ hp = MaxHp
  /\ torpedoes = NoWeapons
  /\ nextEntityId = 1

---------------------------------------------------------------------------
(* Properties.                                                             *)

\* Every run ends: no weapon that still runs is older than its clock allows, whichever phase it
\* is in, and no corpse rings on.
EveryRunEnds(now) ==
  \A i \in InWater :
    IF torpedoes[i].phase # "spent" THEN now - torpedoes[i].firedTick < LIFETIME
    ELSE torpedoes[i].bang # None => now - torpedoes[i].bang < RING

WaterTypeOK ==
  /\ hp \in [Boat -> Nat]
  /\ \A i \in InWater :
       /\ i \in 1 .. nextEntityId - 1
       /\ torpedoes[i].load \in TubeLoad \cup {Noisemaker}
       /\ torpedoes[i].firedBy \in Boat /\ torpedoes[i].phase \in TorpedoPhase
       /\ torpedoes[i].firedTick \in Nat /\ torpedoes[i].alignedTick \in Nat
       /\ torpedoes[i].bang \in Nat \cup {None}
=============================================================================
