---------------------------- MODULE ResultsProofs ----------------------------
(* How a match is scored and decided, for every fleet, every supply of      *)
(* weapons, every board and every failure the clock may have: the sums the  *)
(* tallies and the standings are, what is in the water and what it does to  *)
(* the hulls, the books of the match, its verdict, the types of the whole,  *)
(* and that the damage credited is what landed.                             *)
EXTENDS MatchProofs, SeriesProofs
---------------------------------------------------------------------------
(* What is in the water and what it does to the hulls.                     *)

\* A weapon of somebody's, in one of its phases.
WellMade(t) ==
  /\ t.load \in TubeLoad \cup {Noisemaker} /\ t.firedBy \in Boat
  /\ t.phase \in TorpedoPhase /\ t.alignedTick \in Nat

Harms == [Boat -> Nat]

\* The outcomes of a weapon, by what happens to it: it rings or is gone; it has moved; or its run
\* ends, with a burst.
LEMMA OutcomesAre ==
  ASSUME NEW now, NEW t, NEW afloat, NEW early, NEW o \in Outcomes(t, now, afloat, early)
  PROVE  \/ o.weapon \in {t, None} /\ o.harm = Unharmed
         \/ \E aligned \in BOOLEAN, arrived \in BOOLEAN :
              LET u == steered(t, now, aligned, arrived)
              IN \/ o = Outcome(u, Unharmed)
                 \/ \E touched \in SUBSET Boat : o \in Ends(u, now, afloat, touched)
         \/ o \in Ends(t, now, afloat, {})
<1>1. \A m, h : Outcome(m, h).weapon = m /\ Outcome(m, h).harm = h
  BY DEF Outcome
<1>2. ASSUME NEW m, o \in AfterMoving(m, now, afloat, early)
      PROVE  \/ o = Outcome(m, Unharmed)
             \/ \E touched \in SUBSET Boat : o \in Ends(m, now, afloat, touched)
  <2>1. \/ \E touched \in SUBSET Boat :
             o \in IF Fuzes(m, now, touched) THEN Ends(m, now, afloat, touched)
                   ELSE {Outcome(m, Unharmed)}
        \/ o \in IF early THEN Ends(m, now, afloat, {}) ELSE {}
    BY <1>2 DEF AfterMoving
  <2>2. {} \in SUBSET Boat
    OBVIOUS
  <2> QED  BY <2>1, <2>2
<1>3. CASE t.phase = "spent"
  BY <1>1, <1>3 DEF Outcomes
<1>4. CASE t.phase # "spent" /\ torpedoExpired(t, now)
  BY <1>4 DEF Outcomes
<1>5. CASE t.phase # "spent" /\ ~torpedoExpired(t, now)
  <2>1. PICK aligned \in BOOLEAN, arrived \in BOOLEAN :
          o \in AfterMoving(steered(t, now, aligned, arrived), now, afloat, early)
    BY <1>5 DEF Outcomes
  <2> DEFINE u == steered(t, now, aligned, arrived)
  <2>2. \/ o = Outcome(u, Unharmed)
        \/ \E touched \in SUBSET Boat : o \in Ends(u, now, afloat, touched)
    BY <1>2, <2>1
  <2> QED  BY <2>2
<1> QED  BY <1>3, <1>4, <1>5

\* What a weapon does to the hulls in a tick is so many hit points each, none for most (Bursts).
LEMMA OutcomesHarm ==
  ASSUME NEW now, NEW t, NEW afloat, NEW early, NEW o \in Outcomes(t, now, afloat, early)
  PROVE  o.harm \in Harms
<1>1. Unharmed \in Harms
  BY DEF Unharmed, Harms
<1>2. \A u, touched : \A e \in Ends(u, now, afloat, touched) : e.harm \in Harms
  <2>1. ASSUME NEW u, NEW touched, NEW h \in Bursts(u, afloat, touched)
        PROVE  h \in Harms
    <3>1. MaxBurst \in Nat
      BY WeaponsAssumption
    <3>2. 0 .. MaxBurst \subseteq Nat
      BY <3>1
    <3>3. h \in [Boat -> 0 .. MaxBurst] \/ h = [b \in Boat |-> 0]
      BY DEF Bursts
    <3> QED  BY <3>2, <3>3 DEF Harms
  <2> QED  BY <2>1 DEF Ends, Outcome
<1>3. \A m, h : Outcome(m, h).harm = h
  BY DEF Outcome
<1>4. CASE o.harm = Unharmed
  BY <1>1, <1>4
<1>5. ASSUME NEW u, NEW touched, o \in Ends(u, now, afloat, touched)
      PROVE  o.harm \in Harms
  BY <1>2, <1>5
<1> QED  BY <1>1, <1>3, <1>4, <1>5, OutcomesAre

\* What is left of a weapon is as well made as it was (settle, finish).
LEMMA OutcomesAreWellMade ==
  ASSUME NEW now \in Nat, NEW t, IsWeapon(t), WellMade(t), NEW afloat, NEW early,
         NEW o \in Outcomes(t, now, afloat, early), o.weapon # None
  PROVE  WellMade(o.weapon)
<1> DEFINE Sound(m) == IsWeapon(m) /\ m.phase \in TorpedoPhase /\ m.alignedTick \in Nat
<1>1. ASSUME NEW m, Sound(m)
      PROVE  Sound(finish(m, now))
  <2> DEFINE bang == IF m.load \in Warhead THEN now ELSE None
  <2>1. finish(m, now) = [m EXCEPT !.phase = "spent", !.bang = bang]
    BY DEF finish
  <2> HIDE DEF bang
  <2>2. finish(m, now)
          = [x \in DOMAIN m |-> IF x = "bang" THEN bang ELSE IF x = "phase" THEN "spent" ELSE m[x]]
    BY <2>1
  <2>3. DOMAIN m = {"load", "firedBy", "firedTick", "phase", "alignedTick", "bang"}
    BY <1>1 DEF IsWeapon
  <2> QED  BY <1>1, <2>2, <2>3 DEF IsWeapon, TorpedoPhase
<1>2. ASSUME NEW aligned \in BOOLEAN, NEW arrived \in BOOLEAN
      PROVE  Sound(steered(t, now, aligned, arrived))
  <2> DEFINE s == settle(t, now, aligned, arrived)
  <2>1. Sound(s)
    <3>1. PICK stamp \in Nat, phase \in TorpedoPhase :
            s = [t EXCEPT !.alignedTick = stamp, !.phase = phase]
      <4> DEFINE st == IF ~aligned THEN 0 ELSE IF t.alignedTick = 0 THEN now ELSE t.alignedTick
                 held == st > 0 /\ now - st >= SETTLE
                 orbiting == arrived /\ now - t.firedTick >= SETTLE
                 ph == IF held \/ (aligned /\ arrived) \/ orbiting THEN "running" ELSE t.phase
      <4>1. st \in Nat
        BY DEF WellMade
      <4>2. ph \in TorpedoPhase
        <5> HIDE DEF held, orbiting
        <5> QED  BY DEF WellMade, TorpedoPhase
      <4>3. s = [t EXCEPT !.alignedTick = st, !.phase = ph]
        BY DEF settle
      <4> HIDE DEF st, ph, s
      <4> QED  BY <4>1, <4>2, <4>3
    <3>2. s = [x \in DOMAIN t |-> IF x = "phase" THEN phase
                                 ELSE IF x = "alignedTick" THEN stamp ELSE t[x]]
      BY <3>1
    <3>3. DOMAIN t = {"load", "firedBy", "firedTick", "phase", "alignedTick", "bang"}
      BY DEF IsWeapon
    <3> HIDE DEF s
    <3> QED  BY <3>2, <3>3 DEF IsWeapon
  <2>2. Sound(t)
    BY DEF WellMade
  <2>3. \A m : Sound(m) => Sound([m EXCEPT !.phase = "enabled"])
    BY DEF IsWeapon, TorpedoPhase
  <2> HIDE DEF Sound
  <2> QED  BY <2>1, <2>2, <2>3 DEF steered
<1>3. Sound(t)
  BY DEF WellMade
<1>4. \A m, h : Outcome(m, h).weapon = m
  BY DEF Outcome
<1>5. \A m, touched : \A e \in Ends(m, now, afloat, touched) : e.weapon = finish(m, now)
  BY <1>4 DEF Ends
<1> HIDE DEF Sound
<1>6. Sound(o.weapon)
  BY <1>1, <1>2, <1>3, <1>4, <1>5, OutcomesAre
<1>7. o.weapon.load = t.load /\ o.weapon.firedBy = t.firedBy
  BY WeaponsStayTheirs
<1> QED  BY <1>6, <1>7 DEF WellMade, Sound

\* A tick, by what is chosen in it: the collisions, the outcome of every weapon, and where the
\* boats are.
TheTick(now, thrown, ram, fate, where) ==
  /\ ram \in Collisions /\ fate \in Fates(now, ram.harm, scene.early)
  /\ where \in [Boat -> scene.roam]
  /\ stepWeapons(ram.harm, fate) /\ stepTubes
  /\ rammed' = rammed + SumOver([b \in Boat |-> hp[b] - Settled(ram.harm)[b]], Active)
  /\ VisionTick(now, scene.sonar, thrown)
  /\ ZonesTick(Boat \ destroyed', where)
  /\ tallies' = Tallied(now, ram, fate, Advanced(Boat \ destroyed', where), where)
  /\ teams' = IF standsToRecount(ram, fate, Advanced(Boat \ destroyed', where))
              THEN standings(hp') ELSE teams
  /\ LET verdict == Verdict(scene.objectives, Player, connected, now >= scene.duration)
     IN IF thrown \/ verdict = {} THEN results' = None
        ELSE \E d \in verdict :
               results' = [winner |-> d.winner, reason |-> d.reason, tick |-> now]

LEMMA TickIs ==
  ASSUME NEW now, NEW thrown, Ticked(now, thrown)
  PROVE  \E ram \in Collisions : \E fate \in Fates(now, ram.harm, scene.early) :
           \E where \in [Boat -> scene.roam] : TheTick(now, thrown, ram, fate, where)
<1>1. PICK ram \in Collisions : \E fate \in Fates(now, ram.harm, scene.early) :
        /\ stepWeapons(ram.harm, fate) /\ stepTubes
        /\ rammed' = rammed + SumOver([b \in Boat |-> hp[b] - Settled(ram.harm)[b]], Active)
        /\ VisionTick(now, scene.sonar, thrown)
        /\ \E where \in [Boat -> scene.roam] :
             /\ ZonesTick(Boat \ destroyed', where)
             /\ tallies' = Tallied(now, ram, fate, Advanced(Boat \ destroyed', where), where)
             /\ teams' = IF standsToRecount(ram, fate, Advanced(Boat \ destroyed', where))
                         THEN standings(hp') ELSE teams
        /\ LET verdict == Verdict(scene.objectives, Player, connected, now >= scene.duration)
           IN IF thrown \/ verdict = {} THEN results' = None
              ELSE \E d \in verdict :
                     results' = [winner |-> d.winner, reason |-> d.reason, tick |-> now]
  BY Zenon DEF Ticked
<1>2. PICK fate \in Fates(now, ram.harm, scene.early) :
        /\ stepWeapons(ram.harm, fate) /\ stepTubes
        /\ rammed' = rammed + SumOver([b \in Boat |-> hp[b] - Settled(ram.harm)[b]], Active)
        /\ VisionTick(now, scene.sonar, thrown)
        /\ \E where \in [Boat -> scene.roam] :
             /\ ZonesTick(Boat \ destroyed', where)
             /\ tallies' = Tallied(now, ram, fate, Advanced(Boat \ destroyed', where), where)
             /\ teams' = IF standsToRecount(ram, fate, Advanced(Boat \ destroyed', where))
                         THEN standings(hp') ELSE teams
        /\ LET verdict == Verdict(scene.objectives, Player, connected, now >= scene.duration)
           IN IF thrown \/ verdict = {} THEN results' = None
              ELSE \E d \in verdict :
                     results' = [winner |-> d.winner, reason |-> d.reason, tick |-> now]
  BY <1>1, Zenon
<1>3. PICK where \in [Boat -> scene.roam] :
        /\ ZonesTick(Boat \ destroyed', where)
        /\ tallies' = Tallied(now, ram, fate, Advanced(Boat \ destroyed', where), where)
        /\ teams' = IF standsToRecount(ram, fate, Advanced(Boat \ destroyed', where))
                    THEN standings(hp') ELSE teams
  BY <1>2, Zenon
<1> QED  BY <1>1, <1>2, <1>3, Zenon DEF TheTick

\* Numbers of what is new are the next ones; there are finitely many in the water.
WaterInv ==
  /\ nextEntityId \in Nat /\ nextEntityId > 0
  /\ \A i \in InWater : i \in 1 .. nextEntityId - 1 /\ WellMade(torpedoes[i])

\* A wreck is a boat with no hit points left, and there are no others.
HullInv == hp \in [Boat -> Nat] /\ destroyed = {b \in Boat : hp[b] = 0}

LEMMA FewInTheWater ==
  ASSUME WaterInv
  PROVE  IsFiniteSet(InWater) /\ InWater \subseteq Nat
<1>1. IsFiniteSet(1 .. nextEntityId - 1) /\ InWater \subseteq 1 .. nextEntityId - 1
  BY FS_Interval DEF WaterInv
<1>2. 1 .. nextEntityId - 1 \subseteq Nat
  BY DEF WaterInv
<1> HIDE DEF InWater
<1> QED  BY <1>1, <1>2, FS_Subset

\* A salvo takes the next numbers in a row, and each weapon of it is of its boat (launch).
LEMMA SalvoIsWellMade ==
  ASSUME GearInv, WaterInv, NEW b \in Boat, NEW wanted \in SUBSET Tubes(b),
         launch(b, [i \in Launching(b, wanted) |-> tubes[b][i].weapon], tick)
  PROVE  WaterInv'
<1> DEFINE loads == [i \in Launching(b, wanted) |-> tubes[b][i].weapon]
           D == DOMAIN loads
           Below(k) == Cardinality({j \in D : j < k})
           id(k) == nextEntityId + Below(k)
<1>1. IsFiniteSet(D) /\ D \subseteq Int /\ \A k \in D : loads[k] \in TubeLoad
  <2>1. IsFiniteSet(Tubes(b)) /\ Tubes(b) \subseteq Int
    BY GearAssumption, FS_Interval DEF Tubes
  <2>2. D \subseteq Tubes(b)
    BY DEF Launching
  <2>3. \A k \in Tubes(b) : tubes[b][k].weapon \in TubeLoad
    BY DEF GearInv, GearTypeOK, TubeState
  <2>4. IsFiniteSet(D)
    BY <2>1, <2>2, FS_Subset
  <2> QED  BY <2>1, <2>2, <2>3, <2>4
<1>2. /\ InWater' = InWater \cup {id(k) : k \in D}
      /\ \A i \in InWater' :
           torpedoes'[i] = IF i \in InWater THEN torpedoes[i]
                           ELSE newTorpedo(b, loads[CHOOSE k \in D : id(k) = i], "launch", tick)
      /\ nextEntityId' = nextEntityId + Cardinality(D)
  BY DEF launch, InWater
<1> HIDE DEF loads, D
<1>3. ASSUME NEW k \in D
      PROVE  Below(k) \in Nat /\ Below(k) < Cardinality(D) /\ Cardinality(D) \in Nat
  <2> DEFINE S == {j \in D : j < k}
  <2>1. S \in SUBSET D /\ S # D
    BY <1>1, <1>3
  <2> HIDE DEF S
  <2>2. /\ Cardinality(S) \in Nat /\ Cardinality(D) \in Nat
        /\ Cardinality(S) <= Cardinality(D) /\ Cardinality(S) # Cardinality(D)
    BY <1>1, <2>1, FS_Subset, FS_CardinalityType
  <2> QED  BY <2>2 DEF S
<1>4. Cardinality(D) \in Nat
  BY <1>1, FS_CardinalityType
<1> HIDE DEF Below
<1>5. ASSUME NEW i \in InWater'
      PROVE  i \in 1 .. nextEntityId' - 1 /\ WellMade(torpedoes'[i])
  <2>1. CASE i \in InWater
    <3>1. i \in 1 .. nextEntityId - 1 /\ WellMade(torpedoes[i]) /\ nextEntityId \in Nat
      BY <2>1 DEF WaterInv
    <3>2. torpedoes'[i] = torpedoes[i]
      BY <1>2, <1>5, <2>1
    <3> QED  BY <1>2, <1>4, <3>1, <3>2
  <2>2. CASE i \notin InWater
    <3> DEFINE k == CHOOSE k \in D : id(k) = i
    <3>1. k \in D /\ id(k) = i
      BY <1>2, <1>5, <2>2
    <3>2. torpedoes'[i] = newTorpedo(b, loads[k], "launch", tick)
      BY <1>2, <1>5, <2>2
    <3> HIDE DEF k
    <3>3. i \in 1 .. nextEntityId' - 1
      BY <1>2, <1>3, <1>4, <3>1 DEF WaterInv
    <3>4. loads[k] \in TubeLoad
      BY <1>1, <3>1
    <3> QED  BY <3>2, <3>3, <3>4 DEF WellMade, newTorpedo, TorpedoPhase
  <2> QED  BY <2>1, <2>2
<1>6. nextEntityId' \in Nat /\ nextEntityId' > 0
  BY <1>2, <1>4 DEF WaterInv
<1> QED  BY <1>5, <1>6 DEF WaterInv

\* A noisemaker too (dropCountermeasure).
LEMMA NoisemakerIsWellMade ==
  ASSUME WaterInv, NEW b \in Boat, dropCountermeasure(b, tick)
  PROVE  WaterInv'
<1>1. /\ InWater' = InWater \cup {nextEntityId}
      /\ \A i \in InWater' : torpedoes'[i] = IF i \in InWater THEN torpedoes[i]
                                             ELSE newTorpedo(b, Noisemaker, "enabled", tick)
      /\ nextEntityId' = nextEntityId + 1
  BY DEF dropCountermeasure, InWater
<1>2. WellMade(newTorpedo(b, Noisemaker, "enabled", tick))
  BY DEF WellMade, newTorpedo, TorpedoPhase
<1> QED  BY <1>1, <1>2 DEF WaterInv

\* What collisions take off the hulls (resolveCollisions).
LEMMA CollisionsHarm ==
  ASSUME NEW ram \in Collisions
  PROVE  ram.harm \in Harms /\ (~ram.touched => ram.harm = Unharmed)
<1> DEFINE off   == [touched |-> FALSE, harm |-> Unharmed]
           meets(pair, n) == [touched |-> TRUE, harm |-> [c \in Boat |-> IF c \in pair THEN n ELSE 0]]
<1>1. \/ ram = off
      \/ \E pair, n : n \in 0 .. MaxRam /\ ram = meets(pair, n)
  BY DEF Collisions
<1>2. off.harm \in Harms /\ off.harm = Unharmed
  BY DEF Unharmed, Harms
<1>3. ASSUME NEW pair, NEW n \in 0 .. MaxRam
      PROVE  meets(pair, n).harm \in Harms /\ meets(pair, n).touched
  <2>1. n \in Nat
    BY MatchAssumption
  <2> QED  BY <2>1 DEF Harms
<1> HIDE DEF off, meets
<1> QED  BY <1>1, <1>2, <1>3

\* A hull loses no more than it has (Less).
LEMMA LessIsNoMore ==
  ASSUME NEW points \in Nat, NEW amount \in Nat
  PROVE  /\ Less(points, amount) \in Nat /\ Less(points, amount) <= points
         /\ amount = 0 => Less(points, amount) = points
BY DEF Less

\* The hulls through a tick: what collisions leave of them, what the bursts come to, and what
\* is left after that.
LEMMA Hulls ==
  ASSUME WaterInv, HullInv, NEW thrown, NEW ram, NEW fate, NEW where,
         TheTick(tick + 1, thrown, ram, fate, where)
  PROVE  /\ ram.harm \in Harms /\ (~ram.touched => ram.harm = Unharmed)
         /\ \A i \in InWater : fate[i].harm \in Harms
         /\ Settled(ram.harm) \in Harms
         /\ \A b \in Boat : Settled(ram.harm)[b] <= hp[b]
         /\ Harm(fate) \in Harms
         /\ hp' \in Harms
         /\ \A b \in Boat : /\ hp'[b] = Less(Settled(ram.harm)[b], Harm(fate)[b])
                            /\ hp'[b] <= Settled(ram.harm)[b]
         /\ HullInv' /\ destroyed \subseteq destroyed'
<1>1. ram.harm \in Harms /\ (~ram.touched => ram.harm = Unharmed)
  BY CollisionsHarm DEF TheTick
<1>2. \A i \in InWater : fate[i].harm \in Harms
  <2>1. \A i \in InWater : fate[i] \in Outcomes(torpedoes[i], tick + 1,
                                               StillAfloat(Settled(ram.harm)), scene.early)
    BY DEF TheTick, Fates
  <2> QED  BY <2>1, OutcomesHarm
<1>3. hp \in [Boat -> Nat]
  BY DEF HullInv
<1>4. \A b \in Boat : Settled(ram.harm)[b] \in Nat /\ Settled(ram.harm)[b] <= hp[b]
  <2> SUFFICES ASSUME NEW b \in Boat
               PROVE  Settled(ram.harm)[b] \in Nat /\ Settled(ram.harm)[b] <= hp[b]
    OBVIOUS
  <2>1. hp[b] \in Nat /\ ram.harm[b] \in Nat
    BY <1>1, <1>3 DEF Harms
  <2>2. Settled(ram.harm)[b] = IF b \in destroyed THEN 0 ELSE Less(hp[b], ram.harm[b])
    BY DEF Settled
  <2>3. Less(hp[b], ram.harm[b]) \in Nat /\ Less(hp[b], ram.harm[b]) <= hp[b]
    BY <2>1, LessIsNoMore
  <2> QED  BY <2>1, <2>2, <2>3
<1>5. Settled(ram.harm) \in Harms
  <2>1. Settled(ram.harm) = [b \in Boat |-> Settled(ram.harm)[b]]
    BY DEF Settled
  <2> QED  BY <1>4, <2>1 DEF Harms
<1>6. \A b \in Boat : Harm(fate)[b] \in Nat
  <2> SUFFICES ASSUME NEW b \in Boat
               PROVE  Harm(fate)[b] \in Nat
    OBVIOUS
  <2> DEFINE h == [i \in InWater |-> fate[i].harm[b]]
  <2>1. Harm(fate)[b] = SumOver(h, InWater)
    BY DEF Harm
  <2>2. \A i \in InWater : h[i] \in Nat
    BY <1>2 DEF Harms
  <2> HIDE DEF h
  <2> QED  BY <2>1, <2>2, FewInTheWater, SumNat
<1>7. Harm(fate) \in Harms
  <2>1. Harm(fate) = [b \in Boat |-> Harm(fate)[b]]
    BY DEF Harm
  <2> HIDE DEF Harm
  <2> QED  BY <1>6, <2>1 DEF Harms
<1>8. /\ hp' = [b \in Boat |-> Less(Settled(ram.harm)[b], Harm(fate)[b])]
      /\ destroyed' = {b \in Boat : hp'[b] = 0}
  BY DEF TheTick, stepWeapons
<1>9. \A b \in Boat : /\ hp'[b] = Less(Settled(ram.harm)[b], Harm(fate)[b])
                      /\ hp'[b] \in Nat /\ hp'[b] <= Settled(ram.harm)[b]
  BY <1>4, <1>6, <1>8, LessIsNoMore
<1>10. hp' = [b \in Boat |-> hp'[b]]
  BY <1>8
<1>11. hp' \in Harms
  BY <1>9, <1>10 DEF Harms
<1>12. HullInv'
  BY <1>8, <1>11 DEF HullInv, Harms
<1>13. destroyed \subseteq destroyed'
  <2> SUFFICES ASSUME NEW b \in destroyed
               PROVE  b \in destroyed'
    OBVIOUS
  <2>1. b \in Boat /\ hp[b] = 0
    BY DEF HullInv
  <2>2. hp'[b] = 0
    BY <1>4, <1>9, <2>1
  <2> QED  BY <1>8, <2>1, <2>2
<1> QED  BY <1>1, <1>2, <1>4, <1>5, <1>7, <1>9, <1>11, <1>12, <1>13

\* A tick takes weapons away and leaves the others as well made as they were.
LEMMA WaterAfterATick ==
  ASSUME RunsInv, WaterInv, NEW thrown, NEW ram, NEW fate, NEW where,
         TheTick(tick + 1, thrown, ram, fate, where)
  PROVE  WaterInv' /\ nextEntityId' = nextEntityId /\ InWater' \subseteq InWater
<1>1. \A i \in InWater : fate[i] \in Outcomes(torpedoes[i], tick + 1,
                                             StillAfloat(Settled(ram.harm)), scene.early)
  BY DEF TheTick, Fates
<1>2. /\ InWater' = {j \in InWater : fate[j].weapon # None}
      /\ \A i \in InWater' : torpedoes'[i] = fate[i].weapon
      /\ nextEntityId' = nextEntityId
  BY DEF TheTick, stepWeapons, InWater
<1>3. tick + 1 \in Nat /\ \A i \in InWater : IsWeapon(torpedoes[i]) /\ WellMade(torpedoes[i])
  BY DEF RunsInv, OnTheClock, WaterInv
<1>4. \A i \in InWater' : WellMade(torpedoes'[i])
  BY <1>1, <1>2, <1>3, OutcomesAreWellMade
<1> QED  BY <1>2, <1>4 DEF WaterInv

\* The world, as far as its types go.
WorldInv ==
  /\ scene \in Scenes /\ GearInv /\ RunsInv /\ WaterInv /\ HullInv /\ ZonesInv

\* A step of a match, with what is chosen in it: an order, the tick, or nothing to the world.
LEMMA WorldInvKept ==
  ASSUME WorldInv, [Next]_vars
  PROVE  WorldInv'
<1>1. scene' \in Scenes
  <2>1. Next => scene' = scene
    BY DEF Next, fire, reload, dropNoisemaker, switchSonar, step, playerMoves, playerActs, moving
  <2>2. UNCHANGED vars => scene' = scene
    BY DEF vars
  <2> QED  BY <2>1, <2>2 DEF WorldInv
<1>2. GearInv'
  <2>1. UNCHANGED vars => UNCHANGED gearVars
    BY DEF vars, worldVars
  <2> QED  BY <2>1, StepsOfTheGear, GearInvKept DEF WorldInv
<1>3. RunsInv'
  BY RunsInvKept DEF WorldInv
<1>4. ZonesInv'
  <2>1. UNCHANGED vars => UNCHANGED zoneVars
    BY DEF vars, worldVars
  <2>2. UNCHANGED zoneVars => ZonesInv'
    BY DEF WorldInv, zoneVars, ZonesInv, ZonesTypeOK, ProgressIsEarned, ArmingIsNobodys
  <2>3. Next => NextZones \/ UNCHANGED zoneVars
    BY StepsOfTheBoard DEF WorldInv
  <2>4. NextZones => ZonesInv'
    <3>1. ASSUME NextZones PROVE ZonesInv'
      <4>1. PICK where \in [Boat -> Place] : ZonesTick(Boat \ destroyed', where)
        BY <3>1 DEF NextZones
      <4>2. Boat \ destroyed' \in SUBSET Boat
        OBVIOUS
      <4> QED  BY <4>1, <4>2, ZonesInvKept DEF WorldInv
    <3> QED  BY <3>1
  <2> QED  BY <2>1, <2>2, <2>3, <2>4
<1>5. UNCHANGED <<waterVars, destroyed>> => WaterInv' /\ HullInv'
  BY DEF WorldInv, waterVars, WaterInv, HullInv, InWater
<1>6. ASSUME NEW b \in Boat, NEW wanted \in SUBSET Tubes(b), fire(b, wanted)
      PROVE  WaterInv' /\ HullInv'
  <2>1. launch(b, [i \in Launching(b, wanted) |-> tubes[b][i].weapon], tick)
    BY <1>6 DEF fire
  <2>2. UNCHANGED <<hp, destroyed>>
    BY <1>6 DEF fire, fireTubes, launch
  <2>3. HullInv'
    BY <2>2 DEF WorldInv, HullInv
  <2> QED  BY <2>1, <2>3, SalvoIsWellMade DEF WorldInv
<1>7. ASSUME NEW b \in Boat, dropNoisemaker(b)
      PROVE  WaterInv' /\ HullInv'
  <2>1. dropCountermeasure(b, tick) /\ UNCHANGED <<hp, destroyed>>
    BY <1>7 DEF dropNoisemaker, dropGear, dropCountermeasure
  <2>2. HullInv'
    BY <2>1 DEF WorldInv, HullInv
  <2> QED  BY <2>1, <2>2, NoisemakerIsWellMade DEF WorldInv
<1>8. ASSUME NEW b \in Boat, NEW i \in Tubes(b), NEW w \in Fits[b], NEW swap \in BOOLEAN,
             reload(b, i, w, swap)
      PROVE  WaterInv' /\ HullInv'
  BY <1>5, <1>8 DEF reload, load
<1>9. ASSUME NEW b \in Boat, NEW on \in BOOLEAN, switchSonar(b, on)
      PROVE  WaterInv' /\ HullInv'
  BY <1>5, <1>9 DEF switchSonar, gearVars
<1>10. ASSUME NEW thrown \in BOOLEAN, Ticked(tick + 1, thrown)
       PROVE  WaterInv' /\ HullInv'
  <2>1. PICK ram \in Collisions : \E fate \in Fates(tick + 1, ram.harm, scene.early) :
               \E where \in [Boat -> scene.roam] : TheTick(tick + 1, thrown, ram, fate, where)
    BY <1>10, TickIs
  <2>2. PICK fate \in Fates(tick + 1, ram.harm, scene.early) :
               \E where \in [Boat -> scene.roam] : TheTick(tick + 1, thrown, ram, fate, where)
    BY <2>1
  <2>3. PICK where \in [Boat -> scene.roam] : TheTick(tick + 1, thrown, ram, fate, where)
    BY <2>2
  <2> QED  BY <2>3, Hulls, WaterAfterATick DEF WorldInv
<1>11. Idle => WaterInv' /\ HullInv'
  BY <1>5 DEF Idle, worldVars, gearVars
<1>12. UNCHANGED vars => WaterInv' /\ HullInv'
  BY <1>11 DEF vars, Idle
<1>13. WaterInv' /\ HullInv'
  BY <1>6, <1>7, <1>8, <1>9, <1>10, <1>11, <1>12, StepsOfTheWorld
<1> QED  BY <1>1, <1>2, <1>3, <1>4, <1>13 DEF WorldInv

LEMMA WorldInvAtFirst ==
  ASSUME Init
  PROVE  WorldInv
<1>1. /\ scene \in Scenes /\ scene.objectives \in BOOLEAN
      /\ scene.loaded \in [Boat -> TubeLoad] /\ \A b \in Boat : scene.loaded[b] \in Fits[b]
      /\ InitGear(scene.loaded) /\ InitWater /\ InitBoard(scene.objectives)
  BY MatchAssumption DEF Init, Scene
<1>2. GearInv
  BY <1>1, GearInvAtFirst
<1>3. ZonesInv
  BY <1>1, ZonesInvAtFirst
<1>4. RunsInv
  BY DEF Init, InitWater, NoWeapons, RunsInv, InWater
<1>5. WaterInv
  BY <1>1 DEF InitWater, NoWeapons, WaterInv, InWater
<1>6. HullInv
  <2>1. hp = MaxHp /\ destroyed = {} /\ MaxHp \in [Boat -> Nat \ {0}]
    BY <1>1, WeaponsAssumption DEF InitWater, InitGear
  <2> QED  BY <2>1 DEF HullInv
<1> QED  BY <1>1, <1>2, <1>3, <1>4, <1>5, <1>6 DEF WorldInv

\* The weapons in the water are well made, the wrecks are the boats with no hit points left, and
\* what is in the tubes and on the board is what it should be, throughout.
LEMMA WorldInvAlways == Spec => []WorldInv
BY WorldInvAtFirst, WorldInvKept, PTL DEF Spec

---------------------------------------------------------------------------
(* The tallies.                                                            *)

\* Of finitely many things that are not none, one has the most of any measure.
LEMMA OneHasMost ==
  ASSUME NEW S, IsFiniteSet(S), S # {}, NEW f, \A x \in S : f[x] \in Int
  PROVE  \E m \in S : \A x \in S : f[x] <= f[m]
<1> DEFINE Good == {T \in SUBSET S : T # {} => \E m \in T : \A x \in T : f[x] <= f[m]}
<1>1. {} \in Good
  OBVIOUS
<1>2. ASSUME NEW T \in SUBSET S, NEW x \in S, T \in Good, x \notin T
      PROVE  T \cup {x} \in Good
  <2>1. CASE T = {}
    <3>1. T \cup {x} = {x} /\ f[x] <= f[x]
      BY <2>1
    <3> QED  BY <3>1
  <2>2. CASE T # {}
    <3>1. PICK m \in T : \A y \in T : f[y] <= f[m]
      BY <1>2, <2>2
    <3>2. f[m] \in Int /\ f[x] \in Int /\ \A y \in T : f[y] \in Int
      BY <3>1
    <3>3. CASE f[x] <= f[m]
      BY <3>1, <3>3
    <3>4. CASE ~(f[x] <= f[m])
      <4>1. \A y \in T : f[y] <= f[x]
        BY <3>1, <3>2, <3>4
      <4>2. f[x] <= f[x]
        BY <3>2
      <4> QED  BY <4>1, <4>2
    <3> QED  BY <3>3, <3>4
  <2> QED  BY <2>1, <2>2
<1> HIDE DEF Good
<1>3. SUBSET S \subseteq Good
  BY <1>1, <1>2, OneAtATime
<1>4. S \in Good
  BY <1>3
<1> QED  BY <1>4 DEF Good

\* So of finitely many numbers there is a first.
LEMMA OneIsFirst ==
  ASSUME NEW S, IsFiniteSet(S), S # {}, S \subseteq Int
  PROVE  \E m \in S : \A x \in S : m <= x
<1> DEFINE f == [x \in S |-> 0 - x]
<1>1. \A x \in S : f[x] \in Int
  OBVIOUS
<1>2. \A x, y \in S : f[x] <= f[y] => y <= x
  OBVIOUS
<1> HIDE DEF f
<1>3. PICK m \in S : \A x \in S : f[x] <= f[m]
  BY <1>1, OneHasMost
<1> QED  BY <1>2, <1>3

\* What a boat claims of another in a tick, and what is claimed of it in all.
LEMMA Claims ==
  ASSUME WaterInv, NEW fate, \A i \in InWater : fate[i].harm \in Harms, NEW v \in Boat
  PROVE  /\ Claimed(fate, v) \in Nat
         /\ \A i \in InWater : fate[i].harm[v] \in Nat
         /\ \A a : /\ Claim(fate, a, v) \in Nat
                   /\ \A i \in InWater :
                        torpedoes[i].firedBy = a => fate[i].harm[v] <= Claim(fate, a, v)
                   /\ Claim(fate, a, v) > 0 =>
                        \E i \in InWater : torpedoes[i].firedBy = a /\ fate[i].harm[v] > 0
<1>1. \A i \in InWater : fate[i].harm[v] \in Nat
  BY DEF Harms
<1>2. Claimed(fate, v) \in Nat
  <2> DEFINE f == [i \in InWater |-> fate[i].harm[v]]
  <2>1. \A i \in InWater : f[i] \in Nat
    BY <1>1
  <2>2. Claimed(fate, v) = SumOver(f, InWater)
    BY DEF Claimed
  <2> HIDE DEF f
  <2> QED  BY <2>1, <2>2, FewInTheWater, SumNat
<1>3. ASSUME NEW a
      PROVE  /\ Claim(fate, a, v) \in Nat
             /\ \A i \in InWater :
                  torpedoes[i].firedBy = a => fate[i].harm[v] <= Claim(fate, a, v)
             /\ Claim(fate, a, v) > 0 =>
                  \E i \in InWater : torpedoes[i].firedBy = a /\ fate[i].harm[v] > 0
  <2> DEFINE own == {i \in InWater : torpedoes[i].firedBy = a}
             f == [i \in own |-> fate[i].harm[v]]
  <2>1. IsFiniteSet(own)
    BY FewInTheWater, FS_Subset
  <2>2. \A i \in own : f[i] \in Nat /\ f[i] = fate[i].harm[v]
    BY <1>1
  <2>3. Claim(fate, a, v) = SumOver(f, own)
    BY DEF Claim
  <2> HIDE DEF f
  <2>4. SumOver(f, own) \in Nat /\ \A i \in own : f[i] <= SumOver(f, own)
    <3> HIDE DEF own
    <3> QED  BY <2>1, <2>2, SumNat
  <2>5. ASSUME Claim(fate, a, v) > 0
        PROVE  \E i \in own : f[i] > 0
    <3> SUFFICES ASSUME \A i \in own : ~(f[i] > 0)
                 PROVE  FALSE
      OBVIOUS
    <3>1. \A i \in own : f[i] = 0
      BY <2>2
    <3> HIDE DEF own
    <3>2. SumOver(f, own) = 0
      BY <2>1, <3>1, SumOfNone
    <3> QED  BY <2>3, <2>5, <3>2
  <2> QED  BY <2>2, <2>3, <2>4, <2>5
<1> QED  BY <1>1, <1>2, <1>3

\* A boat that was harmed has a killer, and it is a boat (creditWeapons).
LEMMA HarmHasAKiller ==
  ASSUME WaterInv, NEW fate, \A i \in InWater : fate[i].harm \in Harms, NEW v \in Boat,
         Harm(fate)[v] > 0
  PROVE  Killer(fate, v) \in Boat
<1> DEFINE most  == {a \in Boat : /\ Claim(fate, a, v) > 0
                                  /\ \A c \in Boat : Claim(fate, c, v) <= Claim(fate, a, v)}
           first == {i \in InWater : fate[i].harm[v] > 0 /\ torpedoes[i].firedBy \in most}
           claim == [a \in Boat |-> Claim(fate, a, v)]
<1>0. IsFiniteSet(Boat) /\ IsFiniteSet(InWater) /\ InWater \subseteq Nat
  BY FleetAssumption, FewInTheWater
<1>1. \A a \in Boat : claim[a] \in Nat /\ claim[a] = Claim(fate, a, v)
  BY Claims
<1>2. PICK j \in InWater : fate[j].harm[v] > 0
  <2> SUFFICES ASSUME \A i \in InWater : ~(fate[i].harm[v] > 0)
               PROVE  FALSE
    OBVIOUS
  <2> DEFINE f == [i \in InWater |-> fate[i].harm[v]]
  <2>1. \A i \in InWater : fate[i].harm[v] \in Nat
    BY Claims
  <2>2. \A i \in InWater : f[i] = 0
    BY <2>1
  <2>3. Harm(fate)[v] = SumOver(f, InWater)
    BY DEF Harm
  <2> HIDE DEF f
  <2>4. SumOver(f, InWater) = 0
    BY <1>0, <2>2, SumOfNone
  <2> QED  BY <2>3, <2>4
<1>3. torpedoes[j].firedBy \in Boat
  BY <1>2 DEF WaterInv, WellMade
<1>4. fate[j].harm[v] \in Nat /\ fate[j].harm[v] <= Claim(fate, torpedoes[j].firedBy, v)
  BY <1>2, Claims
<1> HIDE DEF claim
<1>5. PICK m \in Boat : \A x \in Boat : claim[x] <= claim[m]
  <2>1. Boat # {} /\ \A a \in Boat : claim[a] \in Int
    BY <1>1
  <2> QED  BY <1>0, <2>1, OneHasMost
<1>6. m \in most
  <2>1. \A c \in Boat : Claim(fate, c, v) <= Claim(fate, m, v)
    BY <1>1, <1>5
  <2>2. Claim(fate, torpedoes[j].firedBy, v) \in Nat /\ Claim(fate, m, v) \in Nat
    BY <1>1, <1>3
  <2>3. Claim(fate, m, v) > 0
    BY <1>2, <1>3, <1>4, <2>1, <2>2
  <2> QED  BY <2>1, <2>3
<1>7. first # {}
  <2>1. Claim(fate, m, v) > 0
    BY <1>6
  <2>2. PICK i \in InWater : torpedoes[i].firedBy = m /\ fate[i].harm[v] > 0
    BY <2>1, Claims
  <2> QED  BY <1>6, <2>2
<1>8. IsFiniteSet(first) /\ first \subseteq Int
  <2>1. first \in SUBSET InWater
    OBVIOUS
  <2> HIDE DEF first, most
  <2>2. IsFiniteSet(first)
    BY <1>0, <2>1, FS_Subset
  <2>3. first \subseteq Int
    BY <1>0, <2>1
  <2> QED  BY <2>2, <2>3
<1>9. most # {}
  BY <1>6
<1>10. Killer(fate, v) = torpedoes[CHOOSE i \in first : \A k \in first : i <= k].firedBy
  BY <1>9 DEF Killer
<1>11. \A i \in first : torpedoes[i].firedBy \in Boat
  OBVIOUS
<1> HIDE DEF first, most
<1>12. \E i \in first : \A k \in first : i <= k
  BY <1>7, <1>8, OneIsFirst
<1>13. (CHOOSE i \in first : \A k \in first : i <= k) \in first
  BY <1>12
<1> QED  BY <1>10, <1>11, <1>13

\* What a boat is credited with in a tick is so many shares (creditWeapons).
LEMMA DealtIsSoMuch ==
  ASSUME WaterInv, HullInv, NEW thrown, NEW ram, NEW fate, NEW where,
         TheTick(tick + 1, thrown, ram, fate, where), NEW a \in Boat
  PROVE  Dealt(ram, fate, a) \in Nat
<1> DEFINE part(v) == IF Claimed(fate, v) = 0 THEN 0
                      ELSE (Claim(fate, a, v) * Lost(ram, v) * Share) \div Claimed(fate, v)
           f == [v \in Boat |-> part(v)]
<1>1. \A i \in InWater : fate[i].harm \in Harms
  BY Hulls
<1>2. ASSUME NEW v \in Boat
      PROVE  part(v) \in Nat
  <2>1. Claimed(fate, v) \in Nat /\ Claim(fate, a, v) \in Nat
    BY <1>1, Claims
  <2>2. Lost(ram, v) \in Nat
    <3>1. Settled(ram.harm)[v] \in Nat /\ hp'[v] \in Nat /\ hp'[v] <= Settled(ram.harm)[v]
      BY Hulls DEF Harms
    <3> QED  BY <3>1 DEF Lost
  <2>3. Share \in Nat
    BY ResultsAssumption
  <2>4. Claim(fate, a, v) * Lost(ram, v) * Share \in Nat
    BY <2>1, <2>2, <2>3, Products
  <2>5. Claimed(fate, v) # 0 => part(v) \in Nat
    BY <2>1, <2>4, Quotients
  <2> QED  BY <2>5
<1>3. IsFiniteSet(Boat)
  BY FleetAssumption
<1> HIDE DEF part
<1>4. \A v \in Boat : f[v] \in Nat
  BY <1>2
<1>5. Dealt(ram, fate, a) = SumOver(f, Boat)
  BY DEF Dealt, part
<1> HIDE DEF f
<1> QED  BY <1>3, <1>4, <1>5, SumNat

\* A boat's tally after a tick, entry by entry (tally, creditWeapons, noteLosses).
LEMMA TallyIs ==
  ASSUME tallies \in [Boat -> BoatTally], NEW now, NEW ram, NEW fate, NEW board, NEW where,
         NEW b \in Boat, NEW n, n = Tallied(now, ram, fate, board, where)[b]
  PROVE  /\ n = [damageDealt |-> n.damageDealt, sank |-> n.sank, captures |-> n.captures,
                 torpedoesFired |-> n.torpedoesFired, destroyedTick |-> n.destroyedTick]
         /\ n.damageDealt = tallies[b].damageDealt + Dealt(ram, fate, b)
         /\ n.sank = tallies[b].sank \cup Sank(ram, fate, b)
         /\ n.captures = tallies[b].captures + CapturesOf(b, board, where)
         /\ n.torpedoesFired = tallies[b].torpedoesFired
         /\ n.destroyedTick = IF b \in destroyed' /\ tallies[b].destroyedTick = None
                                 /\ noteLosses(ram, fate)
                              THEN now ELSE tallies[b].destroyedTick
<1> DEFINE t == tallies[b]
           d == t.damageDealt + Dealt(ram, fate, b)
           s == t.sank \cup Sank(ram, fate, b)
           c == t.captures + CapturesOf(b, board, where)
           x == IF b \in destroyed' /\ t.destroyedTick = None /\ noteLosses(ram, fate)
                THEN now ELSE t.destroyedTick
<1>1. t \in BoatTally
  OBVIOUS
<1>2. Tallied(now, ram, fate, board, where)[b]
        = [t EXCEPT !.damageDealt = d, !.sank = s, !.captures = c, !.destroyedTick = x]
  BY DEF Tallied
<1> HIDE DEF t, d, s, c, x
<1>3. Tallied(now, ram, fate, board, where)[b]
        = [damageDealt |-> d, sank |-> s, captures |-> c, torpedoesFired |-> t.torpedoesFired,
           destroyedTick |-> x]
  BY <1>1, <1>2 DEF BoatTally
<1>4. /\ n = [damageDealt |-> n.damageDealt, sank |-> n.sank, captures |-> n.captures,
              torpedoesFired |-> n.torpedoesFired, destroyedTick |-> n.destroyedTick]
      /\ n.damageDealt = d /\ n.sank = s /\ n.captures = c
      /\ n.torpedoesFired = t.torpedoesFired /\ n.destroyedTick = x
  BY <1>3
<1> QED  BY <1>4, Zenon DEF t, d, s, c, x

\* The same of a salvo.
LEMMA TallyOfASalvo ==
  ASSUME tallies \in [Boat -> BoatTally], NEW b \in Boat, NEW n \in Nat,
         tallies' = [tallies EXCEPT ![b].torpedoesFired = @ + n]
  PROVE  /\ tallies' \in [Boat -> BoatTally]
         /\ \A c \in Boat : /\ tallies'[c].damageDealt = tallies[c].damageDealt
                            /\ tallies'[c].sank = tallies[c].sank
                            /\ tallies'[c].captures = tallies[c].captures
                            /\ tallies'[c].destroyedTick = tallies[c].destroyedTick
<1> DEFINE m == tallies[b].torpedoesFired + n
           t == [tallies[b] EXCEPT !.torpedoesFired = m]
<1>1. m \in Nat
  BY DEF BoatTally
<1>2. tallies' = [tallies EXCEPT ![b] = t]
  OBVIOUS
<1> HIDE DEF m
<1>3. /\ t \in BoatTally /\ t.damageDealt = tallies[b].damageDealt /\ t.sank = tallies[b].sank
      /\ t.captures = tallies[b].captures /\ t.destroyedTick = tallies[b].destroyedTick
  BY <1>1 DEF BoatTally
<1> HIDE DEF t
<1> QED  BY <1>2, <1>3

\* What the reports say of the losses.
LossInv == KillsAreLosses /\ LossesAreStamped

\* A boat that loses a point in a tick lost it to a collision or to a weapon (stepWeapons).
LEMMA NothingElseHarms ==
  ASSUME WaterInv, HullInv, NEW thrown, NEW ram, NEW fate, NEW where,
         TheTick(tick + 1, thrown, ram, fate, where), ~noteLosses(ram, fate)
  PROVE  hp' = hp /\ destroyed' = destroyed
<1>1. ram.harm = Unharmed /\ Harm(fate) = Unharmed
  BY Hulls DEF noteLosses
<1>2. ASSUME NEW b \in Boat
      PROVE  hp'[b] = hp[b]
  <2>1. hp[b] \in Nat /\ (b \in destroyed <=> hp[b] = 0)
    BY DEF HullInv
  <2>2. Settled(ram.harm)[b] = IF b \in destroyed THEN 0 ELSE Less(hp[b], 0)
    BY <1>1 DEF Settled, Unharmed
  <2>3. Settled(ram.harm)[b] = hp[b]
    BY <2>1, <2>2, LessIsNoMore
  <2>4. hp'[b] = Less(hp[b], 0)
    BY <1>1, <2>3, Hulls DEF Unharmed
  <2> QED  BY <2>1, <2>4, LessIsNoMore
<1>3. hp \in [Boat -> Nat] /\ hp' \in [Boat -> Nat] /\ HullInv'
  BY Hulls DEF HullInv, Harms
<1>4. hp' = hp
  BY <1>2, <1>3
<1> QED  BY <1>3, <1>4 DEF HullInv

\* A boat that the collisions of a tick left afloat, and the tick did not, was harmed by weapons.
LEMMA SunkByWeapons ==
  ASSUME WaterInv, HullInv, NEW thrown, NEW ram, NEW fate, NEW where,
         TheTick(tick + 1, thrown, ram, fate, where),
         NEW v \in destroyed', Settled(ram.harm)[v] > 0
  PROVE  v \in Boat /\ Harm(fate)[v] > 0 /\ v \notin destroyed
<1>1. v \in Boat /\ hp'[v] = 0
  BY Hulls DEF HullInv
<1>2. /\ Settled(ram.harm)[v] \in Nat /\ Harm(fate)[v] \in Nat
      /\ hp'[v] = Less(Settled(ram.harm)[v], Harm(fate)[v])
  BY <1>1, Hulls DEF Harms
<1>3. Harm(fate)[v] # 0
  <2> SUFFICES ASSUME Harm(fate)[v] = 0
               PROVE  FALSE
    OBVIOUS
  <2>1. Less(Settled(ram.harm)[v], 0) = Settled(ram.harm)[v]
    BY <1>2, LessIsNoMore
  <2> QED  BY <1>1, <1>2, <2>1
<1>4. v \notin destroyed
  BY <1>1 DEF Settled
<1> QED  BY <1>1, <1>2, <1>3, <1>4

\* What collisions took of the boats in a tick is so many points, and none only if no boat lost
\* any to them.
LEMMA RammedCounts ==
  ASSUME WaterInv, HullInv, rammed \in Nat, NEW thrown, NEW ram, NEW fate, NEW where,
         TheTick(tick + 1, thrown, ram, fate, where)
  PROVE  /\ rammed' \in Nat
         /\ rammed' = 0 => rammed = 0 /\ \A b \in Active : Settled(ram.harm)[b] = hp[b]
<1> DEFINE f == [b \in Boat |-> hp[b] - Settled(ram.harm)[b]]
<1>1. Active \subseteq Boat /\ IsFiniteSet(Active)
  BY FleetAssumption, FS_Subset DEF Active
<1>2. \A b \in Boat : f[b] \in Nat /\ (f[b] = 0 => Settled(ram.harm)[b] = hp[b])
  <2> SUFFICES ASSUME NEW b \in Boat
               PROVE  f[b] \in Nat /\ (f[b] = 0 => Settled(ram.harm)[b] = hp[b])
    OBVIOUS
  <2>1. hp[b] \in Nat /\ Settled(ram.harm)[b] \in Nat /\ Settled(ram.harm)[b] <= hp[b]
    BY Hulls DEF Harms, HullInv
  <2> QED  BY <2>1
<1>3. rammed' = rammed + SumOver(f, Active)
  BY DEF TheTick
<1> HIDE DEF f
<1>4. SumOver(f, Active) \in Nat /\ \A b \in Active : f[b] <= SumOver(f, Active)
  <2>1. \A b \in Active : f[b] \in Nat
    BY <1>1, <1>2
  <2> QED  BY <1>1, <2>1, SumNat
<1>5. rammed' \in Nat /\ (rammed' = 0 => rammed = 0 /\ SumOver(f, Active) = 0)
  BY <1>3, <1>4
<1>6. ASSUME SumOver(f, Active) = 0, NEW b \in Active
      PROVE  Settled(ram.harm)[b] = hp[b]
  <2>1. f[b] <= 0 /\ f[b] \in Nat
    BY <1>1, <1>2, <1>4, <1>6
  <2>2. f[b] = 0
    BY <2>1
  <2> QED  BY <1>1, <1>2, <2>2
<1> QED  BY <1>5, <1>6

\* A tick keeps the books on the losses: whoever sinks is one boat's kill, unless a collision had
\* a part in it, and has its tick.
LEMMA LossesAfterATick ==
  ASSUME WaterInv, HullInv, tick \in Nat, tallies \in [Boat -> BoatTally], rammed \in Nat, LossInv,
         NEW thrown, NEW ram, NEW fate, NEW where,
         TheTick(tick + 1, thrown, ram, fate, where)
  PROVE  LossInv'
<1>1. /\ tallies' = Tallied(tick + 1, ram, fate, Advanced(Boat \ destroyed', where), where)
      /\ destroyed' \subseteq Boat /\ destroyed \subseteq destroyed'
      /\ \A i \in InWater : fate[i].harm \in Harms
  BY Hulls DEF TheTick, HullInv
<1>2. \A b \in Boat :
        /\ tallies'[b].sank = tallies[b].sank \cup Sank(ram, fate, b)
        /\ tallies'[b].destroyedTick
             = IF b \in destroyed' /\ tallies[b].destroyedTick = None /\ noteLosses(ram, fate)
               THEN tick + 1 ELSE tallies[b].destroyedTick
  <2> DEFINE board == Advanced(Boat \ destroyed', where)
  <2> HIDE DEF board
  <2> TAKE b \in Boat
  <2>1. tallies'[b] = Tallied(tick + 1, ram, fate, board, where)[b]
    BY <1>1 DEF board
  <2> DEFINE n == tallies'[b]
  <2>2. n = Tallied(tick + 1, ram, fate, board, where)[b]
    BY <2>1
  <2> HIDE DEF n
  <2>3. /\ n.sank = tallies[b].sank \cup Sank(ram, fate, b)
        /\ n.destroyedTick
             = IF b \in destroyed' /\ tallies[b].destroyedTick = None /\ noteLosses(ram, fate)
               THEN tick + 1 ELSE tallies[b].destroyedTick
    BY <2>2, TallyIs
  <2> QED  BY <2>3 DEF n
<1>3. \A b \in Boat : Sank(ram, fate, b) \subseteq destroyed' \ destroyed
  BY <1>1, SunkByWeapons DEF Sank
<1>4. \A b, c \in Boat : b # c => Sank(ram, fate, b) \cap Sank(ram, fate, c) = {}
  BY DEF Sank
<1>5. ASSUME NEW b \in Boat
      PROVE  b \in destroyed' <=> tallies'[b].destroyedTick # None
  <2>1. b \in destroyed <=> tallies[b].destroyedTick # None
    BY DEF LossInv, LossesAreStamped
  <2>2. tick + 1 # None
    BY ResultsAssumption
  <2>3. ~noteLosses(ram, fate) => destroyed' = destroyed
    BY NothingElseHarms
  <2> QED  BY <1>1, <1>2, <2>1, <2>2, <2>3
<1>6. ASSUME rammed' = 0, NEW v \in destroyed' \ destroyed
      PROVE  \E b \in Boat : v \in Sank(ram, fate, b)
  <2>1. v \in Active
    BY <1>1 DEF Active
  <2>2. Settled(ram.harm)[v] = hp[v]
    BY <1>6, <2>1, RammedCounts
  <2>3. hp[v] > 0
    BY <2>1 DEF HullInv, Active
  <2>4. v \in Boat /\ Harm(fate)[v] > 0
    BY <2>2, <2>3, SunkByWeapons
  <2>5. Killer(fate, v) \in Boat
    BY <1>1, <2>4, HarmHasAKiller
  <2>6. v \in Sank(ram, fate, Killer(fate, v))
    BY <2>2, <2>3 DEF Sank
  <2> QED  BY <2>5, <2>6
<1>7. KillsAreLosses'
  <2>1. \A b \in Boat : tallies[b].sank \subseteq destroyed
    BY DEF LossInv, KillsAreLosses
  <2>2. \A b \in Boat : tallies'[b].sank \subseteq destroyed'
    BY <1>1, <1>2, <1>3, <2>1
  <2>3. \A b, c \in Boat : b # c => tallies'[b].sank \cap tallies'[c].sank = {}
    <3>1. \A b, c \in Boat : b # c => tallies[b].sank \cap tallies[c].sank = {}
      BY DEF LossInv, KillsAreLosses
    <3> QED  BY <1>2, <1>3, <1>4, <2>1, <3>1
  <2>4. ASSUME rammed' = 0
        PROVE  destroyed' = UNION {tallies'[b].sank : b \in Boat}
    <3>1. destroyed = UNION {tallies[b].sank : b \in Boat}
      BY <2>4, RammedCounts DEF LossInv, KillsAreLosses
    <3>2. ASSUME NEW v \in destroyed'
          PROVE  \E b \in Boat : v \in tallies'[b].sank
      <4>1. CASE v \in destroyed
        <5>1. PICK b \in Boat : v \in tallies[b].sank
          BY <3>1, <4>1
        <5> QED  BY <1>2, <5>1
      <4>2. CASE v \notin destroyed
        <5>1. PICK b \in Boat : v \in Sank(ram, fate, b)
          BY <1>6, <2>4, <4>2
        <5> QED  BY <1>2, <5>1
      <4> QED  BY <4>1, <4>2
    <3> QED  BY <2>2, <3>2
  <2> QED  BY <2>2, <2>3, <2>4 DEF KillsAreLosses
<1> QED  BY <1>5, <1>7 DEF LossInv, LossesAreStamped

---------------------------------------------------------------------------
(* The captures.                                                           *)

\* Things that have one owner each are as many as the owners have together.
LEMMA OwnedByOne ==
  ASSUME NEW S, IsFiniteSet(S), NEW T, IsFiniteSet(T), NEW owner, \A l \in T : owner[l] \in S
  PROVE  SumOver([s \in S |-> Cardinality({l \in T : owner[l] = s})], S) = Cardinality(T)
<1> DEFINE of(U) == [s \in S |-> Cardinality({l \in U : owner[l] = s})]
           Good == {U \in SUBSET T : SumOver(of(U), S) = Cardinality(U)}
<1>1. {} \in Good
  <2> DEFINE f == of({})
  <2>1. \A s \in S : f[s] = 0
    BY FS_EmptySet
  <2> HIDE DEF f
  <2>2. SumOver(f, S) = 0
    BY <2>1, SumOfNone
  <2> QED  BY <2>2, FS_EmptySet DEF f
<1>2. ASSUME NEW U \in SUBSET T, NEW x \in T, U \in Good, x \notin U
      PROVE  U \cup {x} \in Good
  <2> DEFINE f == of(U)
             h == of(U \cup {x})
             g == [s \in S |-> IF s = owner[x] THEN 1 ELSE 0]
  <2>1. IsFiniteSet(U) /\ Cardinality(U) \in Nat /\ Cardinality(U \cup {x}) = Cardinality(U) + 1
    <3>1. IsFiniteSet(U)
      BY FS_Subset
    <3> QED  BY <1>2, <3>1, FS_CardinalityType, FS_AddElement
  <2>2. \A s \in S : f[s] \in Int /\ g[s] \in Int /\ h[s] = f[s] + g[s]
    <3> SUFFICES ASSUME NEW s \in S
                 PROVE  f[s] \in Int /\ g[s] \in Int /\ h[s] = f[s] + g[s]
      OBVIOUS
    <3> DEFINE A == {l \in U : owner[l] = s}
               B == {l \in U \cup {x} : owner[l] = s}
    <3>1. A \in SUBSET U /\ x \notin A
      BY <1>2
    <3>2. B = IF owner[x] = s THEN A \cup {x} ELSE A
      OBVIOUS
    <3>3. f[s] = Cardinality(A) /\ h[s] = Cardinality(B)
      OBVIOUS
    <3> HIDE DEF A, B, f, h
    <3>4. IsFiniteSet(A) /\ Cardinality(A) \in Nat
      BY <2>1, <3>1, FS_Subset, FS_CardinalityType
    <3>5. Cardinality(A \cup {x}) = Cardinality(A) + 1
      BY <3>1, <3>4, FS_AddElement
    <3> QED  BY <3>2, <3>3, <3>4, <3>5
  <2>3. SumOver(g, S) = 1
    <3> DEFINE o == owner[x]
    <3>1. o \in S /\ g[o] = 1 /\ \A s \in S \ {o} : g[s] = 0
      OBVIOUS
    <3>2. \A s \in S : g[s] \in Int
      OBVIOUS
    <3> HIDE DEF o, g
    <3>3. SumOver(g, S) = g[o] + SumOver(g, S \ {o})
      BY <3>1, <3>2, SumPeels
    <3>4. IsFiniteSet(S \ {o})
      BY FS_Subset
    <3>5. SumOver(g, S \ {o}) = 0
      BY <3>1, <3>4, SumOfNone
    <3> QED  BY <3>1, <3>3, <3>5
  <2>4. SumOver(f, S) = Cardinality(U)
    BY <1>2
  <2> HIDE DEF f, g, h
  <2>5. SumOver(h, S) = SumOver(f, S) + SumOver(g, S)
    BY <2>2, SumPlus
  <2>6. SumOver(h, S) = Cardinality(U \cup {x})
    BY <2>1, <2>3, <2>4, <2>5
  <2>7. U \cup {x} \in SUBSET T
    OBVIOUS
  <2> QED  BY <2>6, <2>7 DEF h
<1> HIDE DEF Good
<1>3. SUBSET T \subseteq Good
  BY <1>1, <1>2, OneAtATime
<1>4. T \in Good
  BY <1>3
<1> QED  BY <1>4 DEF Good

LEMMA PartsAreCounted ==
  ASSUME NEW A, IsFiniteSet(A), NEW B
  PROVE  Cardinality(A) \in Nat /\ Cardinality(A \cap B) \in Nat
<1>1. A \cap B \in SUBSET A
  OBVIOUS
<1>2. IsFiniteSet(A \cap B)
  BY <1>1, FS_Subset
<1> QED  BY <1>2, FS_CardinalityType

\* Things that somebody has a part in are no more than the parts together.
LEMMA PartsCover ==
  ASSUME NEW S, IsFiniteSet(S), NEW T, IsFiniteSet(T), NEW part,
         \A s \in S : part[s] \subseteq T, \A l \in T : \E s \in S : l \in part[s]
  PROVE  Cardinality(T) <= SumOver([s \in S |-> Cardinality(part[s])], S)
<1> DEFINE f == [s \in S |-> Cardinality(part[s])]
           All(U) == UNION {part[s] : s \in U}
           Good == {U \in SUBSET S : IsFiniteSet(All(U)) /\ Cardinality(All(U)) <= SumOver(f, U)}
<1>0. \A s \in S : IsFiniteSet(part[s]) /\ f[s] = Cardinality(part[s]) /\ f[s] \in Nat
  BY FS_Subset, FS_CardinalityType
<1>1. {} \in Good
  <2>1. All({}) = {}
    OBVIOUS
  <2>2. SumOver(f, {}) = 0
    <3> HIDE DEF f
    <3>1. \A any : SumOver(any, {}) = 0
      BY SumUnfolds, FS_EmptySet
    <3> QED  BY <3>1
  <2> HIDE DEF All, f
  <2> QED  BY <2>1, <2>2, FS_EmptySet
<1> HIDE DEF f
<1>2. ASSUME NEW U \in SUBSET S, NEW x \in S, U \in Good, x \notin U
      PROVE  U \cup {x} \in Good
  <2>1. All(U \cup {x}) = All(U) \cup part[x]
    OBVIOUS
  <2>2. IsFiniteSet(U)
    BY FS_Subset
  <2>3. SumOver(f, U \cup {x}) = f[x] + SumOver(f, U)
    BY <1>0, <1>2, <2>2, SumGrows
  <2>4. IsFiniteSet(All(U)) /\ Cardinality(All(U)) <= SumOver(f, U)
    BY <1>2
  <2>5. SumOver(f, U) \in Int
    BY <1>0, <2>2, SumInt
  <2> HIDE DEF All
  <2>6. /\ IsFiniteSet(All(U) \cup part[x])
        /\ Cardinality(All(U) \cup part[x])
             = Cardinality(All(U)) + Cardinality(part[x]) - Cardinality(All(U) \cap part[x])
    BY <1>0, <2>4, FS_Union
  <2>7. Cardinality(All(U)) \in Nat /\ Cardinality(All(U) \cap part[x]) \in Nat
    BY <2>4, PartsAreCounted
  <2>8. Cardinality(All(U \cup {x})) <= SumOver(f, U \cup {x})
    <3> DEFINE a == Cardinality(All(U))
               b == Cardinality(All(U) \cap part[x])
    <3>1. f[x] = Cardinality(part[x]) /\ f[x] \in Nat
      BY <1>0
    <3>2. Cardinality(All(U \cup {x})) = a + f[x] - b
      BY <2>1, <2>6, <3>1
    <3>3. a \in Nat /\ b \in Nat /\ a <= SumOver(f, U)
      BY <2>4, <2>7
    <3> HIDE DEF a, b
    <3>4. a + f[x] - b <= f[x] + SumOver(f, U)
      BY <2>5, <3>1, <3>3
    <3> QED  BY <2>3, <3>2, <3>4
  <2> QED  BY <2>1, <2>6, <2>8
<1> HIDE DEF Good
<1>3. SUBSET S \subseteq Good
  BY <1>1, <1>2, OneAtATime
<1>4. S \in Good
  BY <1>3
<1>5. All(S) = T
  OBVIOUS
<1> QED  BY <1>4, <1>5 DEF Good, f

\* The zones that fall on a tick, each to a team that is inside it with a boat afloat.
LEMMA ZonesThatFall ==
  ASSUME ZonesInv, NEW afloat \in SUBSET Boat, NEW where,
         NEW board, board = Advanced(afloat, where)
  PROVE  /\ Captured(board) \subseteq DOMAIN zones /\ DOMAIN board = DOMAIN zones
         /\ IsFiniteSet(DOMAIN zones)
         /\ \A l \in Captured(board) :
              /\ board[l].capturing \in Team
              /\ \E b \in afloat : /\ TeamOf[b] = board[l].capturing
                                   /\ withinZone(board[l], where[b])
<1>1. /\ DOMAIN board = DOMAIN zones
      /\ \A l \in DOMAIN zones :
           /\ board[l] = advanceZone(zones[l], TeamsInside(zones[l], afloat, where))
           /\ board[l] \in CaptureZone
           /\ board[l].centre = zones[l].centre
  BY AdvancedBoard
<1>2. Captured(board) \subseteq DOMAIN zones /\ IsFiniteSet(DOMAIN zones)
  BY <1>1, LabelsAreFinite DEF Captured, ZonesInv, ZonesTypeOK
<1>3. ASSUME NEW l \in Captured(board)
      PROVE  /\ board[l].capturing \in Team
             /\ \E b \in afloat : TeamOf[b] = board[l].capturing /\ withinZone(board[l], where[b])
  <2> DEFINE z == zones[l]
             inside == TeamsInside(z, afloat, where)
             after == board[l]
  <2>1. /\ l \in DOMAIN zones /\ after = advanceZone(z, inside) /\ after.centre = z.centre
        /\ after.capturing # None /\ after \in CaptureZone
    BY <1>1, <1>2, <1>3 DEF Captured
  <2>2. after.capturing \in Team
    BY <2>1 DEF CaptureZone
  <2>3. inside \in SUBSET Team /\ IsFiniteSet(inside)
    BY TeamsAreFinite
  <2>4. /\ z \in CaptureZone /\ (z.armingTicks > 0 => z.capturing = None)
        /\ l \in Label /\ streak[l] \in [Team -> 0 .. CAPTURE_TICKS]
        /\ IF z.capturing = None THEN z.progress = 0
           ELSE z.progress \in 1 .. CAPTURE_TICKS /\ z.progress <= streak[l][z.capturing]
    BY <2>1 DEF ZonesInv, ZonesTypeOK, ProgressIsEarned, ArmingIsNobodys
  <2> HIDE DEF z, inside, after
  <2>5. after.capturing \in inside
    BY <2>1, <2>3, <2>4, EarnedByATick
  <2>6. PICK b \in afloat : withinZone(z, where[b]) /\ TeamOf[b] = after.capturing
    BY <2>5 DEF inside, TeamsInside
  <2>7. withinZone(after, where[b])
    BY <2>1, <2>6 DEF withinZone
  <2> QED  BY <2>2, <2>6, <2>7 DEF after
<1> QED  BY <1>1, <1>2, <1>3

\* What the reports say of the captures.
CaptureInv == CapturesPayOnce /\ CapturesAreCredited

\* The captures a team is paid for on a tick, and those its boats were in on.
Fell(board, t) == {l \in Captured(board) : board[l].capturing = t}
InOn(b, board, where) ==
  {l \in Captured(board) : /\ board[l].capturing = TeamOf[b] /\ b \notin destroyed'
                           /\ withinZone(board[l], where[b])}

LEMMA Apart ==
  ASSUME NEW A, IsFiniteSet(A), NEW B, IsFiniteSet(B), A \cap B = {}
  PROVE  Cardinality(A \cup B) = Cardinality(A) + Cardinality(B)
<1>1. Cardinality(A \cup B) = Cardinality(A) + Cardinality(B) - Cardinality(A \cap B)
  BY FS_Union
<1>2. Cardinality(A \cap B) = 0
  BY FS_EmptySet
<1>3. Cardinality(A) \in Nat /\ Cardinality(B) \in Nat
  BY FS_CardinalityType
<1> QED  BY <1>1, <1>2, <1>3

\* A tick pays every zone that falls to one team, and takes it off the board.
LEMMA PaidOnce ==
  ASSUME ZonesInv, CapturesPayOnce, NEW where, destroyed' \subseteq Boat,
         ZonesTick(Boat \ destroyed', where)
  PROVE  CapturesPayOnce'
<1> DEFINE board == Advanced(Boat \ destroyed', where)
           taken == Captured(board)
           left  == retire(board, taken)
<1>0. Boat \ destroyed' \in SUBSET Boat
  OBVIOUS
<1>1. /\ taken \subseteq DOMAIN zones /\ DOMAIN board = DOMAIN zones /\ IsFiniteSet(DOMAIN zones)
      /\ \A l \in taken : board[l].capturing \in Team
  BY <1>0, ZonesThatFall
<1>2. /\ scores \in [Team -> Nat] /\ nextZoneId \in Nat /\ IsFiniteSet(Team)
      /\ IsFiniteSet(taken) /\ Cardinality(taken) \in Nat /\ Cardinality(DOMAIN zones) \in Nat
  <2> HIDE DEF taken
  <2>1. IsFiniteSet(taken)
    BY <1>1, FS_Subset
  <2> QED  BY <1>1, <2>1, FleetAssumption, FS_CardinalityType DEF ZonesInv, ZonesTypeOK
<1>3. CASE taken = {}
  <2>1. zones' = board /\ scores' = scores /\ nextZoneId' = nextZoneId
    BY <1>3 DEF ZonesTick
  <2> HIDE DEF board
  <2> QED  BY <1>1, <2>1 DEF CapturesPayOnce
<1>4. CASE taken # {}
  <2>1. PICK p \in Placements(left, {board[l].centre : l \in taken}) :
          /\ zones' = fillVacancies(left, p, ARMING_TICKS)
          /\ nextZoneId' = nextZoneId + Cardinality(DOMAIN p)
          /\ scores' = tally(board, taken)
    BY <1>4 DEF ZonesTick
  <2>2. DOMAIN left = DOMAIN zones \ taken
    BY <1>1 DEF retire
  <2>3. DOMAIN p \subseteq Label \ DOMAIN left
    BY <2>1, Placed
  <2>4. DOMAIN zones' = DOMAIN left \cup DOMAIN p
    BY <2>1 DEF fillVacancies
  <2>5. SumOver(scores', Team) = SumOver(scores, Team) + Cardinality(taken)
    <3> DEFINE owner == [l \in taken |-> board[l].capturing]
               g == [t \in Team |-> Cardinality({l \in taken : owner[l] = t})]
               h == [t \in Team |-> Cardinality({l \in taken : board[l].capturing = t})]
    <3>1. \A t \in Team : {l \in taken : owner[l] = t} = {l \in taken : board[l].capturing = t}
      OBVIOUS
    <3>2. scores' = [t \in Team |-> scores[t] + h[t]]
      BY <2>1 DEF tally
    <3>3. \A t \in Team : g[t] = h[t] /\ scores'[t] = scores[t] + g[t]
      BY <3>1, <3>2
    <3>4. \A l \in taken : owner[l] \in Team
      BY <1>1
    <3>5. \A t \in Team : g[t] \in Int
      <4> SUFFICES ASSUME NEW t \in Team
                   PROVE  g[t] \in Int
        OBVIOUS
      <4> DEFINE A == {l \in taken : owner[l] = t}
      <4>1. A \in SUBSET taken /\ g[t] = Cardinality(A)
        OBVIOUS
      <4> HIDE DEF A, g, taken
      <4> QED  BY <1>2, <4>1, FS_Subset, FS_CardinalityType
    <3> HIDE DEF owner, taken, board, h
    <3>7. \A t \in Team : scores[t] \in Int
      BY <1>2
    <3>6. SumOver(g, Team) = Cardinality(taken)
      BY <1>2, <3>4, OwnedByOne
    <3> HIDE DEF g
    <3> QED  BY <1>2, <3>3, <3>5, <3>6, <3>7, SumPlus
  <2>6. Cardinality(DOMAIN zones') = Cardinality(DOMAIN zones) - Cardinality(taken)
                                      + Cardinality(DOMAIN p) /\ Cardinality(DOMAIN p) \in Nat
    <3> DEFINE Z == DOMAIN zones
               L == DOMAIN left
               P == DOMAIN p
    <3>1. IsFiniteSet(P) /\ Cardinality(P) \in Nat
      BY <2>3, LabelsAreFinite
    <3>2. L = Z \ taken /\ L \cap P = {} /\ DOMAIN zones' = L \cup P /\ Z = L \cup taken /\ L \cap taken = {}
      BY <1>1, <2>2, <2>3, <2>4
    <3>3. IsFiniteSet(Z) /\ taken \in SUBSET Z /\ L \in SUBSET Z
      BY <1>1, <3>2
    <3> HIDE DEF Z, L, P, taken, left
    <3>4. IsFiniteSet(L) /\ Cardinality(L) \in Nat
      BY <3>3, FS_Subset, FS_CardinalityType
    <3>5. Cardinality(L \cup P) = Cardinality(L) + Cardinality(P)
      BY <3>1, <3>2, <3>4, Apart
    <3>6. Cardinality(L \cup taken) = Cardinality(L) + Cardinality(taken)
      BY <1>2, <3>2, <3>4, Apart
    <3>7. Cardinality(Z) = Cardinality(L) + Cardinality(taken)
      BY <3>2, <3>6
    <3>8. Cardinality(DOMAIN zones') = Cardinality(Z) - Cardinality(taken) + Cardinality(P)
      BY <1>2, <3>1, <3>2, <3>4, <3>5, <3>7
    <3> QED  BY <3>1, <3>8 DEF Z, P
  <2>7. SumOver(scores, Team) \in Int
    BY <1>2, SumInt
  <2> HIDE DEF taken
  <2> QED  BY <1>2, <2>1, <2>5, <2>6, <2>7 DEF CapturesPayOnce
<1> QED  BY <1>3, <1>4

\* A team is paid no more than its boats were in on, and they in nothing it was not paid for.
LEMMA CreditedToThoseThere ==
  ASSUME ZonesInv, CapturesAreCredited, tallies \in [Boat -> BoatTally],
         NEW where, destroyed' \subseteq Boat, ZonesTick(Boat \ destroyed', where),
         NEW board, board = Advanced(Boat \ destroyed', where),
         \A b \in Boat : tallies'[b].captures = tallies[b].captures + CapturesOf(b, board, where)
  PROVE  CapturesAreCredited' /\ \A b \in Boat : tallies'[b].captures \in Nat
<1> DEFINE taken == Captured(board)
<1>0. Boat \ destroyed' \in SUBSET Boat
  OBVIOUS
<1>1. /\ taken \subseteq DOMAIN zones /\ IsFiniteSet(DOMAIN zones)
      /\ \A l \in taken : /\ board[l].capturing \in Team
                          /\ \E b \in Boat \ destroyed' : /\ TeamOf[b] = board[l].capturing
                                                          /\ withinZone(board[l], where[b])
  BY <1>0, ZonesThatFall
<1>2. IsFiniteSet(taken)
  <2> HIDE DEF taken
  <2> QED  BY <1>1, FS_Subset
<1>3. \A b \in Boat : /\ tallies[b].captures \in Nat
                      /\ CapturesOf(b, board, where) = Cardinality(InOn(b, board, where))
                      /\ InOn(b, board, where) \subseteq Fell(board, TeamOf[b])
  BY DEF BoatTally, CapturesOf, InOn, Fell
<1>4. \A t : Fell(board, t) \in SUBSET taken
  BY DEF Fell
<1>5. \A t : IsFiniteSet(Fell(board, t)) /\ Cardinality(Fell(board, t)) \in Nat
  <2> HIDE DEF taken
  <2> QED  BY <1>2, <1>4, FS_Subset, FS_CardinalityType
<1>6. \A b \in Boat : Cardinality(InOn(b, board, where)) \in Nat
  <2> SUFFICES ASSUME NEW b \in Boat
               PROVE  Cardinality(InOn(b, board, where)) \in Nat
    OBVIOUS
  <2>1. InOn(b, board, where) \in SUBSET Fell(board, TeamOf[b]) /\ IsFiniteSet(Fell(board, TeamOf[b]))
    BY <1>3, <1>5
  <2> QED  BY <2>1, FS_Subset, FS_CardinalityType
<1>7. \A b \in Boat : tallies'[b].captures \in Nat
  <2> TAKE b \in Boat
  <2>1. tallies'[b].captures = tallies[b].captures + Cardinality(InOn(b, board, where))
    BY <1>3
  <2> DEFINE n == tallies[b].captures
             m == Cardinality(InOn(b, board, where))
  <2>2. n \in Nat /\ m \in Nat
    BY <1>3, <1>6
  <2>3. tallies'[b].captures = n + m
    BY <2>1
  <2> HIDE DEF n, m
  <2> QED  BY <2>2, <2>3
<1>8. scores \in [Team -> Nat]
  BY DEF ZonesInv, ZonesTypeOK
<1>9. \A t \in Team : scores'[t] = scores[t] + Cardinality(Fell(board, t))
  <2>1. CASE taken = {}
    <3>1. scores' = scores
      BY <2>1 DEF ZonesTick
    <3>2. \A t : Cardinality(Fell(board, t)) = 0
      <4>1. \A t : Fell(board, t) = {}
        BY <1>4, <2>1
      <4> QED  BY <4>1, FS_EmptySet
    <3> TAKE t \in Team
    <3>3. scores'[t] = scores[t] /\ scores[t] \in Nat /\ Cardinality(Fell(board, t)) = 0
      BY <1>8, <3>1, <3>2
    <3> QED  BY <3>3
  <2>2. CASE taken # {}
    <3>1. scores' = tally(board, taken)
      BY <2>2 DEF ZonesTick
    <3> QED  BY <3>1 DEF tally, Fell
  <2> QED  BY <2>1, <2>2
<1>10. ASSUME NEW t \in Team
       PROVE  /\ scores'[t] <= SumOver([b \in Fleet(t) |-> tallies'[b].captures], Fleet(t))
              /\ scores'[t] = 0 => \A b \in Fleet(t) : tallies'[b].captures = 0
  <2> DEFINE S == Fleet(t)
             part == [b \in S |-> InOn(b, board, where)]
             f == [b \in S |-> tallies[b].captures]
             g == [b \in S |-> Cardinality(part[b])]
             h == [b \in S |-> tallies'[b].captures]
  <2>1. S \subseteq Boat /\ IsFiniteSet(S) /\ \A b \in S : TeamOf[b] = t
    <3>1. S \in SUBSET Boat
      BY DEF Fleet
    <3>2. IsFiniteSet(S)
      BY <3>1, FleetAssumption, FS_Subset
    <3> QED  BY <3>1, <3>2 DEF Fleet
  <2>2. /\ \A b \in S : part[b] \subseteq Fell(board, t)
        /\ \A l \in Fell(board, t) : \E b \in S : l \in part[b]
    <3>1. \A b \in S : part[b] \subseteq Fell(board, t)
      BY <1>3, <2>1
    <3>2. ASSUME NEW l \in Fell(board, t)
          PROVE  \E b \in S : l \in part[b]
      <4>1. l \in taken /\ board[l].capturing = t
        BY DEF Fell
      <4>2. PICK b \in Boat \ destroyed' : TeamOf[b] = t /\ withinZone(board[l], where[b])
        BY <1>1, <4>1
      <4>3. b \in S /\ l \in InOn(b, board, where)
        BY <4>1, <4>2 DEF Fleet, InOn
      <4> QED  BY <4>3
    <3> QED  BY <3>1, <3>2
  <2>3. \A b \in S : /\ f[b] \in Nat /\ g[b] \in Nat /\ h[b] = f[b] + g[b]
                     /\ g[b] = Cardinality(InOn(b, board, where))
    BY <1>3, <1>6, <2>1
  <2>4. scores[t] <= SumOver(f, S) /\ (scores[t] = 0 => \A b \in S : f[b] = 0)
    BY DEF CapturesAreCredited
  <2>5. scores[t] \in Nat /\ scores'[t] = scores[t] + Cardinality(Fell(board, t))
    BY <1>8, <1>9
  <2> HIDE DEF S, f, h
  <2>6. Cardinality(Fell(board, t)) <= SumOver(g, S)
    <3> HIDE DEF part
    <3> QED  BY <1>5, <2>1, <2>2, PartsCover
  <2> HIDE DEF part, g
  <2>7. SumOver(h, S) = SumOver(f, S) + SumOver(g, S)
    BY <2>1, <2>3, SumPlus
  <2>8. SumOver(f, S) \in Nat /\ SumOver(g, S) \in Nat
    BY <2>1, <2>3, SumNat
  <2>9. Cardinality(Fell(board, t)) \in Nat
    BY <1>5
  <2>10. scores'[t] <= SumOver(h, S)
    BY <2>4, <2>5, <2>6, <2>7, <2>8, <2>9
  <2>11. ASSUME scores'[t] = 0, NEW b \in S
         PROVE  h[b] = 0
    <3>1. scores[t] = 0 /\ Cardinality(Fell(board, t)) = 0
      BY <2>5, <2>9, <2>11
    <3>2. Fell(board, t) = {}
      BY <1>5, <3>1, FS_EmptySet
    <3>3. InOn(b, board, where) = {}
      BY <2>2, <3>2 DEF part
    <3>4. g[b] = 0
      BY <2>3, <3>3, FS_EmptySet
    <3> QED  BY <2>3, <2>4, <3>1, <3>4
  <2>12. SumOver([b \in Fleet(t) |-> tallies'[b].captures], Fleet(t)) = SumOver(h, S)
    BY DEF h, S
  <2>13. \A b \in Fleet(t) : tallies'[b].captures = h[b]
    BY DEF h, S
  <2> QED  BY <2>10, <2>11, <2>12, <2>13 DEF S
<1>11. CapturesAreCredited'
  BY <1>10 DEF CapturesAreCredited, Fleet
<1> QED  BY <1>7, <1>11

---------------------------------------------------------------------------
(* The books, through a match.                                             *)

Standing == [survivingPoints : Nat, boatsAlive : Nat]

\* Standings are so many points and so many boats (standingFor).
LEMMA StandingsTyped ==
  ASSUME NEW points \in Harms
  PROVE  /\ standings(points) \in [Team -> Standing]
         /\ \A t \in Team : standings(points)[t] = standingFor(points, t)
         /\ \A t : standingFor(points, t) \in Standing
<1>1. ASSUME NEW t
      PROVE  standingFor(points, t) \in Standing
  <2> DEFINE f == [b \in Fleet(t) |-> survivingValue(points, b)]
             alive == {b \in Fleet(t) : points[b] > 0}
  <2>1. Fleet(t) \in SUBSET Boat /\ alive \in SUBSET Boat
    BY DEF Fleet
  <2>2. IsFiniteSet(Fleet(t)) /\ IsFiniteSet(alive)
    <3> HIDE DEF alive
    <3> QED  BY <2>1, FleetAssumption, FS_Subset
  <2>3. \A b \in Fleet(t) : f[b] \in Nat
    <3> SUFFICES ASSUME NEW b \in Fleet(t)
                 PROVE  survivingValue(points, b) \in Nat
      OBVIOUS
    <3>1. Cost[b] \in Nat /\ 2 * Cost[b] \in Nat
      BY <2>1, ResultsAssumption
    <3> QED  BY <3>1 DEF survivingValue
  <2>4. standingFor(points, t) = [survivingPoints |-> SumOver(f, Fleet(t)), boatsAlive |-> Cardinality(alive)]
    BY DEF standingFor
  <2> HIDE DEF f, alive
  <2>5. SumOver(f, Fleet(t)) \in Nat /\ Cardinality(alive) \in Nat
    BY <2>2, <2>3, SumNat, FS_CardinalityType
  <2> QED  BY <2>4, <2>5 DEF Standing
<1> QED  BY <1>1 DEF standings

\* Standings that are not recounted are still those of the fleet: no hull has changed.
LEMMA StandingsAfterATick ==
  ASSUME WaterInv, HullInv, StandingsAreCurrent, NEW thrown, NEW ram, NEW fate, NEW where,
         TheTick(tick + 1, thrown, ram, fate, where)
  PROVE  StandingsAreCurrent'
<1> DEFINE board == Advanced(Boat \ destroyed', where)
<1>1. teams' = IF standsToRecount(ram, fate, board) THEN standings(hp') ELSE teams
  BY DEF TheTick
<1>2. CASE standsToRecount(ram, fate, board)
  BY <1>1, <1>2 DEF StandingsAreCurrent, standings, standingFor, survivingValue, isDamaged
<1>3. CASE ~standsToRecount(ram, fate, board)
  <2>1. ~noteLosses(ram, fate)
    BY <1>3 DEF standsToRecount, noteLosses
  <2>2. hp' = hp
    BY <2>1, NothingElseHarms
  <2> QED  BY <1>1, <1>3, <2>2 DEF StandingsAreCurrent, standings, standingFor, survivingValue, isDamaged
<1> QED  BY <1>2, <1>3

\* The books but for the sum of the harm, whose shares are whole only if Share is.
BooksInv ==
  /\ tallies \in [Boat -> BoatTally] /\ rammed \in Nat
  /\ LossInv /\ CaptureInv /\ StandingsAreCurrent

LEMMA TalliesAfterATick ==
  ASSUME WorldInv, BooksInv, NEW thrown, NEW ram, NEW fate, NEW where,
         TheTick(tick + 1, thrown, ram, fate, where)
  PROVE  tallies' \in [Boat -> BoatTally] /\ CapturesAreCredited'
<1> DEFINE board == Advanced(Boat \ destroyed', where)
<1>1. /\ tallies' = Tallied(tick + 1, ram, fate, board, where)
      /\ ZonesTick(Boat \ destroyed', where) /\ destroyed' \subseteq Boat
  BY Hulls DEF TheTick, WorldInv, HullInv
<1>2. tallies \in [Boat -> BoatTally] /\ tick + 1 \in Nat
  BY DEF BooksInv, WorldInv, RunsInv
<1>3. tallies' = [b \in Boat |-> tallies'[b]]
  BY <1>1 DEF Tallied
<1> HIDE DEF board
<1>4. ASSUME NEW b \in Boat
      PROVE  LET n == tallies'[b]
             IN /\ n = [damageDealt |-> n.damageDealt, sank |-> n.sank, captures |-> n.captures,
                        torpedoesFired |-> n.torpedoesFired, destroyedTick |-> n.destroyedTick]
                /\ n.damageDealt \in Nat /\ n.sank \subseteq Boat
                /\ n.captures = tallies[b].captures + CapturesOf(b, board, where)
                /\ n.torpedoesFired \in Nat /\ n.destroyedTick \in Nat \cup {None}
  <2> DEFINE n == tallies'[b]
             t == tallies[b]
  <2>1. n = Tallied(tick + 1, ram, fate, board, where)[b]
    BY <1>1
  <2>2. t \in BoatTally
    BY <1>2
  <2>3. Dealt(ram, fate, b) \in Nat
    BY DealtIsSoMuch DEF WorldInv
  <2>4. Sank(ram, fate, b) \subseteq Boat
    BY <1>1 DEF Sank
  <2> HIDE DEF n
  <2>5. /\ n = [damageDealt |-> n.damageDealt, sank |-> n.sank, captures |-> n.captures,
                torpedoesFired |-> n.torpedoesFired, destroyedTick |-> n.destroyedTick]
        /\ n.damageDealt = t.damageDealt + Dealt(ram, fate, b)
        /\ n.sank = t.sank \cup Sank(ram, fate, b)
        /\ n.captures = t.captures + CapturesOf(b, board, where)
        /\ n.torpedoesFired = t.torpedoesFired
        /\ n.destroyedTick = IF b \in destroyed' /\ t.destroyedTick = None /\ noteLosses(ram, fate)
                             THEN tick + 1 ELSE t.destroyedTick
    BY <1>2, <2>1, TallyIs
  <2>6. n.damageDealt \in Nat
    BY <2>2, <2>3, <2>5 DEF BoatTally
  <2>7. n.sank \subseteq Boat /\ n.torpedoesFired \in Nat
    BY <2>2, <2>4, <2>5 DEF BoatTally
  <2>8. n.destroyedTick \in Nat \cup {None}
    BY <1>2, <2>2, <2>5 DEF BoatTally
  <2> QED  BY <2>5, <2>6, <2>7, <2>8 DEF n
<1>5. CapturesAreCredited' /\ \A b \in Boat : tallies'[b].captures \in Nat
  <2>1. \A b \in Boat : tallies'[b].captures = tallies[b].captures + CapturesOf(b, board, where)
    BY <1>4
  <2> QED  BY <1>1, <1>2, <2>1, CreditedToThoseThere DEF WorldInv, BooksInv, CaptureInv, board
<1>6. ASSUME NEW b \in Boat
      PROVE  tallies'[b] \in BoatTally
  <2> DEFINE n == tallies'[b]
  <2>1. /\ n = [damageDealt |-> n.damageDealt, sank |-> n.sank, captures |-> n.captures,
                torpedoesFired |-> n.torpedoesFired, destroyedTick |-> n.destroyedTick]
        /\ n.damageDealt \in Nat /\ n.sank \subseteq Boat
        /\ n.torpedoesFired \in Nat /\ n.destroyedTick \in Nat \cup {None}
    BY <1>4
  <2>2. n.captures \in Nat
    BY <1>5
  <2> HIDE DEF n
  <2>3. n \in BoatTally
    BY <2>1, <2>2 DEF BoatTally
  <2> QED  BY <2>3 DEF n
<1> QED  BY <1>3, <1>5, <1>6

\* A tick keeps the books.
LEMMA BooksAfterATick ==
  ASSUME WorldInv, BooksInv, NEW thrown, NEW ram, NEW fate, NEW where,
         TheTick(tick + 1, thrown, ram, fate, where)
  PROVE  BooksInv'
<1>1. tallies' \in [Boat -> BoatTally] /\ CapturesAreCredited'
  BY TalliesAfterATick
<1>2. rammed' \in Nat
  BY RammedCounts DEF WorldInv, BooksInv
<1>3. LossInv'
  BY LossesAfterATick DEF WorldInv, BooksInv, RunsInv
<1>4. CapturesPayOnce'
  <2>1. ZonesTick(Boat \ destroyed', where) /\ destroyed' \subseteq Boat
    BY Hulls DEF TheTick, WorldInv, HullInv
  <2> QED  BY <2>1, PaidOnce DEF WorldInv, BooksInv, CaptureInv
<1>5. StandingsAreCurrent'
  BY StandingsAfterATick DEF WorldInv, BooksInv
<1> QED  BY <1>1, <1>2, <1>3, <1>4, <1>5 DEF BooksInv, CaptureInv

\* What is not a tick leaves them alone; a salvo is counted with its boat.
LEMMA BooksKept ==
  ASSUME WorldInv, BooksInv, [Next]_vars
  PROVE  BooksInv'
<1>1. ASSUME UNCHANGED <<hp, destroyed, zoneVars, teams, rammed>>, tallies' \in [Boat -> BoatTally],
             \A b \in Boat : /\ tallies'[b].sank = tallies[b].sank
                             /\ tallies'[b].captures = tallies[b].captures
                             /\ tallies'[b].destroyedTick = tallies[b].destroyedTick
      PROVE  BooksInv'
  <2>1. LossInv'
    <3>1. {tallies'[b].sank : b \in Boat} = {tallies[b].sank : b \in Boat}
      BY <1>1
    <3> QED  BY <1>1, <3>1 DEF BooksInv, LossInv, KillsAreLosses, LossesAreStamped
  <2>2. CapturesPayOnce'
    BY <1>1 DEF zoneVars, BooksInv, CaptureInv, CapturesPayOnce
  <2>3. CapturesAreCredited'
    <3> SUFFICES ASSUME NEW t \in Team
                 PROVE  /\ scores[t] <= SumOver([b \in Fleet(t) |-> tallies'[b].captures], Fleet(t))
                        /\ scores[t] = 0 => \A b \in Fleet(t) : tallies'[b].captures = 0
      BY <1>1 DEF zoneVars, CapturesAreCredited, Fleet
    <3>1. Fleet(t) \subseteq Boat
      BY DEF Fleet
    <3>2. [b \in Fleet(t) |-> tallies'[b].captures] = [b \in Fleet(t) |-> tallies[b].captures]
      BY <1>1, <3>1
    <3> QED  BY <1>1, <3>1, <3>2 DEF BooksInv, CaptureInv, CapturesAreCredited
  <2>4. StandingsAreCurrent'
    BY <1>1 DEF BooksInv, StandingsAreCurrent, standings, standingFor, survivingValue, isDamaged
  <2> QED  BY <1>1, <2>1, <2>2, <2>3, <2>4 DEF BooksInv, CaptureInv
<1>2. UNCHANGED <<hp, destroyed, zoneVars, resultVars>> => BooksInv'
  BY <1>1 DEF resultVars, BooksInv
<1>3. ASSUME NEW b \in Boat, NEW wanted \in SUBSET Tubes(b), fire(b, wanted)
      PROVE  BooksInv'
  <2> DEFINE n == Cardinality(Launching(b, wanted))
  <2>1. n \in Nat
    <3>1. Launching(b, wanted) \in SUBSET Tubes(b)
      BY DEF Launching
    <3>2. TubeCount[b] \in Nat
      BY GearAssumption
    <3>3. IsFiniteSet(Tubes(b))
      BY <3>2, FS_Interval DEF Tubes
    <3> QED  BY <3>1, <3>3, FS_Subset, FS_CardinalityType
  <2>2. /\ UNCHANGED <<hp, destroyed, zoneVars, teams, rammed>>
        /\ tallies' = [tallies EXCEPT ![b].torpedoesFired = @ + n]
    BY <1>3 DEF fire, fireTubes, launch
  <2> HIDE DEF n
  <2> QED  BY <1>1, <2>1, <2>2, TallyOfASalvo DEF BooksInv
<1>4. ASSUME NEW b \in Boat, NEW i \in Tubes(b), NEW w \in Fits[b], NEW swap \in BOOLEAN,
             reload(b, i, w, swap)
      PROVE  BooksInv'
  BY <1>2, <1>4 DEF reload, load, waterVars
<1>5. ASSUME NEW b \in Boat, dropNoisemaker(b)
      PROVE  BooksInv'
  BY <1>2, <1>5 DEF dropNoisemaker, dropGear, dropCountermeasure
<1>6. ASSUME NEW b \in Boat, NEW on \in BOOLEAN, switchSonar(b, on)
      PROVE  BooksInv'
  BY <1>2, <1>6 DEF switchSonar, gearVars, waterVars
<1>7. ASSUME NEW thrown \in BOOLEAN, Ticked(tick + 1, thrown)
      PROVE  BooksInv'
  <2>1. PICK ram \in Collisions : \E fate \in Fates(tick + 1, ram.harm, scene.early) :
               \E where \in [Boat -> scene.roam] : TheTick(tick + 1, thrown, ram, fate, where)
    BY <1>7, TickIs
  <2>2. PICK fate \in Fates(tick + 1, ram.harm, scene.early) :
               \E where \in [Boat -> scene.roam] : TheTick(tick + 1, thrown, ram, fate, where)
    BY <2>1
  <2>3. PICK where \in [Boat -> scene.roam] : TheTick(tick + 1, thrown, ram, fate, where)
    BY <2>2
  <2> QED  BY <2>3, BooksAfterATick
<1>8. Idle => BooksInv'
  BY <1>2 DEF Idle, worldVars, waterVars, gearVars
<1>9. UNCHANGED vars => BooksInv'
  BY <1>8 DEF vars, Idle
<1> QED  BY <1>3, <1>4, <1>5, <1>6, <1>7, <1>8, <1>9, StepsOfTheWorld

LEMMA BooksAtFirst ==
  ASSUME Init
  PROVE  BooksInv
<1>1. /\ InitResults /\ hp = MaxHp /\ destroyed = {} /\ scores = [t \in Team |-> 0]
      /\ nextZoneId = Cardinality(DOMAIN zones)
  BY DEF Init, InitWater, InitGear, InitBoard
<1>2. tallies \in [Boat -> BoatTally] /\ rammed \in Nat
  BY <1>1 DEF InitResults, BoatTally, EmptyTally
<1>3. \A b \in Boat : tallies[b].sank = {} /\ tallies[b].captures = 0 /\ tallies[b].destroyedTick = None
  BY <1>1 DEF InitResults, EmptyTally
<1>4. LossInv
  BY <1>1, <1>3 DEF LossInv, KillsAreLosses, LossesAreStamped
<1>5. StandingsAreCurrent
  BY <1>1 DEF InitResults, StandingsAreCurrent
<1>6. CapturesPayOnce
  <2>1. SumOver(scores, Team) = 0
    BY <1>1, FleetAssumption, SumOfNone
  <2>2. nextZoneId \in Nat
    BY WorldInvAtFirst DEF WorldInv, ZonesInv, ZonesTypeOK
  <2> QED  BY <1>1, <2>1, <2>2 DEF CapturesPayOnce
<1>7. CapturesAreCredited
  <2> SUFFICES ASSUME NEW t \in Team
               PROVE  /\ 0 <= SumOver([b \in Fleet(t) |-> tallies[b].captures], Fleet(t))
                      /\ \A b \in Fleet(t) : tallies[b].captures = 0
    BY <1>1 DEF CapturesAreCredited
  <2> DEFINE f == [b \in Fleet(t) |-> tallies[b].captures]
  <2>1. Fleet(t) \in SUBSET Boat
    BY DEF Fleet
  <2>2. IsFiniteSet(Fleet(t)) /\ \A b \in Fleet(t) : tallies[b].captures = 0
    BY <1>3, <2>1, FleetAssumption, FS_Subset
  <2>3. \A b \in Fleet(t) : f[b] = 0
    BY <2>2
  <2> HIDE DEF f
  <2>4. SumOver(f, Fleet(t)) = 0
    BY <2>2, <2>3, SumOfNone
  <2> QED  BY <2>2, <2>4 DEF f
<1> QED  BY <1>2, <1>4, <1>5, <1>6, <1>7 DEF BooksInv, CaptureInv

LEMMA BooksInvAlways == Spec => []BooksInv
<1>1. Init => BooksInv
  BY BooksAtFirst
<1>2. WorldInv /\ BooksInv /\ [Next]_vars => BooksInv'
  BY BooksKept
<1> QED  BY <1>1, <1>2, WorldInvAlways, PTL DEF Spec

---------------------------------------------------------------------------
(* The verdict.                                                            *)

\* The fleets that are not wiped out are those with a boat that is no wreck (the alive count of
\* standingFor).
LEMMA NotWipedOut ==
  ASSUME NEW points \in Harms, NEW wrecks, wrecks = {b \in Boat : points[b] = 0}
  PROVE  Team \ Wiped(standings(points)) = {t \in Team : Fleet(t) # {} => Fleet(t) \ wrecks # {}}
<1>1. ASSUME NEW t \in Team
      PROVE  t \in Wiped(standings(points)) <=> Fleet(t) # {} /\ Fleet(t) \ wrecks = {}
  <2> DEFINE alive == {b \in Fleet(t) : points[b] > 0}
  <2>1. alive = Fleet(t) \ wrecks /\ alive \in SUBSET Boat
    BY DEF Fleet, Harms
  <2>2. standings(points)[t].boatsAlive = Cardinality(alive)
    BY DEF standings, standingFor
  <2> HIDE DEF alive
  <2>3. IsFiniteSet(alive)
    BY <2>1, FleetAssumption, FS_Subset
  <2>4. Cardinality(alive) = 0 <=> alive = {}
    BY <2>3, FS_EmptySet
  <2> QED  BY <2>1, <2>2, <2>4 DEF Wiped
<1> QED  BY <1>1

\* What a mode measures a team by, and who is ahead by it.
Measure(objectives, score, standing, t) ==
  IF objectives THEN score[t] ELSE standing[t].survivingPoints

\* The leader is whoever is ahead of all the others, if anybody is (leader).
LEMMA LeaderIsAhead ==
  ASSUME NEW objectives, NEW score, NEW standing,
         \A t \in Team : Measure(objectives, score, standing, t) \in Int
  PROVE  /\ leader(objectives, score, standing) \in Team \cup {None}
         /\ \A t \in Team :
              leader(objectives, score, standing) = t
                <=> \A u \in Team \ {t} : Measure(objectives, score, standing, t)
                                            > Measure(objectives, score, standing, u)
<1> DEFINE m(t) == Measure(objectives, score, standing, t)
           front == {t \in Team : \A u \in Team \ {t} : m(t) > m(u)}
<1>1. leader(objectives, score, standing) = IF front = {} THEN None ELSE CHOOSE t \in front : TRUE
  BY DEF leader, Measure
<1>2. ASSUME NEW t \in front, NEW u \in front
      PROVE  t = u
  <2>1. m(t) \in Int /\ m(u) \in Int
    OBVIOUS
  <2> HIDE DEF m
  <2>2. CASE t # u
    <3>1. m(t) > m(u) /\ m(u) > m(t)
      BY <1>2, <2>2
    <3> QED  BY <2>1, <3>1
  <2> QED  BY <2>2
<1>3. front \subseteq Team
  OBVIOUS
<1>4. \A t \in Team : t \in front <=> \A u \in Team \ {t} : m(t) > m(u)
  OBVIOUS
<1> HIDE DEF front, m
<1>5. None \notin front
  BY <1>3, FleetAssumption
<1>6. \A t \in Team : leader(objectives, score, standing) = t <=> t \in front
  BY <1>1, <1>2, <1>3, <1>5, FleetAssumption
<1>7. leader(objectives, score, standing) \in Team \cup {None}
  BY <1>1, <1>3
<1> QED  BY <1>4, <1>6, <1>7 DEF m

\* What the world's part of a tick comes to: the verdict that the fleets, the score and the room
\* warrant, and none where nothing warrants one (decideAbandonment, decideMatch).
Just(d, score, points, wrecks, due) ==
  LET empty  == Player # {} /\ connected = {}
      afloat == {t \in Team : Fleet(t) # {} => Fleet(t) \ wrecks # {}}
      won    == {t \in Team : scene.objectives /\ score[t] >= ScoreTarget}
  IN CASE empty -> d.reason = "abandoned" /\ d.winner = None
       [] ~empty /\ afloat # Team ->
            /\ d.reason = "wipe"
            /\ IF afloat = {} THEN d.winner = None ELSE d.winner \in afloat
       [] OTHER ->
            /\ d.reason = IF won # {} THEN "score" ELSE "time"
            /\ won # {} \/ due
            /\ \A t \in Team :
                 d.winner = t
                   <=> \A u \in Team \ {t} :
                         IF scene.objectives THEN score[t] > score[u]
                         ELSE standingFor(points, t).survivingPoints
                                > standingFor(points, u).survivingPoints

NothingToDecide(score, wrecks, due) ==
  /\ ~(Player # {} /\ connected = {})
  /\ {t \in Team : Fleet(t) # {} => Fleet(t) \ wrecks # {}} = Team
  /\ {t \in Team : scene.objectives /\ score[t] >= ScoreTarget} = {}
  /\ ~due

LEMMA VerdictIs ==
  ASSUME NEW points \in Harms, NEW wrecks, wrecks = {b \in Boat : points[b] = 0},
         scores' \in [Team -> Nat], teams' = standings(points), NEW due \in BOOLEAN,
         scene \in Scenes
  PROVE  LET verdict == Verdict(scene.objectives, Player, connected, due)
         IN /\ \A d \in verdict : /\ Just(d, scores', points, wrecks, due)
                                  /\ d.winner \in Team \cup {None} /\ d.reason \in Reason
            /\ verdict = {} => NothingToDecide(scores', wrecks, due)
<1> DEFINE afloat == {t \in Team : Fleet(t) # {} => Fleet(t) \ wrecks # {}}
           won    == {t \in Team : scene.objectives /\ scores'[t] >= ScoreTarget}
           empty  == Player # {} /\ connected = {}
           verdict == Verdict(scene.objectives, Player, connected, due)
           ahead  == leader(scene.objectives, scores', teams')
           beats(t, u) == IF scene.objectives THEN scores'[t] > scores'[u]
                          ELSE standingFor(points, t).survivingPoints
                                 > standingFor(points, u).survivingPoints
<1>1. Team \ Wiped(teams') = afloat
  BY NotWipedOut
<1>2. /\ ahead \in Team \cup {None}
      /\ \A t \in Team : ahead = t <=> \A u \in Team \ {t} : beats(t, u)
  <2>1. \A t \in Team : teams'[t] = standingFor(points, t) /\ standingFor(points, t) \in Standing
    BY StandingsTyped
  <2>2. \A t \in Team : Measure(scene.objectives, scores', teams', t) \in Int
    BY <2>1 DEF Measure, Standing
  <2>3. \A t, u \in Team : beats(t, u) <=> Measure(scene.objectives, scores', teams', t)
                                             > Measure(scene.objectives, scores', teams', u)
    BY <2>1 DEF Measure
  <2> HIDE DEF beats
  <2> QED  BY <2>2, <2>3, LeaderIsAhead
<1>3. (scene.objectives /\ \E t \in Team : scores'[t] >= ScoreTarget) <=> won # {}
  OBVIOUS
<1>4. verdict = IF empty THEN {Decision(None, "abandoned")}
                ELSE IF Wiped(teams') # {}
                THEN {Decision(IF Wiped(teams') = Team THEN None
                               ELSE CHOOSE t \in Team : t \notin Wiped(teams'), "wipe")}
                ELSE IF won # {} THEN {Decision(ahead, "score")}
                ELSE IF due THEN {Decision(ahead, "time")} ELSE {}
  BY <1>3 DEF Verdict, decideAbandonment, decideMatch
<1>5. \A d : Just(d, scores', points, wrecks, due)
        <=> CASE empty -> d.reason = "abandoned" /\ d.winner = None
              [] ~empty /\ afloat # Team ->
                   /\ d.reason = "wipe"
                   /\ IF afloat = {} THEN d.winner = None ELSE d.winner \in afloat
              [] OTHER ->
                   /\ d.reason = IF won # {} THEN "score" ELSE "time"
                   /\ won # {} \/ due
                   /\ \A t \in Team : d.winner = t <=> \A u \in Team \ {t} : beats(t, u)
  BY DEF Just
<1>6. NothingToDecide(scores', wrecks, due) <=> ~empty /\ afloat = Team /\ won = {} /\ ~due
  BY DEF NothingToDecide
<1>7. Wiped(teams') \subseteq Team /\ afloat \subseteq Team
  BY DEF Wiped
<1> HIDE DEF afloat, won, empty, verdict, ahead, beats
<1>8. \A w, r : Decision(w, r).winner = w /\ Decision(w, r).reason = r
  BY DEF Decision
<1>9. CASE empty
  BY <1>4, <1>5, <1>6, <1>8, <1>9 DEF Reason, verdict, empty
<1>10. CASE ~empty /\ afloat # Team
  <2>1. Wiped(teams') # {} /\ (Wiped(teams') = Team <=> afloat = {})
    BY <1>1, <1>7, <1>10
  <2> DEFINE w == IF Wiped(teams') = Team THEN None
                  ELSE CHOOSE t \in Team : t \notin Wiped(teams')
  <2>2. IF afloat = {} THEN w = None ELSE w \in afloat
    BY <1>1, <1>7, <2>1
  <2>3. verdict = {Decision(w, "wipe")}
    BY <1>4, <1>10, <2>1
  <2> HIDE DEF w
  <2>4. w \in Team \cup {None}
    BY <1>7, <2>2
  <2>5. \A d \in verdict : d.winner = w /\ d.reason = "wipe"
    BY <1>8, <2>3
  <2>6. \A d \in verdict : Just(d, scores', points, wrecks, due)
    BY <1>5, <1>10, <2>2, <2>5
  <2> QED  BY <2>3, <2>4, <2>5, <2>6 DEF Reason, verdict
<1>11. CASE ~empty /\ afloat = Team
  <2>1. Wiped(teams') = {}
    BY <1>1, <1>7, <1>11
  <2>2. verdict = IF won # {} THEN {Decision(ahead, "score")}
                  ELSE IF due THEN {Decision(ahead, "time")} ELSE {}
    BY <1>4, <1>11, <2>1
  <2>3. \A d \in verdict : /\ d.winner = ahead /\ (won # {} \/ due)
                           /\ d.reason = IF won # {} THEN "score" ELSE "time"
    BY <1>8, <2>2
  <2>4. \A d \in verdict : Just(d, scores', points, wrecks, due)
    BY <1>2, <1>5, <1>11, <2>3
  <2>5. verdict = {} => NothingToDecide(scores', wrecks, due)
    BY <1>6, <1>11, <2>2
  <2> QED  BY <1>2, <2>3, <2>4, <2>5 DEF Reason, verdict
<1> QED  BY <1>9, <1>10, <1>11

\* The clock's own count, and how a match ended: one that goes on past its time does so only on
\* the ticks whose solve threw.
Ending == [winner : Team \cup {None}, reason : Reason, tick : Nat]

ClockInv ==
  /\ used \in [Spending -> Nat] /\ used.faults <= scene.faults
  /\ beat \in {0, 1}
  /\ results # None => results \in Ending
  /\ tick <= scene.duration + used.faults
  /\ results = None => tick < scene.duration + used.faults

\* What is spent is counted, and no more than there is.
LEMMA Spent ==
  ASSUME used \in [Spending -> Nat], scene \in Scenes, used.faults <= scene.faults,
         NEW what \in Spending, MaySpend(what), Spend(what)
  PROVE  /\ used' \in [Spending -> Nat] /\ used'.faults <= scene.faults
         /\ used'.faults = IF what = "faults" THEN used.faults + 1 ELSE used.faults
<1>1. used[what] < scene[what] /\ used[what] \in Nat /\ used.faults \in Nat /\ scene.faults \in Nat
  BY MatchAssumption DEF MaySpend, Scene, Spending
<1>2. used' \in [Spending -> Nat]
  BY <1>1 DEF Spend
<1>3. used'.faults = IF what = "faults" THEN used.faults + 1 ELSE used.faults
  BY <1>1 DEF Spend, Spending
<1> QED  BY <1>1, <1>2, <1>3

\* A step of the clock while the match is on: its tick, with what threw in it.
LEMMA StepIs ==
  ASSUME step, results = None
  PROVE  \E fault \in {"none", "solve", "publish"} :
           /\ fault # "none" => MaySpend("faults") /\ Spend("faults")
           /\ fault = "none" => used' = used
           /\ tick' = tick + 1 /\ beat' = 1 - beat /\ scene' = scene
           /\ Ticked(tick + 1, fault = "solve")
<1>1. PICK fault \in {"none"} \cup (IF MaySpend("faults") THEN {"solve", "publish"} ELSE {}) :
        /\ IF fault = "none" THEN UNCHANGED used ELSE Spend("faults")
        /\ Ticked(tick + 1, fault = "solve")
  BY DEF step
<1>2. fault \in {"none", "solve", "publish"} /\ (fault # "none" => MaySpend("faults"))
  OBVIOUS
<1>3. tick' = tick + 1 /\ beat' = 1 - beat /\ scene' = scene
  BY DEF step
<1> QED  BY <1>1, <1>2, <1>3

\* How a tick leaves the verdict: it is just, and there is one where there should be, unless the
\* solve threw.
LEMMA ResultsAfterATick ==
  ASSUME WorldInv, BooksInv, NEW thrown \in BOOLEAN, Ticked(tick + 1, thrown),
         WorldInv', BooksInv'
  PROVE  LET due == tick + 1 >= scene.duration
         IN \/ results' = None /\ (thrown \/ NothingToDecide(scores', destroyed', due))
            \/ /\ results' \in Ending /\ results'.tick = tick + 1
               /\ Just(results', scores', hp', destroyed', due)
<1> DEFINE due == tick + 1 >= scene.duration
           verdict == Verdict(scene.objectives, Player, connected, due)
<1>1. /\ hp' \in Harms /\ destroyed' = {b \in Boat : hp'[b] = 0}
      /\ teams' = standings(hp') /\ scores' \in [Team -> Nat] /\ tick + 1 \in Nat
      /\ scene \in Scenes
  BY DEF WorldInv, BooksInv, HullInv, Harms, StandingsAreCurrent, ZonesInv, ZonesTypeOK, RunsInv
<1>2. due \in BOOLEAN
  OBVIOUS
<1>3. IF thrown \/ verdict = {} THEN results' = None
      ELSE \E d \in verdict :
             results' = [winner |-> d.winner, reason |-> d.reason, tick |-> tick + 1]
  BY DEF Ticked
<1> HIDE DEF due
<1>4. /\ \A d \in verdict : /\ Just(d, scores', hp', destroyed', due)
                            /\ d.winner \in Team \cup {None} /\ d.reason \in Reason
      /\ verdict = {} => NothingToDecide(scores', destroyed', due)
  BY <1>1, <1>2, VerdictIs
<1> HIDE DEF verdict
<1>5. CASE thrown \/ verdict = {}
  BY <1>3, <1>4, <1>5 DEF due
<1>6. CASE ~(thrown \/ verdict = {})
  <2>1. PICK d \in verdict :
          results' = [winner |-> d.winner, reason |-> d.reason, tick |-> tick + 1]
    BY <1>3, <1>6
  <2>2. Just(d, scores', hp', destroyed', due) /\ results' \in Ending
    BY <1>1, <1>4, <2>1 DEF Ending
  <2>3. results'.winner = d.winner /\ results'.reason = d.reason /\ results'.tick = tick + 1
    BY <2>1
  <2>4. Just(results', scores', hp', destroyed', due)
    BY <2>2, <2>3 DEF Just
  <2> QED  BY <2>2, <2>3, <2>4 DEF due
<1> QED  BY <1>5, <1>6

LEMMA ClockInvKept ==
  ASSUME WorldInv, BooksInv, ClockInv, WorldInv', BooksInv', [Next]_vars
  PROVE  ClockInv'
<1>0. /\ scene.duration \in Nat /\ scene.faults \in Nat /\ used.faults \in Nat /\ tick \in Nat
      /\ scene \in Scenes
  BY MatchAssumption DEF WorldInv, RunsInv, ClockInv, Scene, Spending
<1>1. ASSUME UNCHANGED <<results, tick, scene>>, used' \in [Spending -> Nat],
             used'.faults = used.faults, beat' \in {0, 1}
      PROVE  ClockInv'
  BY <1>1 DEF ClockInv
<1>2. ASSUME NEW what \in Spending \ {"faults"}, MaySpend(what), Spend(what),
             UNCHANGED <<results, tick, beat, scene>>
      PROVE  ClockInv'
  BY <1>0, <1>1, <1>2, Spent DEF ClockInv
<1>3. CASE UNCHANGED <<results, tick, beat, scene, used>>
  BY <1>1, <1>3 DEF ClockInv
<1>4. CASE step /\ results # None
  BY <1>1, <1>4 DEF step, worldVars, resultVars, ClockInv
<1>5. CASE step /\ results = None
  <2>1. PICK fault \in {"none", "solve", "publish"} :
           /\ fault # "none" => MaySpend("faults") /\ Spend("faults")
           /\ fault = "none" => used' = used
           /\ tick' = tick + 1 /\ beat' = 1 - beat /\ scene' = scene
           /\ Ticked(tick + 1, fault = "solve")
    BY <1>5, StepIs
  <2>2. /\ used' \in [Spending -> Nat] /\ used'.faults <= scene.faults
        /\ used'.faults = IF fault = "none" THEN used.faults ELSE used.faults + 1
    <3>1. CASE fault = "none"
      BY <2>1, <3>1 DEF ClockInv
    <3>2. CASE fault # "none"
      <4>1. "faults" \in Spending
        BY DEF Spending
      <4> QED  BY <1>0, <2>1, <3>2, <4>1, Spent DEF ClockInv
    <3> QED  BY <3>1, <3>2
  <2>3. beat' \in {0, 1}
    BY <2>1 DEF ClockInv
  <2>4. \/ results' = None /\ (fault = "solve" \/ ~(tick + 1 >= scene.duration))
        \/ results' \in Ending
    <3>1. (fault = "solve") \in BOOLEAN
      OBVIOUS
    <3> QED  BY <2>1, <3>1, ResultsAfterATick DEF NothingToDecide
  <2>5. tick + 1 <= scene.duration + used'.faults
    BY <1>0, <1>5, <2>2 DEF ClockInv
  <2>6. results' = None => tick + 1 < scene.duration + used'.faults
    <3>1. CASE fault = "none"
      BY <1>0, <2>2, <2>4, <3>1, ResultsAssumption DEF Ending
    <3>2. CASE fault # "none"
      BY <1>0, <1>5, <2>2, <3>2 DEF ClockInv
    <3> QED  BY <3>1, <3>2
  <2> QED  BY <2>1, <2>2, <2>3, <2>4, <2>5, <2>6 DEF ClockInv
<1>6. ASSUME NEW b \in Boat, NEW wanted \in SUBSET Tubes(b), fire(b, wanted)
      PROVE  ClockInv'
  BY <1>3, <1>6 DEF fire
<1>7. ASSUME NEW b \in Boat, NEW i \in Tubes(b), NEW w \in Fits[b], NEW swap \in BOOLEAN,
             reload(b, i, w, swap)
      PROVE  ClockInv'
  BY <1>2, <1>7 DEF reload, resultVars, Spending
<1>8. ASSUME NEW b \in Boat, dropNoisemaker(b)
      PROVE  ClockInv'
  BY <1>2, <1>8 DEF dropNoisemaker, resultVars, Spending
<1>9. ASSUME NEW b \in Boat, NEW on \in BOOLEAN, switchSonar(b, on)
      PROVE  ClockInv'
  BY <1>2, <1>9 DEF switchSonar, resultVars, Spending
<1>10. ASSUME NEW p \in Player, playerMoves(p)
       PROVE  ClockInv'
  BY <1>2, <1>10 DEF playerMoves, moving, worldVars, resultVars, Spending
<1>11. ASSUME NEW p \in Player, playerActs(p)
       PROVE  ClockInv'
  BY <1>3, <1>11 DEF playerActs, worldVars, resultVars
<1>12. UNCHANGED vars => ClockInv'
  BY <1>3 DEF vars, worldVars, resultVars
<1> QED  BY <1>4, <1>5, <1>6, <1>7, <1>8, <1>9, <1>10, <1>11, <1>12 DEF Next

LEMMA ClockInvAlways == Spec => []ClockInv
<1>1. Init => ClockInv
  <2> SUFFICES ASSUME Init
               PROVE  ClockInv
    OBVIOUS
  <2>1. scene.duration \in Nat /\ scene.duration > 0 /\ scene.faults \in Nat
    BY MatchAssumption DEF Init, Scene
  <2>2. /\ used = [s \in Spending |-> 0] /\ tick = 0 /\ beat = 0 /\ results = None
    BY DEF Init, InitResults
  <2>3. used.faults = 0
    BY <2>2 DEF Spending
  <2> QED  BY <2>1, <2>2, <2>3 DEF ClockInv
<1>2. WorldInv /\ BooksInv /\ ClockInv /\ WorldInv' /\ BooksInv' /\ [Next]_vars => ClockInv'
  BY ClockInvKept
<1> QED  BY <1>1, <1>2, WorldInvAlways, BooksInvAlways, PTL DEF Spec

\* The verdict of a match is the one the fleets, the score, the clock and the room warrant, on the
\* tick that warrants it: a wipe before the score, the score before the clock, and an empty room
\* before them all (decideAbandonment, decideMatch), though the standings it is read off are not
\* always recounted, and a solve that throws puts it off.
THEOREM TheVerdictIsJust == Spec => VerdictIsJust
<1> DEFINE ended  == results = None /\ results' # None
           goesOn == results' = None /\ tick' # tick /\ used'.faults = used.faults
           due    == tick + 1 >= scene.duration
           OnTime == /\ goesOn => tick' = tick + 1 /\ NothingToDecide(scores', destroyed', due)
                     /\ ended => tick' = tick + 1 /\ Just(results', scores', hp', destroyed', due)
<1>1. ASSUME WorldInv, BooksInv, ClockInv, WorldInv', BooksInv', [Next]_vars
      PROVE  OnTime
  <2>1. UNCHANGED <<results, tick>> => OnTime
    OBVIOUS
  <2>2. CASE step /\ results # None
    BY <2>1, <2>2 DEF step, worldVars, resultVars
  <2>3. CASE step /\ results = None
    <3>1. PICK fault \in {"none", "solve", "publish"} :
             /\ fault # "none" => MaySpend("faults") /\ Spend("faults")
             /\ fault = "none" => used' = used
             /\ tick' = tick + 1 /\ beat' = 1 - beat /\ scene' = scene
             /\ Ticked(tick + 1, fault = "solve")
      BY <2>3, StepIs
    <3>2. (fault = "solve") \in BOOLEAN
      OBVIOUS
    <3>3. \/ results' = None /\ (fault = "solve" \/ NothingToDecide(scores', destroyed', due))
          \/ results' \in Ending /\ Just(results', scores', hp', destroyed', due)
      BY <1>1, <3>1, <3>2, ResultsAfterATick
    <3>4. results' \in Ending => results' # None
      BY ResultsAssumption DEF Ending
    <3>5. fault # "none" => used'.faults # used.faults
      <4>1. used.faults \in Nat /\ "faults" \in Spending /\ scene \in Scenes
        BY <1>1 DEF ClockInv, Spending, WorldInv
      <4> QED  BY <1>1, <3>1, <4>1, Spent DEF ClockInv
    <3> HIDE DEF due
    <3> QED  BY <3>1, <3>3, <3>4, <3>5
  <2>4. ASSUME NEW b \in Boat, NEW wanted \in SUBSET Tubes(b), fire(b, wanted)
        PROVE  OnTime
    BY <2>1, <2>4 DEF fire
  <2>5. ASSUME NEW b \in Boat, NEW i \in Tubes(b), NEW w \in Fits[b], NEW swap \in BOOLEAN,
               reload(b, i, w, swap)
        PROVE  OnTime
    BY <2>1, <2>5 DEF reload, resultVars
  <2>6. ASSUME NEW b \in Boat, dropNoisemaker(b)
        PROVE  OnTime
    BY <2>1, <2>6 DEF dropNoisemaker, resultVars
  <2>7. ASSUME NEW b \in Boat, NEW on \in BOOLEAN, switchSonar(b, on)
        PROVE  OnTime
    BY <2>1, <2>7 DEF switchSonar, resultVars
  <2>8. ASSUME NEW p \in Player, playerMoves(p) \/ playerActs(p)
        PROVE  OnTime
    BY <2>1, <2>8 DEF playerMoves, playerActs, moving, worldVars, resultVars
  <2>9. UNCHANGED vars => OnTime
    BY <2>1 DEF vars, worldVars, resultVars
  <2> HIDE DEF OnTime
  <2> QED  BY <1>1, <2>2, <2>3, <2>4, <2>5, <2>6, <2>7, <2>8, <2>9 DEF Next
<1>2. ASSUME WorldInv, OnTime
      PROVE  JustlyDecided
  <2>1. scene.duration \in Nat /\ tick + 1 \in Nat
    BY <1>2, MatchAssumption DEF WorldInv, RunsInv, Scene
  <2>2. tick' = tick + 1 => (due <=> tick' >= scene.duration)
                            /\ (~due => tick' < scene.duration)
    BY <2>1
  <2> HIDE DEF due
  <2>3. goesOn => ~(Player # {} /\ connected = {})
                  /\ {t \in Team : Fleet(t) # {} => Fleet(t) \ destroyed' # {}} = Team
                  /\ {t \in Team : scene.objectives /\ scores'[t] >= ScoreTarget} = {}
                  /\ tick' < scene.duration
    BY <1>2, <2>2 DEF NothingToDecide
  <2>4. ended => Just(results', scores', hp', destroyed', due) /\ (due => tick' >= scene.duration)
    BY <1>2, <2>2
  <2> QED  BY <2>3, <2>4 DEF Just, JustlyDecided, goesOn, ended
<1>3. WorldInv /\ BooksInv /\ ClockInv /\ WorldInv' /\ BooksInv' /\ [Next]_vars => JustlyDecided
  BY <1>1, <1>2
<1> QED  BY <1>3, WorldInvAlways, BooksInvAlways, ClockInvAlways, PTL DEF Spec, VerdictIsJust

---------------------------------------------------------------------------
(* Types.                                                                  *)

\* What a team is shown, as far as its types go.
ShownInv ==
  /\ activeSonar \subseteq Boat
  /\ exposed \in [Team -> SUBSET (1 .. nextEntityId - 1)]
  /\ \A t \in Team : /\ \A e \in DOMAIN contacts[t] : contacts[t][e] \in Contact
                     /\ \A a \in alerts[t] : a \in Alert

\* Numbers are given out upwards (launch, dropCountermeasure).
LEMMA NumbersGoUp ==
  ASSUME WaterInv, NEW b \in Boat,
         \/ \E wanted \in SUBSET Tubes(b) :
              launch(b, [i \in Launching(b, wanted) |-> tubes[b][i].weapon], tick)
         \/ dropCountermeasure(b, tick)
  PROVE  nextEntityId' \in Nat /\ nextEntityId <= nextEntityId'
<1>1. ASSUME NEW wanted \in SUBSET Tubes(b),
             launch(b, [i \in Launching(b, wanted) |-> tubes[b][i].weapon], tick)
      PROVE  nextEntityId' \in Nat /\ nextEntityId <= nextEntityId'
  <2> DEFINE loads == [i \in Launching(b, wanted) |-> tubes[b][i].weapon]
  <2>1. DOMAIN loads \in SUBSET Tubes(b) /\ TubeCount[b] \in Nat
    BY GearAssumption DEF Launching
  <2>2. nextEntityId' = nextEntityId + Cardinality(DOMAIN loads)
    <3>1. launch(b, loads, tick)
      BY <1>1
    <3> QED  BY <3>1 DEF launch
  <2> HIDE DEF loads
  <2>3. Cardinality(DOMAIN loads) \in Nat
    <3>1. IsFiniteSet(Tubes(b))
      BY <2>1, FS_Interval DEF Tubes
    <3> QED  BY <2>1, <3>1, FS_Subset, FS_CardinalityType
  <2> QED  BY <2>2, <2>3 DEF WaterInv
<1>2. ASSUME dropCountermeasure(b, tick)
      PROVE  nextEntityId' \in Nat /\ nextEntityId <= nextEntityId'
  BY <1>2 DEF dropCountermeasure, WaterInv
<1> QED  BY <1>1, <1>2

\* What a tick does to what a team is shown.
LEMMA ShownAfterATick ==
  ASSUME ShownInv, WaterInv', nextEntityId' = nextEntityId, lastPing' \in [Boat -> Nat],
         NEW now \in Nat, NEW listening, NEW thrown, VisionTick(now, listening, thrown)
  PROVE  ShownInv'
<1> DEFINE books == [t \in Team |-> drop(contacts[t], Ended)]
<1>1. \A t \in Team : \A e \in DOMAIN books[t] : books[t][e] \in Contact
  BY DEF ShownInv, drop
<1>2. activeSonar' \subseteq Boat
  BY Zenon DEF VisionTick, ShownInv
<1> HIDE DEF books
<1>3. CASE contacts' = books /\ UNCHANGED <<exposed, alerts>>
  BY <1>1, <1>2, <1>3 DEF ShownInv
<1>4. CASE solve(now, books, listening)
  <2>0. PICK heard \in SUBSET UNION {Confirmable(t) : t \in listening},
             caught \in SUBSET UNION {Strippable(t, now) : t \in Team},
             lit \in SUBSET UNION {Pulses(t, now) : t \in Team} :
          /\ exposed' = [t \in Team |-> classifyDecoys(t, caught \cap Strippable(t, now))]
          /\ \E loud \in SUBSET (heard \ Boat) :
               contacts' = [t \in Team |-> observe(t, books[t], heard \cap Confirmable(t), loud)]
          /\ alerts' = [t \in Team |-> hearPings(t, now, lit)]
    BY <1>4, Zenon DEF solve
  <2>1. /\ exposed' = [t \in Team |-> classifyDecoys(t, caught \cap Strippable(t, now))]
        /\ alerts' = [t \in Team |-> hearPings(t, now, lit)]
    BY <2>0
  <2>2. PICK loud :
          contacts' = [t \in Team |-> observe(t, books[t], heard \cap Confirmable(t), loud)]
    BY <2>0
  <2>3. ASSUME NEW t \in Team
        PROVE  exposed'[t] \in SUBSET (1 .. nextEntityId' - 1)
    <3>1. Strippable(t, now) \subseteq 1 .. nextEntityId' - 1
      BY DEF Strippable, WaterInv, Live, InWater
    <3>2. exposed'[t] = exposed[t] \cup (caught \cap Strippable(t, now))
      BY <2>1 DEF classifyDecoys
    <3> QED  BY <3>1, <3>2 DEF ShownInv
  <2>4. ASSUME NEW t \in Team, NEW e \in DOMAIN contacts'[t]
        PROVE  contacts'[t][e] \in Contact
    <3>1. contacts'[t] = observe(t, books[t], heard \cap Confirmable(t), loud)
      BY <2>2
    <3>2. \/ e \in DOMAIN books[t] /\ contacts'[t][e] = books[t][e]
          \/ contacts'[t][e] = confirm(t, books[t], e, e \in loud)
      BY <2>4, <3>1 DEF observe
    <3>3. confirm(t, books[t], e, e \in loud) \in Contact
      BY DEF confirm, sightingFor, Contact
    <3> QED  BY <1>1, <3>2, <3>3
  <2>5. ASSUME NEW t \in Team, NEW a \in alerts'[t]
        PROVE  a \in Alert
    <3>1. alerts'[t] = hearPings(t, now, lit)
      BY <2>1
    <3>2. CASE a \in alerts[t]
      BY <3>2 DEF ShownInv
    <3>3. CASE \E b \in Pulses(t, now) \cap lit : a = [tick |-> lastPing'[b], by |-> b, at |-> now]
      BY <3>3 DEF Pulses, Alert
    <3> QED  BY <2>5, <3>1, <3>2, <3>3 DEF hearPings
  <2>6. exposed' = [t \in Team |-> exposed'[t]]
    BY <2>1
  <2> QED  BY <1>2, <2>3, <2>4, <2>5, <2>6 DEF ShownInv
<1> QED  BY <1>3, <1>4, Zenon DEF VisionTick, books

LEMMA ShownInvKept ==
  ASSUME WorldInv, ScopeInv, ShownInv, WorldInv', ScopeInv', [Next]_vars
  PROVE  ShownInv'
<1>1. ASSUME nextEntityId' \in Nat, nextEntityId <= nextEntityId', activeSonar' \subseteq Boat,
             UNCHANGED <<exposed, contacts, alerts>>
      PROVE  ShownInv'
  <2>1. nextEntityId \in Nat
    BY DEF ScopeInv
  <2>2. \A i \in 1 .. nextEntityId - 1 : i \in 1 .. nextEntityId' - 1
    <3>1. \A m, n \in Nat : m <= n => \A i \in 1 .. m - 1 : i \in 1 .. n - 1
      OBVIOUS
    <3> QED  BY <1>1, <2>1, <3>1
  <2>3. ASSUME NEW t \in Team
        PROVE  exposed[t] \in SUBSET (1 .. nextEntityId' - 1)
    <3>1. exposed[t] \in SUBSET (1 .. nextEntityId - 1)
      BY DEF ShownInv
    <3> QED  BY <2>2, <3>1
  <2>4. exposed \in [Team -> SUBSET (1 .. nextEntityId' - 1)]
    BY <2>3 DEF ShownInv
  <2> QED  BY <1>1, <2>4 DEF ShownInv
<1>2. UNCHANGED <<nextEntityId, visionVars>> => ShownInv'
  BY DEF visionVars, ShownInv
<1>3. ASSUME NEW b \in Boat, NEW wanted \in SUBSET Tubes(b), fire(b, wanted)
      PROVE  ShownInv'
  BY <1>1, <1>3, NumbersGoUp DEF fire, visionVars, WorldInv, ShownInv
<1>4. ASSUME NEW b \in Boat, NEW i \in Tubes(b), NEW w \in Fits[b], NEW swap \in BOOLEAN,
             reload(b, i, w, swap)
      PROVE  ShownInv'
  BY <1>2, <1>4 DEF reload, waterVars
<1>5. ASSUME NEW b \in Boat, dropNoisemaker(b)
      PROVE  ShownInv'
  BY <1>1, <1>5, NumbersGoUp DEF dropNoisemaker, visionVars, WorldInv, ShownInv
<1>6. ASSUME NEW b \in Boat, NEW on \in BOOLEAN, switchSonar(b, on)
      PROVE  ShownInv'
  <2>1. activeSonar' \subseteq Boat
    BY <1>6 DEF switchSonar, setActiveSonar, ShownInv
  <2> QED  BY <1>1, <1>6, <2>1 DEF switchSonar, setActiveSonar, waterVars, ScopeInv
<1>7. ASSUME NEW thrown \in BOOLEAN, Ticked(tick + 1, thrown)
      PROVE  ShownInv'
  <2>1. PICK ram \in Collisions : \E fate \in Fates(tick + 1, ram.harm, scene.early) :
               \E where \in [Boat -> scene.roam] : TheTick(tick + 1, thrown, ram, fate, where)
    BY <1>7, TickIs
  <2>2. PICK fate \in Fates(tick + 1, ram.harm, scene.early) :
               \E where \in [Boat -> scene.roam] : TheTick(tick + 1, thrown, ram, fate, where)
    BY <2>1
  <2>3. PICK where \in [Boat -> scene.roam] : TheTick(tick + 1, thrown, ram, fate, where)
    BY <2>2
  <2>4. nextEntityId' = nextEntityId
    BY <2>3, WaterAfterATick DEF WorldInv
  <2>5. VisionTick(tick + 1, scene.sonar, thrown) /\ tick + 1 \in Nat
    BY <2>3 DEF TheTick, WorldInv, RunsInv
  <2> QED  BY <2>4, <2>5, ShownAfterATick DEF WorldInv, ScopeInv
<1>8. Idle \/ UNCHANGED vars => ShownInv'
  BY <1>2 DEF Idle, vars, worldVars, waterVars
<1> QED  BY <1>3, <1>4, <1>5, <1>6, <1>7, <1>8, StepsOfTheWorld

LEMMA ShownInvAlways == Spec => []ShownInv
<1>1. Init => ShownInv
  BY DEF Init, InitVision, NoContacts, ShownInv
<1>2. WorldInv /\ ScopeInv /\ ShownInv /\ WorldInv' /\ ScopeInv' /\ [Next]_vars => ShownInv'
  BY ShownInvKept
<1> QED  BY <1>1, <1>2, WorldInvAlways, ScopeInvAlways, PTL DEF Spec

\* Who is on line, and what is on its way from them.
Ask == {"leave", "rejoin"}
AskedInv == sockets \subseteq Player /\ requests \in [Player -> Seq(Ask)]

\* A player's own moves, one at a time.
LEMMA PlayerAsks ==
  ASSUME AskedInv, NEW p \in Player,
         \/ \E fresh \in BOOLEAN : attach(p, fresh)
         \/ detach(p) \/ pressLeave(p) \/ pressRejoin(p) \/ departed(p) \/ rejoin(p) \/ receive(p)
  PROVE  AskedInv'
<1>1. ASSUME NEW s \in Seq(Ask), requests' = [requests EXCEPT ![p] = s],
             sockets' \subseteq sockets \cup {p}
      PROVE  AskedInv'
  BY <1>1 DEF AskedInv
<1>2. requests[p] \in Seq(Ask) /\ <<>> \in Seq(Ask)
  BY DEF AskedInv
<1>3. CASE (\E fresh \in BOOLEAN : attach(p, fresh)) \/ detach(p)
  <2>1. requests' = [requests EXCEPT ![p] = <<>>] /\ sockets' \subseteq sockets \cup {p}
    BY <1>3 DEF attach, detach
  <2> QED  BY <1>1, <1>2, <2>1
<1>4. CASE pressLeave(p)
  <2>1. Append(requests[p], "leave") \in Seq(Ask)
    BY <1>2 DEF Ask
  <2> QED  BY <1>1, <1>4, <2>1 DEF pressLeave
<1>5. CASE pressRejoin(p)
  <2>1. Append(requests[p], "rejoin") \in Seq(Ask)
    BY <1>2 DEF Ask
  <2> QED  BY <1>1, <1>5, <2>1 DEF pressRejoin
<1>6. CASE departed(p) \/ rejoin(p)
  <2>1. /\ requests[p] # <<>> /\ requests' = [requests EXCEPT ![p] = Tail(requests[p])]
        /\ sockets' = sockets
    BY <1>6 DEF departed, rejoin, Request
  <2>2. Tail(requests[p]) \in Seq(Ask)
    BY <1>2, <2>1
  <2> QED  BY <1>1, <2>1, <2>2
<1>7. CASE receive(p)
  BY <1>7 DEF receive, AskedInv
<1> QED  BY <1>3, <1>4, <1>5, <1>6, <1>7

LEMMA AskedInvAlways == Spec => []AskedInv
<1>1. Init => AskedInv
  <2> SUFFICES ASSUME Init
               PROVE  AskedInv
    OBVIOUS
  <2>1. scene.movers \subseteq Player
    BY MatchAssumption DEF Init, Scene
  <2>2. PICK there \in SUBSET scene.movers : InitDelivery(there)
    BY DEF Init
  <2> QED  BY <2>1, <2>2 DEF InitDelivery, AskedInv
<1>2. AskedInv /\ [Next]_vars => AskedInv'
  <2> SUFFICES ASSUME AskedInv, [Next]_vars
               PROVE  AskedInv'
    OBVIOUS
  <2>1. UNCHANGED <<sockets, requests>> => AskedInv'
    BY DEF AskedInv
  <2>2. ASSUME NEW b \in Boat
        PROVE  /\ \A wanted \in SUBSET Tubes(b) : fire(b, wanted) => UNCHANGED <<sockets, requests>>
               /\ \A i \in Tubes(b), w \in Fits[b], swap \in BOOLEAN :
                    reload(b, i, w, swap) => UNCHANGED <<sockets, requests>>
               /\ dropNoisemaker(b) => UNCHANGED <<sockets, requests>>
               /\ \A on \in BOOLEAN : switchSonar(b, on) => UNCHANGED <<sockets, requests>>
    BY DEF fire, reload, dropNoisemaker, switchSonar, deliveryVars
  <2>3. step => UNCHANGED <<sockets, requests>>
    <3>1. \A due, thrown, over : ClockSends(due, thrown, over) => UNCHANGED <<sockets, requests>>
      BY Zenon DEF ClockSends
    <3> QED  BY <3>1, Zenon DEF step
  <2>4. ASSUME NEW p \in Player, playerMoves(p) \/ playerActs(p)
        PROVE  AskedInv'
    <3>1. \/ \E fresh \in BOOLEAN : attach(p, fresh)
          \/ detach(p) \/ pressLeave(p) \/ pressRejoin(p) \/ departed(p) \/ rejoin(p) \/ receive(p)
      BY <2>4 DEF playerMoves, playerActs
    <3> QED  BY <3>1, PlayerAsks
  <2>5. UNCHANGED vars => AskedInv'
    BY <2>1 DEF vars, deliveryVars
  <2> QED  BY <2>1, <2>2, <2>3, <2>4, <2>5 DEF Next
<1> QED  BY <1>1, <1>2, PTL DEF Spec

\* Everything a match keeps is of its type, in every part of it at once: no weapon has a number
\* that is still to be given out, a boat is a wreck exactly when it has no points left, and the
\* clock goes on past the match's time only as often as a tick threw.
THEOREM MatchIsTyped == Spec => []MatchTypeOK
<1>1. /\ WorldInv /\ BooksInv /\ ClockInv /\ ScopeInv /\ ShownInv /\ AskedInv /\ TellInv
      /\ connected \subseteq Player
      => MatchTypeOK
  <2> SUFFICES ASSUME WorldInv, BooksInv, ClockInv, ScopeInv, ShownInv, AskedInv, TellInv,
                      connected \subseteq Player
               PROVE  MatchTypeOK
    OBVIOUS
  <2>1. GearTypeOK /\ TubesInv
    BY DEF WorldInv, GearInv
  <2>2. WaterTypeOK
    <3> SUFFICES ASSUME NEW i \in InWater
                 PROVE  /\ i \in 1 .. nextEntityId - 1
                        /\ torpedoes[i].load \in TubeLoad \cup {Noisemaker}
                        /\ torpedoes[i].firedBy \in Boat /\ torpedoes[i].phase \in TorpedoPhase
                        /\ torpedoes[i].firedTick \in Nat /\ torpedoes[i].alignedTick \in Nat
                        /\ torpedoes[i].bang \in Nat \cup {None}
      BY DEF WaterTypeOK, WorldInv, HullInv
    <3>1. i \in 1 .. nextEntityId - 1 /\ WellMade(torpedoes[i])
      BY DEF WorldInv, WaterInv
    <3>2. OnTheClock(torpedoes[i], tick)
      BY DEF WorldInv, RunsInv
    <3> QED  BY <3>1, <3>2 DEF WellMade, OnTheClock
  <2>3. ZonesTypeOK
    BY DEF WorldInv, ZonesInv
  <2>4. ResultsTypeOK
    <3>1. teams \in [Team -> Standing]
      <4>1. hp \in Harms
        BY DEF WorldInv, HullInv, Harms
      <4> QED  BY <4>1, StandingsTyped DEF BooksInv, StandingsAreCurrent
    <3>2. results # None => results.reason \in Reason
      BY DEF ClockInv, Ending
    <3> QED  BY <3>1, <3>2 DEF ResultsTypeOK, BooksInv, Standing
  <2>5. VisionTypeOK
    BY DEF VisionTypeOK, ShownInv, ScopeInv
  <2>6. DeliveryTypeOK
    <3>1. /\ chart \in [Team -> Nat]
          /\ chartSeen \in [Player -> Nat] /\ viewSeq \in [Player -> Nat]
          /\ \A p \in Player : pages[p] \in Page
      BY DEF TellInv, DeliveryTyped
    <3>2. ASSUME NEW p \in Player, NEW i \in DOMAIN requests[p]
          PROVE  requests[p][i] \in {"leave", "rejoin"}
      <4>1. requests[p] \in Seq(Ask)
        BY DEF AskedInv
      <4> QED  BY <4>1 DEF Ask
    <3> QED  BY <3>1, <3>2 DEF DeliveryTypeOK, AskedInv
  <2>7. tick \in 0 .. scene.duration + scene.faults /\ beat \in {0, 1}
    <3>1. /\ scene.duration \in Nat /\ scene.faults \in Nat /\ used.faults \in Nat /\ tick \in Nat
      BY MatchAssumption DEF WorldInv, RunsInv, ClockInv, Scene, Spending
    <3>2. tick <= scene.duration + used.faults /\ used.faults <= scene.faults /\ beat \in {0, 1}
      BY DEF ClockInv
    <3> QED  BY <3>1, <3>2
  <2>8. \A b \in Boat : b \in destroyed <=> hp[b] = 0
    BY DEF WorldInv, HullInv
  <2> QED  BY <2>1, <2>2, <2>3, <2>4, <2>5, <2>6, <2>7, <2>8 DEF MatchTypeOK
<1> QED  BY <1>1, WorldInvAlways, BooksInvAlways, ClockInvAlways, ScopeInvAlways, ShownInvAlways,
            AskedInvAlways, TellInvAlways, PlayersOnly, PTL

---------------------------------------------------------------------------
(* Damage is what landed.                                                  *)

\* No more goes into the water than was fired and dropped.
NumbersInv ==
  /\ nextEntityId <= 1 + Shots + used.drops
  /\ Shots <= scene.shots /\ used.drops <= scene.drops

\* What has been fired is counted in the tallies of the boats that fired it.
LEMMA ShotsAreCounted ==
  ASSUME tallies \in [Boat -> BoatTally]
  PROVE  /\ Shots \in Nat
         /\ \A b \in Boat, n \in Nat :
              tallies' = [tallies EXCEPT ![b].torpedoesFired = @ + n] => Shots' = Shots + n
         /\ (\A b \in Boat : tallies'[b].torpedoesFired = tallies[b].torpedoesFired)
              => Shots' = Shots
<1> DEFINE f == [b \in Boat |-> tallies[b].torpedoesFired]
<1>1. IsFiniteSet(Boat) /\ \A b \in Boat : f[b] \in Nat
  BY FleetAssumption DEF BoatTally
<1>2. Shots = SumOver(f, Boat)
  BY DEF Shots
<1>3. ASSUME NEW b \in Boat, NEW n \in Nat,
             tallies' = [tallies EXCEPT ![b].torpedoesFired = @ + n]
      PROVE  Shots' = Shots + n
  <2> DEFINE h == [c \in Boat |-> tallies'[c].torpedoesFired]
             g == [c \in Boat |-> IF c = b THEN n ELSE 0]
  <2>1. \A c \in Boat : h[c] = f[c] + g[c]
    <3> DEFINE x == tallies[b].torpedoesFired + n
    <3>1. tallies' = [tallies EXCEPT ![b] = [tallies[b] EXCEPT !.torpedoesFired = x]]
      BY <1>3
    <3>2. tallies[b] \in BoatTally
      OBVIOUS
    <3>3. x = f[b] + n
      OBVIOUS
    <3> HIDE DEF x
    <3>4. tallies'[b].torpedoesFired = x
      BY <3>1, <3>2 DEF BoatTally
    <3>5. \A c \in Boat \ {b} : tallies'[c] = tallies[c]
      BY <3>1
    <3> QED  BY <1>1, <3>3, <3>4, <3>5
  <2>2. \A c \in Boat : g[c] \in Int /\ f[c] \in Int
    BY <1>1
  <2>3. g[b] = n /\ \A c \in Boat \ {b} : g[c] = 0
    OBVIOUS
  <2>4. Shots' = SumOver(h, Boat)
    BY DEF Shots
  <2> HIDE DEF f, g, h
  <2>5. SumOver(h, Boat) = SumOver(f, Boat) + SumOver(g, Boat)
    BY <1>1, <2>1, <2>2, SumPlus
  <2>6. SumOver(g, Boat) = n
    BY <1>1, <2>2, <2>3, SumOfOne
  <2> QED  BY <1>2, <2>4, <2>5, <2>6
<1>4. ASSUME \A b \in Boat : tallies'[b].torpedoesFired = tallies[b].torpedoesFired
      PROVE  Shots' = Shots
  <2>1. [b \in Boat |-> tallies'[b].torpedoesFired] = [b \in Boat |-> tallies[b].torpedoesFired]
    BY <1>4
  <2> QED  BY <2>1 DEF Shots
<1> HIDE DEF f
<1> QED  BY <1>1, <1>2, <1>3, <1>4, SumNat

LEMMA NumbersInvKept ==
  ASSUME WorldInv, BooksInv, ClockInv, NumbersInv, [Next]_vars
  PROVE  NumbersInv'
<1>0. /\ used.drops \in Nat /\ Shots \in Nat /\ nextEntityId \in Nat /\ scene \in Scenes
      /\ scene.shots \in Nat /\ scene.drops \in Nat /\ tallies \in [Boat -> BoatTally]
  BY ShotsAreCounted, MatchAssumption
     DEF WorldInv, WaterInv, BooksInv, ClockInv, Scene, Spending
<1>1. ASSUME UNCHANGED <<tallies, nextEntityId, scene>>, used'.drops = used.drops
      PROVE  NumbersInv'
  BY <1>1 DEF NumbersInv, Shots
<1>2. ASSUME NEW what \in Spending \ {"drops"}, MaySpend(what), Spend(what)
      PROVE  used'.drops = used.drops
  BY <1>2 DEF Spend, ClockInv, Spending
<1>3. UNCHANGED <<tallies, nextEntityId, scene, used>> => NumbersInv'
  BY <1>1
<1>4. ASSUME NEW b \in Boat, NEW wanted \in SUBSET Tubes(b), fire(b, wanted)
      PROVE  NumbersInv'
  <2> DEFINE n == Cardinality(Launching(b, wanted))
  <2>1. n \in Nat
    <3>1. Launching(b, wanted) \in SUBSET Tubes(b)
      BY DEF Launching
    <3>2. TubeCount[b] \in Nat
      BY GearAssumption
    <3>3. IsFiniteSet(Tubes(b))
      BY <3>2, FS_Interval DEF Tubes
    <3> QED  BY <3>1, <3>3, FS_Subset, FS_CardinalityType
  <2>2. nextEntityId' = nextEntityId + n
    <3> DEFINE loads == [i \in Launching(b, wanted) |-> tubes[b][i].weapon]
    <3>1. launch(b, loads, tick) /\ DOMAIN loads = Launching(b, wanted)
      BY <1>4 DEF fire
    <3> QED  BY <3>1 DEF launch
  <2>3. /\ Shots + n <= scene.shots /\ UNCHANGED <<scene, used>>
        /\ tallies' = [tallies EXCEPT ![b].torpedoesFired = @ + n]
    BY <1>4 DEF fire
  <2> HIDE DEF n
  <2>4. Shots' = Shots + n
    BY <1>0, <2>1, <2>3, ShotsAreCounted
  <2> QED  BY <1>0, <2>1, <2>2, <2>3, <2>4 DEF NumbersInv
<1>5. ASSUME NEW b \in Boat, dropNoisemaker(b)
      PROVE  NumbersInv'
  <2>1. /\ nextEntityId' = nextEntityId + 1 /\ UNCHANGED <<tallies, scene>>
        /\ used.drops < scene.drops /\ used' = [used EXCEPT !["drops"] = @ + 1]
    BY <1>5 DEF dropNoisemaker, dropCountermeasure, resultVars, MaySpend, Spend
  <2>2. used'.drops = used.drops + 1
    BY <2>1 DEF ClockInv, Spending
  <2>3. Shots' = Shots
    BY <2>1 DEF Shots
  <2> QED  BY <1>0, <2>1, <2>2, <2>3 DEF NumbersInv
<1>6. ASSUME NEW b \in Boat, NEW i \in Tubes(b), NEW w \in Fits[b], NEW swap \in BOOLEAN,
             reload(b, i, w, swap)
      PROVE  NumbersInv'
  BY <1>1, <1>2, <1>6 DEF reload, resultVars, waterVars, Spending
<1>7. ASSUME NEW b \in Boat, NEW on \in BOOLEAN, switchSonar(b, on)
      PROVE  NumbersInv'
  BY <1>1, <1>2, <1>7 DEF switchSonar, resultVars, waterVars, Spending
<1>8. CASE step /\ results # None
  BY <1>3, <1>8 DEF step, worldVars, resultVars, waterVars
<1>9. CASE step /\ results = None
  <2>1. PICK fault \in {"none", "solve", "publish"} :
           /\ fault # "none" => MaySpend("faults") /\ Spend("faults")
           /\ fault = "none" => used' = used
           /\ tick' = tick + 1 /\ beat' = 1 - beat /\ scene' = scene
           /\ Ticked(tick + 1, fault = "solve")
    BY <1>9, StepIs
  <2>2. used'.drops = used.drops
    BY <1>2, <2>1 DEF Spending
  <2>3. PICK ram \in Collisions : \E fate \in Fates(tick + 1, ram.harm, scene.early) :
               \E where \in [Boat -> scene.roam] :
                 TheTick(tick + 1, fault = "solve", ram, fate, where)
    BY <2>1, TickIs
  <2>4. PICK fate \in Fates(tick + 1, ram.harm, scene.early) :
               \E where \in [Boat -> scene.roam] :
                 TheTick(tick + 1, fault = "solve", ram, fate, where)
    BY <2>3
  <2>5. PICK where \in [Boat -> scene.roam] : TheTick(tick + 1, fault = "solve", ram, fate, where)
    BY <2>4
  <2>6. nextEntityId' = nextEntityId
    BY <2>5, WaterAfterATick DEF WorldInv
  <2>7. Shots' = Shots
    <3> DEFINE board == Advanced(Boat \ destroyed', where)
    <3>1. tallies' = Tallied(tick + 1, ram, fate, board, where)
      BY <2>5 DEF TheTick
    <3> HIDE DEF board
    <3>2. \A b \in Boat : tallies'[b].torpedoesFired = tallies[b].torpedoesFired
      <4> SUFFICES ASSUME NEW b \in Boat
                   PROVE  tallies'[b].torpedoesFired = tallies[b].torpedoesFired
        OBVIOUS
      <4> DEFINE n == tallies'[b]
      <4>1. n = Tallied(tick + 1, ram, fate, board, where)[b]
        BY <3>1
      <4> HIDE DEF n
      <4>2. n.torpedoesFired = tallies[b].torpedoesFired
        BY <1>0, <4>1, TallyIs
      <4> QED  BY <4>2 DEF n
    <3> QED  BY <1>0, <3>2, ShotsAreCounted
  <2> QED  BY <2>1, <2>2, <2>6, <2>7 DEF NumbersInv
<1>10. ASSUME NEW p \in Player, playerMoves(p)
       PROVE  NumbersInv'
  BY <1>1, <1>2, <1>10 DEF playerMoves, moving, worldVars, resultVars, waterVars, Spending
<1>11. ASSUME NEW p \in Player, playerActs(p)
       PROVE  NumbersInv'
  BY <1>3, <1>11 DEF playerActs, worldVars, resultVars, waterVars
<1>12. UNCHANGED vars => NumbersInv'
  BY <1>3 DEF vars, worldVars, resultVars, waterVars
<1> QED  BY <1>4, <1>5, <1>6, <1>7, <1>8, <1>9, <1>10, <1>11, <1>12 DEF Next

LEMMA NumbersInvAtFirst ==
  ASSUME Init
  PROVE  NumbersInv
<1>1. /\ scene.shots \in Nat /\ scene.drops \in Nat
      /\ used = [s \in Spending |-> 0] /\ nextEntityId = 1
      /\ tallies = [b \in Boat |-> EmptyTally]
  BY MatchAssumption DEF Init, Scene, InitWater, InitResults
<1>2. used.drops = 0
  BY <1>1 DEF Spending
<1> DEFINE f == [b \in Boat |-> tallies[b].torpedoesFired]
<1>3. Shots = SumOver(f, Boat)
  BY DEF Shots
<1>4. \A b \in Boat : f[b] = 0
  BY <1>1 DEF EmptyTally
<1> HIDE DEF f
<1>5. Shots = 0
  BY <1>3, <1>4, FleetAssumption, SumOfNone
<1> QED  BY <1>1, <1>2, <1>5 DEF NumbersInv

\* A burst takes no more off a hull than a burst can (Bursts).
LEMMA BurstsAreBounded ==
  ASSUME NEW now, NEW t, NEW afloat, NEW early, NEW o \in Outcomes(t, now, afloat, early),
         NEW b \in Boat
  PROVE  o.harm[b] <= MaxBurst
<1>0. MaxBurst \in Nat
  BY WeaponsAssumption
<1>1. Unharmed[b] <= MaxBurst
  BY <1>0 DEF Unharmed
<1>2. \A u, touched : \A e \in Ends(u, now, afloat, touched) : e.harm[b] <= MaxBurst
  <2>1. ASSUME NEW u, NEW touched, NEW h \in Bursts(u, afloat, touched)
        PROVE  h[b] <= MaxBurst
    <3>1. h \in [Boat -> 0 .. MaxBurst] \/ h = Unharmed
      BY DEF Bursts, Unharmed
    <3> QED  BY <1>0, <1>1, <3>1
  <2> QED  BY <2>1 DEF Ends, Outcome
<1>3. \A m, h : Outcome(m, h).harm = h
  BY DEF Outcome
<1>4. CASE o.harm = Unharmed
  BY <1>1, <1>4
<1>5. ASSUME NEW u, NEW touched, o \in Ends(u, now, afloat, touched)
      PROVE  o.harm[b] <= MaxBurst
  BY <1>2, <1>5
<1> QED  BY <1>3, <1>4, <1>5, OutcomesAre

\* What is claimed of a boat in a tick is the harm done to it, and a hit point splits evenly
\* between the claims.
LEMMA ClaimsSplit ==
  ASSUME WorldInv, ClockInv, NumbersInv, tallies \in [Boat -> BoatTally],
         NEW thrown, NEW ram, NEW fate, NEW where,
         TheTick(tick + 1, thrown, ram, fate, where), NEW v \in Boat
  PROVE  /\ Claimed(fate, v) \in Nat /\ Claimed(fate, v) = Harm(fate)[v]
         /\ Claimed(fate, v) > 0 => Share % Claimed(fate, v) = 0
<1> DEFINE f == [i \in InWater |-> fate[i].harm[v]]
           k == Cardinality(InWater)
           m == scene.shots + scene.drops
<1>1. \A i \in InWater : f[i] \in Nat /\ f[i] <= MaxBurst
  <2>1. \A i \in InWater : fate[i].harm \in Harms
    BY Hulls DEF WorldInv
  <2>2. \A i \in InWater : fate[i] \in Outcomes(torpedoes[i], tick + 1,
                                               StillAfloat(Settled(ram.harm)), scene.early)
    BY DEF TheTick, Fates
  <2> QED  BY <2>1, <2>2, BurstsAreBounded DEF Harms
<1>2. Claimed(fate, v) = SumOver(f, InWater) /\ Harm(fate)[v] = SumOver(f, InWater)
  BY DEF Claimed, Harm
<1>3. /\ scene \in Scenes /\ scene.shots \in Nat /\ scene.drops \in Nat /\ Shots \in Nat
      /\ used.drops \in Nat /\ nextEntityId \in Nat /\ nextEntityId > 0 /\ MaxBurst \in Nat
      /\ Share \in Nat
  BY ShotsAreCounted, MatchAssumption, WeaponsAssumption, ResultsAssumption
     DEF WorldInv, WaterInv, ClockInv, Scene, Spending
<1>4. k \in Nat /\ k <= m /\ m \in Nat
  <2> DEFINE n == nextEntityId - 1
  <2>1. InWater \in SUBSET (1 .. n)
    BY DEF WorldInv, WaterInv
  <2>2. n \in Nat /\ n <= m
    BY <1>3 DEF NumbersInv
  <2> HIDE DEF n, m
  <2>3. IsFiniteSet(1 .. n) /\ Cardinality(1 .. n) = n
    BY <2>2, FS_Interval
  <2>4. k \in Nat /\ k <= n
    <3>1. IsFiniteSet(InWater) /\ Cardinality(InWater) <= Cardinality(1 .. n)
      BY <2>1, <2>3, FS_Subset
    <3> QED  BY <2>3, <3>1, FS_CardinalityType
  <2>5. m \in Nat
    BY <1>3 DEF m
  <2> HIDE DEF k
  <2> QED  BY <2>2, <2>4, <2>5
<1> HIDE DEF f, k, m
<1>5. SumOver(f, InWater) \in Nat /\ SumOver(f, InWater) <= MaxBurst * k
  <2>1. IsFiniteSet(InWater)
    BY FewInTheWater DEF WorldInv
  <2> QED  BY <1>1, <1>3, <2>1, SumIsBounded DEF k
<1>6. MaxBurst * k <= MaxBurst * m /\ MaxBurst * k \in Nat /\ MaxBurst * m \in Nat
  <2>1. \A x, y, z \in Nat : y <= z => x * y <= x * z /\ x * y \in Nat /\ x * z \in Nat
    OBVIOUS
  <2> QED  BY <1>3, <1>4, <2>1
<1>7. SumOver(f, InWater) <= MaxBurst * m
  BY <1>5, <1>6
<1>8. SumOver(f, InWater) > 0 => SumOver(f, InWater) \in 1 .. MaxBurst * m
  BY <1>5, <1>6, <1>7
<1>9. \A n \in 1 .. MaxBurst * m : Share % n = 0
  BY <1>3, MatchAssumption DEF m
<1> QED  BY <1>2, <1>5, <1>8, <1>9

\* The claims of the boats come to what is claimed: every weapon is somebody's.
LEMMA ClaimsAddUp ==
  ASSUME WaterInv, NEW fate, \A i \in InWater : fate[i].harm \in Harms, NEW v \in Boat
  PROVE  SumOver([a \in Boat |-> Claim(fate, a, v)], Boat) = Claimed(fate, v)
<1> DEFINE of(a) == [i \in InWater |-> IF torpedoes[i].firedBy = a THEN fate[i].harm[v] ELSE 0]
           m == [a \in Boat |-> of(a)]
           n == [i \in InWater |-> [a \in Boat |-> m[a][i]]]
           rows == [a \in Boat |-> Claim(fate, a, v)]
           columns == [i \in InWater |-> fate[i].harm[v]]
<1>1. IsFiniteSet(InWater) /\ IsFiniteSet(Boat)
  BY FewInTheWater, FleetAssumption
<1>2. \A i \in InWater : fate[i].harm[v] \in Int /\ torpedoes[i].firedBy \in Boat
  BY DEF Harms, WaterInv, WellMade
<1>3. \A a \in Boat, i \in InWater :
        m[a][i] = (IF torpedoes[i].firedBy = a THEN fate[i].harm[v] ELSE 0) /\ m[a][i] \in Int
  BY <1>2
<1>4. ASSUME NEW a \in Boat
      PROVE  rows[a] = SumOver(m[a], InWater)
  <2> DEFINE own == {i \in InWater : torpedoes[i].firedBy = a}
             f == [i \in own |-> fate[i].harm[v]]
             g == m[a]
  <2>1. own \in SUBSET InWater /\ IsFiniteSet(own)
    BY <1>1, FS_Subset
  <2>2. \A i \in InWater : g[i] \in Int /\ (i \notin own => g[i] = 0)
    BY <1>3
  <2>3. \A i \in own : f[i] = g[i] /\ g[i] \in Int
    BY <1>3
  <2>4. rows[a] = SumOver(f, own)
    BY DEF Claim
  <2> HIDE DEF f, g, own
  <2>5. SumOver(g, InWater) = SumOver(g, own)
    BY <1>1, <2>1, <2>2, SumOfSome
  <2>6. SumOver(f, own) = SumOver(g, own)
    BY <2>1, <2>3, SumSame
  <2> QED  BY <2>4, <2>5, <2>6 DEF g
<1>5. ASSUME NEW i \in InWater
      PROVE  columns[i] = SumOver(n[i], Boat)
  <2> DEFINE g == n[i]
             o == torpedoes[i].firedBy
  <2>1. o \in Boat /\ g[o] = fate[i].harm[v] /\ g[o] \in Int /\ \A a \in Boat \ {o} : g[a] = 0
    BY <1>2, <1>3
  <2> HIDE DEF g, o
  <2>2. SumOver(g, Boat) = g[o]
    BY <1>1, <2>1, SumOfOne
  <2> QED  BY <2>1, <2>2 DEF g
<1>6. \A a \in Boat, i \in InWater : m[a][i] \in Int /\ n[i][a] = m[a][i]
  BY <1>3
<1> HIDE DEF m, n, rows, columns
<1>7. Table(Boat, InWater, m, n, rows, columns)
  BY <1>1, <1>4, <1>5, <1>6 DEF Table
<1>8. SumOver(rows, Boat) = SumOver(columns, InWater)
  BY <1>7, SumsSwap
<1> QED  BY <1>8 DEF rows, columns, Claimed

\* Dividing what divides.
LEMMA Divides ==
  ASSUME NEW s \in Nat, NEW n \in Nat, n > 0, s % n = 0
  PROVE  \E q \in Nat : s = q * n
<1> DEFINE q == s \div n
<1>1. q \in Nat
  BY Quotients
<1>2. s = n * q + (s % n)
  OBVIOUS
<1> HIDE DEF q
<1>3. n * q = q * n
  BY <1>1
<1> QED  BY <1>1, <1>2, <1>3

LEMMA DividedBack ==
  ASSUME NEW y \in Nat, NEW n \in Nat, n > 0
  PROVE  (y * n) \div n = y
<1> DEFINE x == y * n
           d == x \div n
           r == x % n
<1>1. x \in Nat
  BY Products
<1>2. d \in Int /\ r \in Int /\ x = n * d + r /\ 0 <= r /\ r < n
  BY <1>1
<1>3. x = n * y
  OBVIOUS
<1> HIDE DEF x, d, r
<1>4. n * y - n * d = r
  BY <1>2, <1>3
<1>5. n * (y - d) = r
  BY <1>2, <1>4
<1>6. ASSUME y - d >= 1
      PROVE  FALSE
  <2>1. n * (y - d) >= n
    BY <1>2, <1>6
  <2> QED  BY <1>2, <1>5, <2>1
<1>7. ASSUME y - d <= -1
      PROVE  FALSE
  <2>1. n * (y - d) <= -n
    BY <1>2, <1>7
  <2> QED  BY <1>2, <1>5, <2>1
<1>8. d = y
  BY <1>2, <1>6, <1>7
<1> QED  BY <1>8 DEF d, x

\* What of a boat's claim on another has landed, and that the claims on one together are what it
\* has lost (creditWeapons).
Part(ram, fate, a, v) ==
  IF Claimed(fate, v) = 0 THEN 0
  ELSE (Claim(fate, a, v) * Lost(ram, v) * Share) \div Claimed(fate, v)

LEMMA PartsAddUp ==
  ASSUME WorldInv, ClockInv, NumbersInv, tallies \in [Boat -> BoatTally],
         NEW thrown, NEW ram, NEW fate, NEW where,
         TheTick(tick + 1, thrown, ram, fate, where), NEW v \in Boat
  PROVE  /\ Lost(ram, v) \in Nat
         /\ \A a \in Boat : Part(ram, fate, a, v) \in Nat
         /\ SumOver([a \in Boat |-> Part(ram, fate, a, v)], Boat) = Share * Lost(ram, v)
<1> DEFINE n == Claimed(fate, v)
           l == Lost(ram, v)
           f == [a \in Boat |-> Claim(fate, a, v)]
           g == [a \in Boat |-> Part(ram, fate, a, v)]
<1>1. /\ n \in Nat /\ n = Harm(fate)[v] /\ (n > 0 => Share % n = 0)
  BY ClaimsSplit
<1>2. l \in Nat /\ (n = 0 => l = 0)
  <2>1. /\ Settled(ram.harm)[v] \in Nat /\ hp'[v] \in Nat /\ hp'[v] <= Settled(ram.harm)[v]
        /\ hp'[v] = Less(Settled(ram.harm)[v], n)
    BY <1>1, Hulls DEF Harms, WorldInv
  <2>2. n = 0 => hp'[v] = Settled(ram.harm)[v]
    BY <1>1, <2>1, LessIsNoMore
  <2> QED  BY <2>1, <2>2 DEF Lost
<1>3. \A i \in InWater : fate[i].harm \in Harms
  BY Hulls DEF WorldInv
<1>4. \A a \in Boat : f[a] \in Nat
  BY <1>3, Claims DEF WorldInv
<1>5. SumOver(f, Boat) = n
  BY <1>3, ClaimsAddUp DEF WorldInv
<1>6. Share \in Nat /\ IsFiniteSet(Boat)
  BY ResultsAssumption, FleetAssumption
<1>7. \A a \in Boat : /\ g[a] = Part(ram, fate, a, v)
                      /\ g[a] = IF n = 0 THEN 0 ELSE (f[a] * l * Share) \div n
  BY DEF Part
<1> HIDE DEF n, l, f, g
<1>8. (\A a \in Boat : g[a] \in Nat) /\ SumOver(g, Boat) = Share * l
  <2>1. CASE n = 0
    <3>1. \A a \in Boat : g[a] = 0
      BY <1>7, <2>1
    <3>2. SumOver(g, Boat) = 0
      BY <1>6, <3>1, SumOfNone
    <3> QED  BY <1>2, <1>6, <2>1, <3>1, <3>2
  <2>2. CASE n # 0
    <3>1. PICK q \in Nat : Share = q * n
      <4>1. n > 0 /\ Share % n = 0
        BY <1>1, <2>2
      <4> QED  BY <1>1, <1>6, <4>1, Divides
    <3> DEFINE k == l * q
    <3>2. k \in Nat /\ k * n = Share * l
      <4>1. \A x, y, z \in Nat : (x * y) * z = (y * z) * x /\ x * y \in Nat
        OBVIOUS
      <4> QED  BY <1>1, <1>2, <3>1, <4>1
    <3>3. ASSUME NEW a \in Boat
          PROVE  g[a] = k * f[a] /\ g[a] \in Nat
      <4> DEFINE y == k * f[a]
      <4>1. y \in Nat
        BY <1>4, <3>2, Products
      <4>2. f[a] * l * Share = y * n
        <5>1. \A w, x, z, m \in Nat : w * x * (z * m) = ((x * z) * w) * m
          OBVIOUS
        <5>2. f[a] \in Nat
          BY <1>4
        <5>3. f[a] * l * (q * n) = ((l * q) * f[a]) * n
          BY <1>1, <1>2, <5>1, <5>2
        <5> QED  BY <3>1, <5>3
      <4> HIDE DEF y
      <4>3. (y * n) \div n = y
        BY <1>1, <2>2, <4>1, DividedBack
      <4> QED  BY <1>7, <2>2, <4>1, <4>2, <4>3 DEF y
    <3> HIDE DEF k
    <3>4. SumOver(g, Boat) = k * SumOver(f, Boat)
      BY <1>4, <1>6, <3>2, <3>3, SumTimes
    <3> QED  BY <1>5, <3>2, <3>3, <3>4
  <2> QED  BY <2>1, <2>2
<1> QED  BY <1>2, <1>7, <1>8 DEF g, l

\* All boats together are credited with what the weapons took off the hulls.
LEMMA DealtIsLost ==
  ASSUME WorldInv, ClockInv, NumbersInv, tallies \in [Boat -> BoatTally],
         NEW thrown, NEW ram, NEW fate, NEW where,
         TheTick(tick + 1, thrown, ram, fate, where)
  PROVE  LET lost == [v \in Boat |-> Lost(ram, v)]
         IN /\ \A v \in Boat : lost[v] \in Nat
            /\ SumOver([a \in Boat |-> Dealt(ram, fate, a)], Boat) = Share * SumOver(lost, Boat)
<1> DEFINE m == [a \in Boat |-> [v \in Boat |-> Part(ram, fate, a, v)]]
           n == [v \in Boat |-> [a \in Boat |-> Part(ram, fate, a, v)]]
           rows == [a \in Boat |-> Dealt(ram, fate, a)]
           columns == [v \in Boat |-> Share * Lost(ram, v)]
           lost == [v \in Boat |-> Lost(ram, v)]
<1>1. \A v \in Boat : /\ Lost(ram, v) \in Nat
                      /\ \A a \in Boat : Part(ram, fate, a, v) \in Nat
                      /\ SumOver([a \in Boat |-> Part(ram, fate, a, v)], Boat) = Share * Lost(ram, v)
  BY PartsAddUp
<1>2. Share \in Nat /\ IsFiniteSet(Boat)
  BY ResultsAssumption, FleetAssumption
<1>3. ASSUME NEW a \in Boat, NEW v \in Boat
      PROVE  m[a][v] \in Int /\ n[v][a] = m[a][v]
  <2>1. Part(ram, fate, a, v) \in Nat
    BY <1>1
  <2>2. m[a][v] = Part(ram, fate, a, v) /\ n[v][a] = Part(ram, fate, a, v)
    OBVIOUS
  <2> QED  BY <2>1, <2>2
<1>4. \A a \in Boat : rows[a] = SumOver(m[a], Boat)
  BY DEF Dealt, Part
<1>5. \A v \in Boat : columns[v] = SumOver(n[v], Boat)
  BY <1>1
<1>6. \A v \in Boat : lost[v] \in Nat /\ columns[v] = Share * lost[v]
  BY <1>1
<1> HIDE DEF m, n, rows, columns, lost
<1>7. Table(Boat, Boat, m, n, rows, columns)
  BY <1>2, <1>3, <1>4, <1>5 DEF Table
<1>8. SumOver(rows, Boat) = SumOver(columns, Boat)
  BY <1>7, SumsSwap
<1>9. SumOver(columns, Boat) = Share * SumOver(lost, Boat)
  BY <1>2, <1>6, SumTimes
<1> QED  BY <1>6, <1>8, <1>9 DEF rows, lost

\* What the fleets have lost after a tick: what they had lost, what the collisions of the tick
\* took, and what its weapons did.
LEMMA HarmAfterATick ==
  ASSUME WorldInv, BooksInv, ClockInv, NumbersInv, HarmIsCredited,
         NEW thrown, NEW ram, NEW fate, NEW where,
         TheTick(tick + 1, thrown, ram, fate, where)
  PROVE  HarmIsCredited'
<1> DEFINE before == [b \in Boat |-> MaxHp[b] - hp[b]]
           after  == [b \in Boat |-> MaxHp[b] - hp'[b]]
           rams   == [b \in Boat |-> hp[b] - Settled(ram.harm)[b]]
           lost   == [b \in Boat |-> Lost(ram, b)]
           both   == [b \in Boat |-> rams[b] + lost[b]]
           had    == [b \in Boat |-> tallies[b].damageDealt]
           has    == [b \in Boat |-> tallies'[b].damageDealt]
           dealt  == [b \in Boat |-> Dealt(ram, fate, b)]
           D == SumOver(had, Boat)
           H == SumOver(before, Boat)
           R == SumOver(rams, Boat)
           L == SumOver(lost, Boat)
<1>0. IsFiniteSet(Boat) /\ Share \in Nat /\ tallies \in [Boat -> BoatTally] /\ rammed \in Nat
  BY FleetAssumption, ResultsAssumption DEF BooksInv
<1>1. ASSUME NEW b \in Boat
      PROVE  /\ before[b] \in Int /\ rams[b] \in Int /\ lost[b] \in Nat /\ both[b] \in Int
             /\ both[b] = rams[b] + lost[b]
             /\ after[b] = before[b] + both[b]
  <2>1. /\ MaxHp[b] \in Nat /\ hp[b] \in Nat /\ hp'[b] \in Nat /\ Settled(ram.harm)[b] \in Nat
        /\ hp'[b] <= Settled(ram.harm)[b]
    BY WeaponsAssumption, Hulls DEF WorldInv, HullInv, Harms
  <2>2. /\ before[b] = MaxHp[b] - hp[b] /\ rams[b] = hp[b] - Settled(ram.harm)[b]
        /\ lost[b] = Settled(ram.harm)[b] - hp'[b] /\ after[b] = MaxHp[b] - hp'[b]
        /\ both[b] = rams[b] + lost[b]
    BY DEF Lost
  <2> HIDE DEF before, after, rams, lost, both
  <2> QED  BY <2>1, <2>2
<1>2. ASSUME NEW b \in Boat
      PROVE  had[b] \in Int /\ dealt[b] \in Int /\ has[b] = had[b] + dealt[b]
  <2> DEFINE board == Advanced(Boat \ destroyed', where)
             n == tallies'[b]
  <2>1. n = Tallied(tick + 1, ram, fate, board, where)[b]
    BY DEF TheTick
  <2> HIDE DEF board, n
  <2>2. n.damageDealt = tallies[b].damageDealt + Dealt(ram, fate, b)
    BY <1>0, <2>1, TallyIs
  <2>3. tallies[b].damageDealt \in Nat /\ Dealt(ram, fate, b) \in Nat
    BY <1>0, DealtIsSoMuch DEF BoatTally, WorldInv
  <2> QED  BY <2>2, <2>3 DEF n
<1>3. rammed' = rammed + SumOver(rams, Active)
  BY DEF TheTick
<1>4. ASSUME NEW b \in Boat \ Active
      PROVE  rams[b] = 0
  BY <1>4 DEF Active, WorldInv, HullInv, Settled
<1>5. \A b \in Boat : /\ has[b] = tallies'[b].damageDealt /\ after[b] = MaxHp[b] - hp'[b]
  OBVIOUS
<1>6. SumOver(dealt, Boat) = Share * L
  BY <1>0, DealtIsLost
<1>7. D + Share * rammed = Share * H
  BY DEF HarmIsCredited
<1>8. HarmIsCredited' <=> SumOver(has, Boat) + Share * rammed' = Share * SumOver(after, Boat)
  BY DEF HarmIsCredited
<1> HIDE DEF before, after, rams, lost, both, had, has, dealt
<1>9. SumOver(has, Boat) = D + SumOver(dealt, Boat)
  BY <1>0, <1>2, SumPlus
<1>10. SumOver(both, Boat) = R + L
  BY <1>0, <1>1, SumPlus
<1>11. SumOver(after, Boat) = H + SumOver(both, Boat)
  BY <1>0, <1>1, SumPlus
<1>12. R = SumOver(rams, Active)
  <2>1. Active \in SUBSET Boat
    BY DEF Active
  <2> QED  BY <1>0, <1>1, <1>4, <2>1, SumOfSome
<1>13. D \in Int /\ H \in Int /\ R \in Int /\ L \in Int
  BY <1>0, <1>1, <1>2, SumInt
<1> HIDE DEF D, H, R, L
<1>14. Share * (rammed + R) = Share * rammed + Share * R
       /\ Share * (H + (R + L)) = Share * H + Share * R + Share * L
       /\ Share * rammed \in Int /\ Share * H \in Int /\ Share * R \in Int /\ Share * L \in Int
  <2>1. \A s, x, y \in Int : s * (x + y) = s * x + s * y /\ s * x \in Int /\ s * y \in Int
    OBVIOUS
  <2> QED  BY <1>0, <1>13, <2>1
<1> QED  BY <1>3, <1>6, <1>7, <1>8, <1>9, <1>10, <1>11, <1>12, <1>13, <1>14

LEMMA HarmKept ==
  ASSUME WorldInv, BooksInv, ClockInv, NumbersInv, HarmIsCredited, [Next]_vars
  PROVE  HarmIsCredited'
<1>1. ASSUME UNCHANGED <<hp, rammed>>,
             \A b \in Boat : tallies'[b].damageDealt = tallies[b].damageDealt
      PROVE  HarmIsCredited'
  <2>1. [b \in Boat |-> tallies'[b].damageDealt] = [b \in Boat |-> tallies[b].damageDealt]
    BY <1>1
  <2> QED  BY <1>1, <2>1 DEF HarmIsCredited
<1>2. UNCHANGED <<hp, resultVars>> => HarmIsCredited'
  BY <1>1 DEF resultVars
<1>3. ASSUME NEW b \in Boat, NEW wanted \in SUBSET Tubes(b), fire(b, wanted)
      PROVE  HarmIsCredited'
  <2> DEFINE n == Cardinality(Launching(b, wanted))
  <2>1. n \in Nat
    <3>1. Launching(b, wanted) \in SUBSET Tubes(b)
      BY DEF Launching
    <3>2. TubeCount[b] \in Nat
      BY GearAssumption
    <3>3. IsFiniteSet(Tubes(b))
      BY <3>2, FS_Interval DEF Tubes
    <3> QED  BY <3>1, <3>3, FS_Subset, FS_CardinalityType
  <2>2. /\ UNCHANGED <<hp, rammed>>
        /\ tallies' = [tallies EXCEPT ![b].torpedoesFired = @ + n]
    BY <1>3 DEF fire, launch
  <2> HIDE DEF n
  <2> QED  BY <1>1, <2>1, <2>2, TallyOfASalvo DEF BooksInv
<1>4. ASSUME NEW b \in Boat, NEW i \in Tubes(b), NEW w \in Fits[b], NEW swap \in BOOLEAN,
             reload(b, i, w, swap)
      PROVE  HarmIsCredited'
  BY <1>2, <1>4 DEF reload, waterVars
<1>5. ASSUME NEW b \in Boat, dropNoisemaker(b)
      PROVE  HarmIsCredited'
  BY <1>2, <1>5 DEF dropNoisemaker, dropCountermeasure
<1>6. ASSUME NEW b \in Boat, NEW on \in BOOLEAN, switchSonar(b, on)
      PROVE  HarmIsCredited'
  BY <1>2, <1>6 DEF switchSonar, waterVars
<1>7. ASSUME NEW thrown \in BOOLEAN, Ticked(tick + 1, thrown)
      PROVE  HarmIsCredited'
  <2>1. PICK ram \in Collisions : \E fate \in Fates(tick + 1, ram.harm, scene.early) :
               \E where \in [Boat -> scene.roam] : TheTick(tick + 1, thrown, ram, fate, where)
    BY <1>7, TickIs
  <2>2. PICK fate \in Fates(tick + 1, ram.harm, scene.early) :
               \E where \in [Boat -> scene.roam] : TheTick(tick + 1, thrown, ram, fate, where)
    BY <2>1
  <2>3. PICK where \in [Boat -> scene.roam] : TheTick(tick + 1, thrown, ram, fate, where)
    BY <2>2
  <2> QED  BY <2>3, HarmAfterATick
<1>8. Idle \/ UNCHANGED vars => HarmIsCredited'
  BY <1>2 DEF Idle, vars, worldVars, waterVars
<1> QED  BY <1>3, <1>4, <1>5, <1>6, <1>7, <1>8, StepsOfTheWorld

LEMMA HarmAtFirst ==
  ASSUME Init
  PROVE  HarmIsCredited
<1> DEFINE f == [b \in Boat |-> tallies[b].damageDealt]
           g == [b \in Boat |-> MaxHp[b] - hp[b]]
<1>1. rammed = 0 /\ \A b \in Boat : f[b] = 0
  BY DEF Init, InitResults, EmptyTally
<1>2. \A b \in Boat : g[b] = 0
  BY WeaponsAssumption DEF Init, InitWater
<1>3. HarmIsCredited <=> SumOver(f, Boat) + Share * rammed = Share * SumOver(g, Boat)
  BY DEF HarmIsCredited
<1> HIDE DEF f, g
<1>4. SumOver(f, Boat) = 0 /\ SumOver(g, Boat) = 0
  BY <1>1, <1>2, FleetAssumption, SumOfNone
<1> QED  BY <1>1, <1>3, <1>4, ResultsAssumption

\* What the report of a match will say agrees with what happened in it, whichever of collisions,
\* warheads and captures fall on the same tick: the boats are credited with exactly the harm that
\* landed, however many warheads claim the last point of a hull (creditWeapons); the standings
\* are those of the fleets, though they are recounted on some ticks only; every wreck has its
\* tick, and is the kill of one boat where collisions took nothing; and every capture is paid for
\* once, to a side with a boat in it.
THEOREM TheBooksAgree == Spec => []BooksAgree
<1>1. Init => NumbersInv /\ HarmIsCredited
  BY NumbersInvAtFirst, HarmAtFirst
<1>2. WorldInv /\ BooksInv /\ ClockInv /\ NumbersInv /\ HarmIsCredited /\ [Next]_vars
        => NumbersInv' /\ HarmIsCredited'
  BY NumbersInvKept, HarmKept
<1>3. BooksInv /\ HarmIsCredited => BooksAgree
  BY DEF BooksInv, LossInv, CaptureInv, BooksAgree
<1> QED  BY <1>1, <1>2, <1>3, WorldInvAlways, BooksInvAlways, ClockInvAlways, PTL DEF Spec
=============================================================================
