------------------------------- MODULE Berths -------------------------------
(***************************************************************************)
(* Where the boats of a match start (shared/src/match/deploy.ts): one side *)
(* after the other, each boat at the free place nearest the depth it aims  *)
(* at, with less and less room around it when there is no place.           *)
(*                                                                         *)
(* Lengths are counted in cells of the ruler (shared/src/map/measure.ts),  *)
(* of 5 m; places, rock and boats are at cells, and a cell of the map is a *)
(* cell of depth.  The room around a place is in metres.                   *)
(***************************************************************************)
EXTENDS Integers, FiniteSets, SequencesExt

CONSTANTS
  Hulls,            \* hull -> [clearanceRadius, testDepth]
  Rosters,          \* bound: team -> the fleets, hull after hull, that may be deployed
  RockMaps,         \* bound: the sets of cells that may be stone
  MapWidth, MapHeight, BandWidth,
  BERTH_STEP,       \* odd: a candidate lies in the middle of a cell
  TEST_DEPTH_MARGIN, SHALLOWEST_BERTH

TEAM_IDS == <<"team1", "team2">>
\* Mutant: from some room to none.
STEPS_TOO_FEW == <<10, 0>>

SEPARATION_STEPS == <<10, 6, 3, 0>>     \* tenths
SEPARATION_FACTOR == 3
ANY_WATER == 1                          \* metres
RULER_CELL == 5                         \* metres
NoPlace == [none |-> TRUE]

ASSUME BerthsAssumption ==
  /\ {MapWidth, MapHeight, BandWidth, BERTH_STEP} \subseteq Nat \ {0}
  /\ BERTH_STEP % 2 = 1 /\ BandWidth % 2 = 0 /\ BandWidth < MapWidth
  /\ TEST_DEPTH_MARGIN \in Nat /\ SHALLOWEST_BERTH \in 0 .. MapHeight
  /\ \A h \in DOMAIN Hulls : Hulls[h].clearanceRadius \in Nat \ {0} /\ Hulls[h].testDepth \in 0 .. MapHeight

ASSUME SitesAssumption ==
  /\ Rosters \subseteq [ToSet(TEAM_IDS) -> Seq(DOMAIN Hulls)]
  /\ RockMaps \subseteq SUBSET [x : 0 .. MapWidth - 1, y : 0 .. MapHeight - 1]

VARIABLES
  stone,      \* the stone of the map
  fleets,     \* team -> its hulls, in the order of the roster
  side,       \* the team that is being deployed
  berths      \* the boats placed so far, in the order of their ids

berthVars == <<stone, fleets, side, berths>>

InitBerths ==
  /\ stone \in RockMaps /\ fleets \in Rosters
  /\ side = 1 /\ berths = <<>>

---------------------------------------------------------------------------

deploymentBands(t) == IF t = "team1" THEN [x0 |-> 0, x1 |-> BandWidth]
                                     ELSE [x0 |-> MapWidth - BandWidth, x1 |-> MapWidth]

deepestBerth(testDepth) == IF testDepth - TEST_DEPTH_MARGIN > SHALLOWEST_BERTH
                           THEN testDepth - TEST_DEPTH_MARGIN ELSE SHALLOWEST_BERTH

\* The lowest place a hull may take: the height of a place counts from the seabed.
minY(h) == MapHeight - deepestBerth(Hulls[h].testDepth)

\* The middle of the band, at the boat's slice of the depths its hull may be at.  Times 2n.
berthTarget(t, h, ordinal, n) ==
  LET deep == deepestBerth(Hulls[h].testDepth)
  IN [x |-> n * (deploymentBands(t).x0 + deploymentBands(t).x1),
      y |-> 2 * n * (MapHeight - SHALLOWEST_BERTH) - (deep - SHALLOWEST_BERTH) * (2 * ordinal - 1)]

Square(n) == n * n
Apart(p, q) == Square(p.x - q.x) + Square(p.y - q.y)     \* the square of the distance

Lattice(t) ==
  {p \in [x : 0 .. MapWidth, y : 0 .. MapHeight - 1] :
     /\ deploymentBands(t).x0 <= p.x /\ p.x < deploymentBands(t).x1
     /\ (p.x - deploymentBands(t).x0) % BERTH_STEP = BERTH_STEP \div 2
     /\ p.y % BERTH_STEP = BERTH_STEP \div 2}

\* The width a hull wants, in metres: twice its radius in cells of 5 m, and 1.6 of that.
neededFor(h) == 16 * Hulls[h].clearanceRadius

\* Mutant: the world has no floor and no ceiling.
NoFrame == {}

\* The seabed below the lowest row and the surface above the highest are rock; the sides are open.
Frame == [x : 0 .. MapWidth - 1, y : {-1, MapHeight}]

\* The clearance is twice the distance to the middle of the nearest rock, less the half of a cell of
\* it: a width, and so is what is needed.
Clear(p, needed) ==
  \A r \in stone \cup Frame : Square(2 * RULER_CELL) * Apart(p, r) >= Square(needed + RULER_CELL)

Separated(p, h, placed, relaxation) ==
  \A b \in placed :
    100 * Apart(p, b.pos)
      >= Square((Hulls[h].clearanceRadius + Hulls[b.hull].clearanceRadius) * SEPARATION_FACTOR * relaxation)

\* Mutant: the last resort takes any water there is.
legalAnywhere(t, h, needed) == IF needed = ANY_WATER THEN Lattice(t) ELSE {p \in Lattice(t) : p.y >= minY(h)}

legal(t, h, needed) == {p \in Lattice(t) : p.y >= minY(h)}

\* The nearest place to the target; of two as near, the one further west, then the lower one.
scanBand(t, h, ordinal, n, placed, needed, relaxation) ==
  LET target == berthTarget(t, h, ordinal, n)
      score(p) == Apart([x |-> n * (2 * p.x + 1), y |-> n * (2 * p.y + 1)], target)
      free == {p \in legal(t, h, needed) : Clear(p, needed) /\ Separated(p, h, placed, relaxation)}
      before(p, q) == \/ score(p) < score(q)
                      \/ /\ score(p) = score(q)
                         /\ p.x < q.x \/ (p.x = q.x /\ p.y <= q.y)
  IN IF free = {} THEN NoPlace ELSE CHOOSE p \in free : \A q \in free : before(p, q)

\* Mutant: with no room to be had, the boat is put where it was aimed at.
findBerthOrTarget(t, h, ordinal, n, placed) ==
  LET at(i) == scanBand(t, h, ordinal, n, placed, neededFor(h), SEPARATION_STEPS[i])
      found == {i \in DOMAIN SEPARATION_STEPS : at(i) # NoPlace}
      target == berthTarget(t, h, ordinal, n)
  IN IF found # {} THEN at(CHOOSE i \in found : \A j \in found : i <= j)
     ELSE [x |-> target.x \div (2 * n), y |-> target.y \div (2 * n)]

\* Room between boats is given up in steps, then the room a hull wants; the depth never is.
findBerth(t, h, ordinal, n, placed) ==
  LET at(i) == scanBand(t, h, ordinal, n, placed, neededFor(h), SEPARATION_STEPS[i])
      found == {i \in DOMAIN SEPARATION_STEPS : at(i) # NoPlace}
      wet == scanBand(t, h, ordinal, n, placed, ANY_WATER, 0)
      target == berthTarget(t, h, ordinal, n)
  IN IF found # {} THEN at(CHOOSE i \in found : \A j \in found : i <= j)
     ELSE IF wet # NoPlace THEN wet
     ELSE [x |-> target.x \div (2 * n), y |-> target.y \div (2 * n)]

Team == TEAM_IDS[side]
Placed(t) == {b \in ToSet(berths) : b.team = t}

\* One boat more of the side that is being deployed, or on to the other side.
deployMatch ==
  /\ side <= Len(TEAM_IDS)
  /\ LET hulls == fleets[Team]
         ordinal == Cardinality(Placed(Team)) + 1
     IN IF ordinal > Len(hulls) THEN side' = side + 1 /\ UNCHANGED berths
        ELSE /\ berths' = Append(berths,
                  [id |-> Len(berths) + 1, team |-> Team, hull |-> hulls[ordinal],
                   pos |-> findBerth(Team, hulls[ordinal], ordinal, Len(hulls), Placed(Team))])
             /\ UNCHANGED side
  /\ UNCHANGED <<stone, fleets>>

NextBerths == deployMatch
SpecBerths == InitBerths /\ [][NextBerths]_berthVars

---------------------------------------------------------------------------
(* Properties.                                                             *)

Deployed == ToSet(berths)

\* No boat starts below the depth its hull is built for, however crowded the band and whatever
\* of it is stone (findBerth: "there is no relaxation that trades it away").
NoneStartsTooDeep == \A b \in Deployed : b.pos.y >= minY(b.hull)

\* No boat starts in stone as long as there is a place in its band, at its depths, that is water,
\* and every boat starts in the band of its side.
StartsInWater ==
  \A b \in Deployed :
    /\ deploymentBands(b.team).x0 <= b.pos.x /\ b.pos.x < deploymentBands(b.team).x1
    /\ (\E p \in Lattice(b.team) : p.y >= minY(b.hull) /\ p \notin stone) => b.pos \notin stone

\* A hull reaches into no stone, nor out of the water above or below, as long as there is a place in
\* its band, at its depths, as wide as it wants (findBerth, BERTH_CLEARANCE_FACTOR).
RoomForTheHull ==
  \A b \in Deployed :
    LET r == Hulls[b.hull].clearanceRadius
    IN (\E p \in Lattice(b.team) : p.y >= minY(b.hull) /\ Clear(p, neededFor(b.hull))) =>
         /\ r <= b.pos.y /\ b.pos.y < MapHeight - r
         /\ \A c \in stone : Apart(b.pos, c) > Square(r)

\* Two boats of a side share a place only when no other place would do for the later one.
SharedOnlyWhenFull ==
  \A b, c \in Deployed :
    (b.id < c.id /\ b.team = c.team /\ b.pos = c.pos) =>
       \A p \in Lattice(c.team) :
         (p.y >= minY(c.hull) /\ Clear(p, neededFor(c.hull))) =>
            \E d \in Deployed : d.id < c.id /\ d.team = c.team /\ ~Separated(p, c.hull, {d}, 3)

\* What findBerth gives up, in the order it gives it up.
BerthsAreSound == NoneStartsTooDeep /\ StartsInWater /\ RoomForTheHull /\ SharedOnlyWhenFull
=============================================================================
