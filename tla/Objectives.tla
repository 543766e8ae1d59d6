----------------------------- MODULE Objectives -----------------------------
(***************************************************************************)
(* The capture zones of a match (shared/src/match/objectives.ts) with what *)
(* the runtime does about a capture: retire, fillVacancies and tally of    *)
(* server/src/match/runtime.ts.                                            *)
(*                                                                         *)
(* The band of the map that zones may appear in is a line; a Spot is a     *)
(* candidate centre, one with room for the circle.  Distances are in units *)
(* of which OBJECTIVE_RADIUS has two, so that 2.5 radii are whole.         *)
(***************************************************************************)
EXTENDS Fleet

CONSTANTS
  Place,             \* where a boat may be
  Spot,              \* where a zone may be
  Deep,              \* the spots in deep water
  OBJECTIVE_COUNT,
  CAPTURE_TICKS,     \* CAPTURE_SECONDS and ARMING_SECONDS in ticks
  ARMING_TICKS,
  MAX_DEEP_OBJECTIVES

ASSUME ObjectivesAssumption ==
  /\ Place \subseteq Int /\ Spot \subseteq Place /\ Deep \subseteq Spot
  /\ IsFiniteSet(Spot)
  /\ OBJECTIVE_COUNT \in Nat
  /\ CAPTURE_TICKS \in Nat \ {0} /\ ARMING_TICKS \in Nat
  /\ MAX_DEEP_OBJECTIVES \in Nat

VARIABLES
  zones,        \* the labels of the zones standing -> the zone
  scores,       \* team -> objectives taken
  nextZoneId,   \* the zones placed so far; ids count up from ZONE_ID_BASE
  streak        \* history: label -> team -> ticks it has been in the circle without a break

zoneVars == <<zones, scores, nextZoneId, streak>>

Label == 1 .. OBJECTIVE_COUNT
OBJECTIVE_RADIUS == 2
CaptureZone ==
  [id : Nat, centre : Spot, armingTicks : 0 .. ARMING_TICKS,
   capturing : Team \cup {None}, progress : 0 .. CAPTURE_TICKS, contested : BOOLEAN]

Distance(x, y) == IF x > y THEN x - y ELSE y - x
withinZone(zone, x) == Distance(zone.centre, x) <= OBJECTIVE_RADIUS
Centres(board) == {board[l].centre : l \in DOMAIN board}

---------------------------------------------------------------------------
(* Placement.                                                              *)

\* The spots at least so far from those to avoid, in deep water only if it may be.
candidateCentres(avoid, separation, deepAllowed) ==
  {s \in Spot : /\ deepAllowed \/ s \notin Deep
                /\ \A o \in avoid : Distance(s, o) >= separation}

\* Where a zone may be put: at the widest of the separations 5, 2.5 and 2 radii that leaves
\* any spot at all; never where it would be a second deep one.  The ones just retired are
\* kept clear of but not counted.
SpawnPool(standing, clearOf) ==
  LET deepAllowed == Cardinality(standing \cap Deep) < MAX_DEEP_OBJECTIVES
      At(sep)     == candidateCentres(standing \cup clearOf, sep, deepAllowed)
  IN IF At(10) # {} THEN At(10) ELSE IF At(5) # {} THEN At(5) ELSE At(4)

spawnZone(id, spot, arming) ==
  [id |-> id, centre |-> spot, armingTicks |-> arming,
   capturing |-> None, progress |-> 0, contested |-> FALSE]

vacantLabels(board) == Label \ DOMAIN board

\* Mutant: all vacant slots are filled against the board as it was.
PlacementsAtOnce(board, clearOf) ==
  {p \in UNION {[S -> Spot] : S \in SUBSET vacantLabels(board)} :
     \A l \in vacantLabels(board) :
       IF l \in DOMAIN p THEN p[l] \in SpawnPool(Centres(board), clearOf)
       ELSE SpawnPool(Centres(board), clearOf) = {}}

\* The ways to fill vacant slots in their order, each measured against the board with the
\* earlier ones filled; a slot with nowhere to go stays empty.
Placements(board, clearOf) ==
  {p \in UNION {[S -> Spot] : S \in SUBSET vacantLabels(board)} :
     \A l \in vacantLabels(board) :
       LET before == Centres(board) \cup {p[m] : m \in {k \in DOMAIN p : k < l}}
       IN IF l \in DOMAIN p THEN p[l] \in SpawnPool(before, clearOf)
          ELSE SpawnPool(before, clearOf) = {}}

\* A board with the placed zones on it: ids are spent in label order, none on an empty slot.
fillVacancies(board, p, arming) ==
  [l \in DOMAIN board \cup DOMAIN p |->
     IF l \in DOMAIN p
     THEN spawnZone(nextZoneId + Cardinality({k \in DOMAIN p : k < l}), p[l], arming)
     ELSE board[l]]

EmptyBoard == [l \in {} |-> None]

---------------------------------------------------------------------------
(* Capture.                                                                *)

\* The teams with a boat afloat in a circle; where boats are is settled by the tick.
TeamsInside(zone, afloat, where) ==
  {TeamOf[b] : b \in {c \in afloat : withinZone(zone, where[c])}}

\* Mutant: progress outlives the presence of the team that made it.
advanceZoneInherited(zone, inside) ==
  IF zone.armingTicks > 0 THEN [zone EXCEPT !.armingTicks = @ - 1]
  ELSE IF Cardinality(inside) > 1 THEN [zone EXCEPT !.contested = TRUE]
  ELSE IF inside = {} THEN [zone EXCEPT !.capturing = None, !.progress = 0, !.contested = FALSE]
  ELSE [zone EXCEPT !.capturing = CHOOSE t \in inside : TRUE, !.contested = FALSE,
                    !.progress = IF @ < CAPTURE_TICKS THEN @ + 1 ELSE @]

\* One zone, one tick, with these teams in the circle.
advanceZone(zone, inside) ==
  LET gone == zone.capturing \notin inside
      kept == IF gone THEN 0 ELSE zone.progress
      held == IF gone THEN None ELSE zone.capturing
  IN IF zone.armingTicks > 0 THEN [zone EXCEPT !.armingTicks = @ - 1]
     ELSE IF Cardinality(inside) > 1
     THEN [zone EXCEPT !.capturing = held, !.progress = kept, !.contested = TRUE]
     ELSE IF inside = {}
     THEN [zone EXCEPT !.capturing = None, !.progress = 0, !.contested = FALSE]
     ELSE [zone EXCEPT !.capturing = CHOOSE t \in inside : TRUE, !.contested = FALSE,
                       !.progress = IF kept < CAPTURE_TICKS THEN kept + 1 ELSE kept]

Advanced(afloat, where) ==
  [l \in DOMAIN zones |-> advanceZone(zones[l], TeamsInside(zones[l], afloat, where))]

Captured(board) ==
  {l \in DOMAIN board : board[l].capturing # None /\ board[l].progress = CAPTURE_TICKS}

\* Mutant: a captured zone is left standing.
retireNothing(board, taken) == board

retire(board, taken) == [l \in DOMAIN board \ taken |-> board[l]]

tally(board, taken) ==
  [t \in Team |-> scores[t] + Cardinality({l \in taken : board[l].capturing = t})]

\* How long each team has been in a circle: from its opening, without a break.
Streaks(afloat, where) ==
  [l \in Label |-> [t \in Team |->
     IF /\ l \in DOMAIN zones /\ zones[l].armingTicks = 0
        /\ t \in TeamsInside(zones[l], afloat, where)
     THEN IF streak[l][t] < CAPTURE_TICKS THEN streak[l][t] + 1 ELSE CAPTURE_TICKS
     ELSE 0]]
NoStreak == [t \in Team |-> 0]

---------------------------------------------------------------------------
(* The board through a match: the opening layout, and the zones' part of   *)
(* a tick.                                                                 *)

\* Objective capture opens with as many zones as fit; deathmatch has none.
InitBoard(objectives) ==
  /\ zones \in IF objectives
               THEN {[l \in DOMAIN p |->
                        spawnZone(Cardinality({k \in DOMAIN p : k < l}), p[l], 0)] :
                     p \in Placements(EmptyBoard, {})}
               ELSE {EmptyBoard}
  /\ nextZoneId = Cardinality(DOMAIN zones)
  /\ scores = [t \in Team |-> 0]
  /\ streak = [l \in Label |-> NoStreak]

\* A board nobody took anything off goes on; captured zones are retired, paid for and
\* replaced on the tick they fall.
ZonesTick(afloat, where) ==
  LET board == Advanced(afloat, where)
      taken == Captured(board)
      left  == retire(board, taken)
  IN IF taken = {}
     THEN /\ zones' = board
          /\ streak' = Streaks(afloat, where)
          /\ UNCHANGED <<scores, nextZoneId>>
     ELSE \E p \in Placements(left, {board[l].centre : l \in taken}) :
            /\ zones' = fillVacancies(left, p, ARMING_TICKS)
            /\ nextZoneId' = nextZoneId + Cardinality(DOMAIN p)
            /\ scores' = tally(board, taken)
            /\ streak' = [l \in Label |-> IF l \in taken \cup DOMAIN p THEN NoStreak
                                          ELSE Streaks(afloat, where)[l]]

InitZones == destroyed = {} /\ \E objectives \in BOOLEAN : InitBoard(objectives)
NextZones ==
  /\ destroyed' \in SUBSET Boat
  /\ \E where \in [Boat -> Place] : ZonesTick(Boat \ destroyed', where)
SpecZones == InitZones /\ [][NextZones]_<<zoneVars, destroyed>>

---------------------------------------------------------------------------
(* Properties.                                                             *)

ZonesTypeOK ==
  /\ DOMAIN zones \subseteq Label
  /\ \A l \in DOMAIN zones : zones[l] \in CaptureZone
  /\ scores \in [Team -> Nat]
  /\ nextZoneId \in Nat
  /\ streak \in [Label -> [Team -> 0 .. CAPTURE_TICKS]]

\* No progress is ever inherited: a zone shows what the team that is capturing it has put in
\* itself, in the circle on every tick since it began, though circles change hands within
\* a tick and freeze while both are inside (advanceZone).
ProgressIsEarned ==
  \A l \in DOMAIN zones :
    IF zones[l].capturing = None THEN zones[l].progress = 0
    ELSE /\ zones[l].progress \in 1 .. CAPTURE_TICKS
         /\ zones[l].progress <= streak[l][zones[l].capturing]

\* The board as spawnZone promises it, with several slots filled on one tick: circles never
\* overlap, no more than MAX_DEEP_OBJECTIVES are deep, and ids are fresh.
BoardIsLegal ==
  /\ \A l, m \in DOMAIN zones : l # m =>
       /\ Distance(zones[l].centre, zones[m].centre) >= 2 * OBJECTIVE_RADIUS
       /\ zones[l].id # zones[m].id
  /\ Cardinality({l \in DOMAIN zones : zones[l].centre \in Deep}) <= MAX_DEEP_OBJECTIVES
  /\ \A l \in DOMAIN zones : zones[l].id < nextZoneId

\* A capture pays exactly once: the objectives taken are the zones that were placed and are
\* not standing any more (retire, tally).
CapturesPayOnce == SumOver(scores, Team) = nextZoneId - Cardinality(DOMAIN zones)
=============================================================================
