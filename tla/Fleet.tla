------------------------------- MODULE Fleet -------------------------------
(***************************************************************************)
(* The boats of a match, as every other part of it sees them               *)
(* (shared/src/match/world.ts): who is on which side, and which are        *)
(* wrecks.  A boat that is destroyed stays in the match as a wreck.        *)
(***************************************************************************)
EXTENDS Series

CONSTANTS
  Boat, Team,
  TeamOf,     \* boat -> its team
  TubeLoad,   \* the loads a tube may hold
  None

ASSUME FleetAssumption ==
  /\ TeamOf \in [Boat -> Team] /\ IsFiniteSet(Boat) /\ IsFiniteSet(Team)
  /\ None \notin Boat /\ None \notin Team

VARIABLE destroyed   \* the boats that are wrecks

Active == Boat \ destroyed
Fleet(t) == {b \in Boat : TeamOf[b] = t}
=============================================================================
