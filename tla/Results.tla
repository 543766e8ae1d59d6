------------------------------ MODULE Results ------------------------------
(***************************************************************************)
(* Who did what, who is ahead and when it is over: the tallies and         *)
(* standings the runtime keeps (server/src/match/runtime.ts, standingFor   *)
(* of shared/src/match/state.ts) and the end of a match                    *)
(* (shared/src/match/results.ts).                                          *)
(***************************************************************************)
EXTENDS Weapons, Objectives

CONSTANTS
  Cost,           \* boat -> its price
  ScoreTarget,    \* objectives that win
  Share           \* a hit point is so many shares, to split one between attackers

Reason == {"wipe", "score", "time", "abandoned"}

ASSUME ResultsAssumption ==
  /\ Cost \in [Boat -> Nat] /\ ScoreTarget \in Nat \ {0} /\ Share \in Nat \ {0}
  /\ None \notin Nat
  /\ None \notin [winner : Team \cup {None}, reason : Reason, tick : Nat]

VARIABLES
  tallies,    \* boat -> what it did
  teams,      \* team -> the standing last worked out; its score is in scores
  results,    \* how the match ended, or None while it is on
  rammed      \* history: the hit points lost in collisions

resultVars == <<tallies, teams, results, rammed>>

BoatTally ==
  [damageDealt : Nat, sank : SUBSET Boat, captures : Nat, torpedoesFired : Nat,
   destroyedTick : Nat \cup {None}]
EmptyTally ==
  [damageDealt |-> 0, sank |-> {}, captures |-> 0, torpedoesFired |-> 0, destroyedTick |-> None]

---------------------------------------------------------------------------
(* Standings.  Points are counted in halves.                               *)

isDamaged(points, b) == 2 * points[b] < MaxHp[b]
survivingValue(points, b) ==
  IF points[b] = 0 THEN 0 ELSE IF isDamaged(points, b) THEN Cost[b] ELSE 2 * Cost[b]

standingFor(points, t) ==
  [survivingPoints |-> SumOver([b \in Fleet(t) |-> survivingValue(points, b)], Fleet(t)),
   boatsAlive      |-> Cardinality({b \in Fleet(t) : points[b] > 0})]

standings(points) == [t \in Team |-> standingFor(points, t)]

InitResults ==
  /\ tallies = [b \in Boat |-> EmptyTally]
  /\ teams = standings(MaxHp)
  /\ results = None
  /\ rammed = 0

---------------------------------------------------------------------------
(* Credit for the harm of a tick.  A collision is [touched, harm]: what    *)
(* resolveCollisions did.                                                  *)

Lost(ram, v) == Settled(ram.harm)[v] - hp'[v]
Claim(fate, a, v) ==
  LET own == {i \in InWater : torpedoes[i].firedBy = a}
  IN SumOver([i \in own |-> fate[i].harm[v]], own)
Claimed(fate, v) == SumOver([i \in InWater |-> fate[i].harm[v]], InWater)

\* Mutant: overkill counts.
DealtInFull(ram, fate, a) == SumOver([v \in Boat |-> Claim(fate, a, v) * Share], Boat)

\* Damage is what landed: an attacker's part of what the victim lost, friend or foe.
Dealt(ram, fate, a) ==
  LET part(v) == IF Claimed(fate, v) = 0 THEN 0
                 ELSE (Claim(fate, a, v) * Lost(ram, v) * Share) \div Claimed(fate, v)
  IN SumOver([v \in Boat |-> part(v)], Boat)

\* A kill goes to whoever claims most of the victim; of several, to the first to go off.
Killer(fate, v) ==
  LET most  == {a \in Boat : /\ Claim(fate, a, v) > 0
                             /\ \A c \in Boat : Claim(fate, c, v) <= Claim(fate, a, v)}
      first == {i \in InWater : fate[i].harm[v] > 0 /\ torpedoes[i].firedBy \in most}
  IN IF most = {} THEN None
     ELSE torpedoes[CHOOSE i \in first : \A j \in first : i <= j].firedBy

\* Mutant: whoever had a part in it sank it.
SankTogether(ram, fate, a) ==
  {v \in destroyed' : Settled(ram.harm)[v] > 0 /\ Claim(fate, a, v) > 0}

\* A boat that the collision left afloat and the weapons did not.
Sank(ram, fate, a) ==
  {v \in destroyed' : Settled(ram.harm)[v] > 0 /\ Killer(fate, v) = a}

\* Mutant: captures are credited off the board the zones have been retired from.
CapturesOfTheRest(b, board, where) ==
  LET left == retire(board, Captured(board))
  IN Cardinality({l \in Captured(left) : /\ left[l].capturing = TeamOf[b] /\ b \notin destroyed'
                                         /\ withinZone(left[l], where[b])})

\* What one boat was in on of the zones that fell.
CapturesOf(b, board, where) ==
  Cardinality({l \in Captured(board) :
                 /\ board[l].capturing = TeamOf[b] /\ b \notin destroyed'
                 /\ withinZone(board[l], where[b])})

\* Mutant: a loss is noted on the ticks a warhead landed.
noteLossesToWeapons(ram, fate) == Harm(fate) # Unharmed

\* Whether a wreck may be new: something collided or a warhead landed.
noteLosses(ram, fate) == ram.touched \/ Harm(fate) # Unharmed

Tallied(now, ram, fate, board, where) ==
  [b \in Boat |->
     [tallies[b] EXCEPT
        !.damageDealt = @ + Dealt(ram, fate, b),
        !.sank = @ \cup Sank(ram, fate, b),
        !.captures = @ + CapturesOf(b, board, where),
        !.destroyedTick = IF b \in destroyed' /\ @ = None /\ noteLosses(ram, fate)
                          THEN now ELSE @]]

\* Mutant: a collision moves no hit points.
standsToRecountByFire(ram, fate, board) == Harm(fate) # Unharmed \/ Captured(board) # {}

\* Whether the standings are worked out again: something collided, a hull lost a point to a
\* weapon, or a zone fell.
standsToRecount(ram, fate, board) ==
  ram.touched \/ Harm(fate) # Unharmed \/ Captured(board) # {}

---------------------------------------------------------------------------
(* The end.                                                                *)

Decision(winner, reason) == [winner |-> winner, reason |-> reason]

\* Who is ahead by the mode's own measure; nobody has been detected for any time yet.
leader(objectives, score, standing) ==
  LET measure(t) == IF objectives THEN score[t] ELSE standing[t].survivingPoints
      ahead      == {t \in Team : \A u \in Team \ {t} : measure(t) > measure(u)}
  IN IF ahead = {} THEN None ELSE CHOOSE t \in ahead : TRUE

Wiped(standing) == {t \in Team : Fleet(t) # {} /\ standing[t].boatsAlive = 0}

\* Mutant: the score is asked before the fleets.
decideByScore(objectives, score, standing, due) ==
  IF objectives /\ \E t \in Team : score[t] >= ScoreTarget
  THEN {Decision(leader(objectives, score, standing), "score")}
  ELSE IF Wiped(standing) # {}
  THEN {Decision(IF Wiped(standing) = Team THEN None
                 ELSE CHOOSE t \in Team : t \notin Wiped(standing), "wipe")}
  ELSE IF due THEN {Decision(leader(objectives, score, standing), "time")} ELSE {}

\* What ends the match, if anything does: a wiped-out fleet, then the score, then the clock.
decideMatch(objectives, score, standing, due) ==
  IF Wiped(standing) # {}
  THEN {Decision(IF Wiped(standing) = Team THEN None
                 ELSE CHOOSE t \in Team : t \notin Wiped(standing), "wipe")}
  ELSE IF objectives /\ \E t \in Team : score[t] >= ScoreTarget
  THEN {Decision(leader(objectives, score, standing), "score")}
  ELSE IF due THEN {Decision(leader(objectives, score, standing), "time")} ELSE {}

\* Before all of that, a match everybody has gone from is nobody's.
decideAbandonment(players, connected) ==
  IF players # {} /\ connected = {} THEN {Decision(None, "abandoned")} ELSE {}

Verdict(objectives, players, connected, due) ==
  LET gone == decideAbandonment(players, connected)
  IN IF gone # {} THEN gone ELSE decideMatch(objectives, scores', teams', due)

---------------------------------------------------------------------------
(* Properties.                                                             *)

ResultsTypeOK ==
  /\ tallies \in [Boat -> BoatTally]
  /\ teams \in [Team -> [survivingPoints : Nat, boatsAlive : Nat]]
  /\ rammed \in Nat
  /\ results # None => results.reason \in Reason

\* The standings shown are those of the fleet as it is, though they are recounted on some ticks
\* only (the guard by identity in tick).
StandingsAreCurrent == teams = standings(hp)

\* Damage is what landed: what the boats are credited with and what collisions took is what the
\* fleets have lost, to the point, however many warheads meet in one tick and whatever is left
\* of the hull (creditWeapons).
HarmIsCredited ==
  SumOver([b \in Boat |-> tallies[b].damageDealt], Boat) + Share * rammed
    = Share * SumOver([b \in Boat |-> MaxHp[b] - hp[b]], Boat)

\* Every wreck is somebody's kill or nobody's, never two boats' and never one still afloat, and
\* each has the tick it went down on.
KillsAreLosses ==
  /\ \A b \in Boat : tallies[b].sank \subseteq destroyed
  /\ \A b, c \in Boat : b # c => tallies[b].sank \cap tallies[c].sank = {}
  /\ rammed = 0 => destroyed = UNION {tallies[b].sank : b \in Boat}

LossesAreStamped ==
  \A b \in Boat : b \in destroyed <=> tallies[b].destroyedTick # None

\* An objective counts for the side of the boats that were in it: a side has taken one exactly
\* when one of its boats has.
CapturesAreCredited ==
  \A t \in Team :
    /\ scores[t] <= SumOver([b \in Fleet(t) |-> tallies[b].captures], Fleet(t))
    /\ scores[t] = 0 => \A b \in Fleet(t) : tallies[b].captures = 0

\* What the report of the match will say agrees with what happened in it: the harm, the kills,
\* the losses, the captures, each paid for once, and the standings, whichever of collisions,
\* warheads and captures fall on the same tick.
BooksAgree ==
  /\ StandingsAreCurrent /\ HarmIsCredited /\ KillsAreLosses /\ LossesAreStamped
  /\ CapturesAreCredited /\ CapturesPayOnce
=============================================================================
