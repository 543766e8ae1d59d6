----------------------------- MODULE MCServices -----------------------------
(* Values for the parts outside the lobby and the match.                   *)
EXTENDS Services, TLC

CONSTANTS h1, tube, pump, screw, old, f1, f2,     \* fleets
          c1, c2, n1, n2,                         \* accounts
          a1, a2, sp, tA, tB,                     \* chat
          b1, b2, b3,                             \* helm
          light, heavy                            \* berths

\* A release that takes a slot off the hull and retires a module.
TwoReleases == <<{tube, pump, screw, old}, {tube, pump, screw}>>
HullSlots ==
  << h1 :> [equipment |-> 2, weapon |-> 1], h1 :> [equipment |-> 1, weapon |-> 1] >>
Kinds == (tube :> "weapon") @@ (pump :> "equipment") @@ (screw :> "equipment") @@ (old :> "weapon")
Prices == (tube :> 1) @@ (pump :> 2) @@ (screw :> 3) @@ (old :> 5)
Op(op, v, n) == [op |-> op, value |-> v, notch |-> n]
Effects == (tube :> <<Op("max", 9, "always")>>)
        @@ (pump :> <<Op("add", 2, "always"), Op("set", 4, "slow")>>)
        @@ (screw :> <<Op("mul", 2, "always")>>)
        @@ (old :> <<Op("min", 3, "full"), Op("add", 1, "flank")>>)
HullPoints == h1 :> 7

\* All of the edits around one call at a time, or boats that come and go around calls that overlap.
Desk(n, kinds, most, last) ==
  [edits |-> n, kinds |-> kinds, calls |-> most, last |-> last, engine |-> "sync"]
TwoDesks == {Desk(3, EditKind, 1, 2), Desk(2, {"new", "boats"}, 2, 1)}

\* Two names at one moment, one name while a use is stamped, or two calls and time enough for a
\* session to be extended and to end.
ThreeStays == {[names |-> {n1, n2}, calls |-> 3, until |-> 0], [names |-> {n1}, calls |-> 3, until |-> 2],
               [names |-> {n1}, calls |-> 2, until |-> 4]}
Alike == Permutations({c1, c2}) \cup Permutations({n1, n2}) \cup Permutations({f1, f2})

\* Everybody speaks at one moment; a player and the spectator do, and a socket breaks or is
\* replaced, or a page leaves; or it does while a player speaks and the clock runs.
EveningOf(who, ticks, most) == [speak |-> who, clock |-> ticks, breaks |-> most]
ThreeEvenings == {EveningOf(Talker, 0, 0), EveningOf({a1, sp}, 0, 1), EveningOf({a1}, 2, 1)}
Sides == (a1 :> tA) @@ (a2 :> tB) @@ (sp :> Observing)

ThreeBoats == (b1 :> 2) @@ (b2 :> 7) @@ (b3 :> 12)
TwoNotches == [slow |-> 1, full |-> 2]

TwoHulls == (light :> [clearanceRadius |-> 1, testDepth |-> 9])
         @@ (heavy :> [clearanceRadius |-> 2, testDepth |-> 6])
FleetLists == {<<>>, <<light, light, light>>, <<heavy, light, heavy>>,
               <<heavy, heavy, heavy, heavy>>}
Fleets == [{"team1", "team2"} -> FleetLists]
Block(X, Y) == [x : X, y : Y]
\* Open water, a wall through a band, stone above, stone below, a band that is all but full, water
\* under the surface only, none at all, and a rock in each band.
Caves == { {}, Block({2}, 0 .. 11), Block(0 .. 5, 4 .. 11), Block(0 .. 19, 0 .. 6),
           Block(0 .. 4, 0 .. 9) \cup Block({17}, 0 .. 11), Block(0 .. 19, 0 .. 10), Block(0 .. 19, 0 .. 11),
           {[x |-> 3, y |-> 9], [x |-> 16, y |-> 9]} }

\* The sparse tuning in lengths of 20 m, on the three sizes of map and on ones too low for it.
Sparse(h, n) ==
  [mapHeight |-> h, floor |-> 10, ceiling |-> 50, trunk |-> 20, wall |-> 6, margin |-> 1,
   widening |-> 3, routeCount |-> n, short |-> 16, tall |-> 36]
CaveTunings == {Sparse(140, 5), Sparse(200, 6), Sparse(300, 6), Sparse(100, 3), Sparse(60, 3),
                Sparse(42, 2), Sparse(38, 2)}

\* Open water, more than a field may hold; a rock that is gone round, one that is not in the way,
\* and two that seal a passage on the diagonal.
SoundMaps == { {}, {14}, {3}, {2, 11} }
InverseSquare == [r \in 0 .. 18 |-> IF r = 0 THEN 900 ELSE 900 \div (r * r)]
\* A boat whose hull reaches into the next cell, one that may ping, near or far, and a wreck that
\* may lie beside either.
BoatAt(at, reach, emits, deafens, self, team) ==
  [at |-> at, seed |-> 1, emits |-> emits, deafens |-> deafens, hears |-> TRUE, selfNoise |-> self,
   team |-> team, hull |-> {reach}, absorption |-> 2]
WreckAt(at, emits) ==
  [at |-> at, seed |-> 0, emits |-> emits, deafens |-> emits, hears |-> FALSE, selfNoise |-> 0,
   team |-> "none", hull |-> {at}, absorption |-> 1]
Waters ==
  {<<BoatAt(0, 8, n, n, 0, "team1"), BoatAt(b, b, k, k \div 4, 1, t), WreckAt(c, m)>> :
     n \in {0, 2}, b \in {1, 7}, k \in {20, 270}, t \in {"team1", "team2"}, c \in {1, 7}, m \in {0, 3}}

\* Squares are charted, or launches are heard: neither has anything to do with the other.
TwoOutlooks ==
  {[squares |-> ChartSquare, launches |-> {}], [squares |-> {}, launches |-> Launch]}
=============================================================================
