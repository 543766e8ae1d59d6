---------------------------- MODULE ServicesProofs ----------------------------
(***************************************************************************)
(* Theorems of SpecServices, for every value of the constants: driving is  *)
(* safe, wrecks go down, an account answers for one person, a session runs *)
(* out when it was said to, talk reaches who may hear it, the surfaces of  *)
(* a client show what its picture holds, and every part is well-formed.    *)
(* What a match is prepared with is in PreparationProofs.                  *)
(*                                                                         *)
(* A behaviour of SpecServices is one of each part's own specification,    *)
(* so a part is reasoned about by itself (HelmAlone, AccountsAlone,        *)
(* ChatAlone, ScopeAlone).                                                 *)
(***************************************************************************)
EXTENDS PreparationProofs

---------------------------------------------------------------------------
(* Driving.                                                                *)

TopSpeed == NotchSpeed[FastestNotch]

LEMMA NotchesAreSpeeds ==
  /\ TopSpeed \in Nat \ {0}
  /\ \A n \in DOMAIN NotchSpeed : NotchSpeed[n] \in Nat \ {0} /\ NotchSpeed[n] <= TopSpeed
BY HelmAssumption DEF TopSpeed, FastestNotch

\* A boat's state.  What a collision costs is a sum over its contacts, so of the
\* hitpoints no more is said here than that they are a field.
Shape(s) ==
  s \in [x : Int, sunk : Nat, facing : {-1, 1}, speed : 0 .. TopSpeed,
         throttle : DOMAIN NotchSpeed, hp : {s.hp}, order : Seq(Line), destroyed : BOOLEAN]

Driven(s) == ~s.destroyed /\ s.order # HOLDING

\* How many more ticks the first waypoint can take: the way off, the flip and the
\* line, or what is left of the way there.
ToGo(s) ==
  IF s.facing = Side(Head(s.order) - s.x) THEN Gap(s.x, Head(s.order))
  ELSE s.speed + 1 + LineWidth

\* Speeds come closer to what they approach.
LEMMA Approaching ==
  ASSUME NEW v \in 0 .. TopSpeed
  PROVE  /\ approach(v, 0) \in 0 .. TopSpeed /\ (v > 0 => approach(v, 0) < v)
         /\ \A n \in DOMAIN NotchSpeed : approach(v, NotchSpeed[n]) \in 1 .. TopSpeed
<1>1. TopSpeed \in Nat /\ ACCELERATION \in Nat \ {0}
  BY NotchesAreSpeeds, HelmAssumption
<1> QED BY <1>1, NotchesAreSpeeds DEF approach

\* A route is a sequence of places on the line.
LEMMA Routes ==
  ASSUME NEW route \in Seq(Line), route # <<>>
  PROVE  /\ Head(route) \in Line /\ Head(route) \in Int
         /\ Tail(route) \in Seq(Line) /\ Tail(route) # route
BY HelmAssumption DEF Line

LEMMA ShapeOf ==
  ASSUME NEW s, Shape(s)
  PROVE  /\ s.x \in Int /\ s.facing \in {-1, 1} /\ s.speed \in 0 .. TopSpeed /\ s.speed \in Int
         /\ s.throttle \in DOMAIN NotchSpeed /\ s.order \in Seq(Line) /\ s.destroyed \in BOOLEAN
         /\ TopSpeed \in Nat /\ LineWidth \in Nat
         /\ approach(s.speed, 0) \in 0 .. TopSpeed
         /\ approach(s.speed, NotchSpeed[s.throttle]) \in 1 .. TopSpeed
<1>1. /\ s.x \in Int /\ s.facing \in {-1, 1} /\ s.speed \in 0 .. TopSpeed
      /\ s.throttle \in DOMAIN NotchSpeed /\ s.order \in Seq(Line) /\ s.destroyed \in BOOLEAN
  BY DEF Shape
<1>2. TopSpeed \in Nat /\ LineWidth \in Nat
  BY NotchesAreSpeeds, HelmAssumption
<1>3. /\ approach(s.speed, 0) \in 0 .. TopSpeed
      /\ approach(s.speed, NotchSpeed[s.throttle]) \in 1 .. TopSpeed
  BY <1>1, Approaching
<1> QED BY <1>1, <1>2, <1>3

LEMMA Onward ==
  ASSUME NEW x \in Int, NEW f \in {-1, 1}, NEW v \in Int
  PROVE  x + f * v \in Int /\ x + f * v = IF f = 1 THEN x + v ELSE x - v
OBVIOUS

\* Movement keeps a boat's shape and its damage, and moves only a boat with an order.
LEMMA StepKeepsShape ==
  ASSUME NEW s, Shape(s)
  PROVE  LET t == stepBoat(s) IN
           /\ Shape(t) /\ t.hp = s.hp /\ t.destroyed = s.destroyed
           /\ t.x # s.x => Driven(s)
           /\ Driven(t) => Driven(s)
           /\ s.destroyed => t.sunk = sinkWreck(s).sunk
<1> DEFINE fields == [x : Int, sunk : Nat, facing : {-1, 1}, speed : 0 .. TopSpeed,
                      throttle : DOMAIN NotchSpeed, hp : {s.hp}, order : Seq(Line),
                      destroyed : BOOLEAN]
<1>0. s \in fields
  BY DEF Shape
<1>1. \A t \in fields : Shape(t) /\ t.hp = s.hp
  BY DEF Shape
<1>2. sinkWreck(s) \in fields /\ sinkWreck(s).x = s.x /\ sinkWreck(s).destroyed = s.destroyed
  BY <1>0 DEF sinkWreck
<1>3. /\ flipToward(s) \in fields /\ flipToward(s).destroyed = s.destroyed
      /\ flipToward(s).order = s.order
  <2> DEFINE v == approach(s.speed, 0)
  <2>1. v \in 0 .. TopSpeed /\ v \in Int /\ s.facing \in {-1, 1} /\ s.x \in Int
    BY ShapeOf
  <2>2. s.x + s.facing * v \in Int /\ -s.facing \in {-1, 1}
    BY <2>1, Onward
  <2> HIDE DEF v
  <2>3. [s EXCEPT !.speed = v, !.x = @ + s.facing * v] \in fields
    BY <1>0, <2>1, <2>2
  <2>4. [s EXCEPT !.speed = 0, !.facing = -@] \in fields
    <3>1. 0 \in 0 .. TopSpeed
      BY ShapeOf
    <3>2. \A f \in {-1, 1} : [s EXCEPT !.speed = 0, !.facing = f] \in fields
      BY <1>0, <3>1
    <3> QED BY <2>2, <3>2
  <2>5. /\ [s EXCEPT !.speed = v, !.x = @ + s.facing * v].destroyed = s.destroyed
        /\ [s EXCEPT !.speed = v, !.x = @ + s.facing * v].order = s.order
        /\ [s EXCEPT !.speed = 0, !.facing = -@].destroyed = s.destroyed
        /\ [s EXCEPT !.speed = 0, !.facing = -@].order = s.order
    BY <1>0
  <2> HIDE DEF fields
  <2> QED BY <2>3, <2>4, <2>5 DEF flipToward, v
<1>4. ASSUME s.order # HOLDING
      PROVE  runToward(s, Head(s.order)) \in fields
             /\ runToward(s, Head(s.order)).destroyed = s.destroyed
  <2> DEFINE v == approach(s.speed, NotchSpeed[s.throttle])
             to == Head(s.order)
  <2>1. v \in 0 .. TopSpeed /\ v \in Int /\ s.facing \in {-1, 1} /\ s.x \in Int
    BY ShapeOf
  <2>2. to \in Int /\ Tail(s.order) \in Seq(Line)
    BY <1>4, Routes, ShapeOf DEF HOLDING
  <2>3. s.x + s.facing * v \in Int
    BY <2>1, Onward
  <2>4. (IF Len(s.order) = 1 THEN 0 ELSE v) \in 0 .. TopSpeed
    BY <2>1, ShapeOf
  <2> HIDE DEF v, to
  <2>5. /\ [s EXCEPT !.speed = v, !.x = @ + s.facing * v] \in fields
        /\ [s EXCEPT !.speed = v, !.x = @ + s.facing * v].destroyed = s.destroyed
    BY <1>0, <2>1, <2>3
  <2>6. \A n \in 0 .. TopSpeed, route \in Seq(Line) :
          /\ [s EXCEPT !.x = to, !.order = route, !.speed = n] \in fields
          /\ [s EXCEPT !.x = to, !.order = route, !.speed = n].destroyed = s.destroyed
    BY <1>0, <2>2
  <2> HIDE DEF fields
  <2> QED BY <2>2, <2>4, <2>5, <2>6 DEF runToward, v, to
<1>5. s.destroyed \in BOOLEAN
  BY ShapeOf
<1> HIDE DEF fields
<1>6. CASE s.destroyed
  BY <1>1, <1>2, <1>6 DEF stepBoat, Driven
<1>7. CASE ~s.destroyed /\ s.order = HOLDING
  BY <1>0, <1>1, <1>7 DEF stepBoat, Driven
<1>8. CASE ~s.destroyed /\ s.order # HOLDING
  BY <1>1, <1>3, <1>4, <1>8 DEF stepBoat, Driven
<1> QED BY <1>6, <1>7, <1>8

\* A tick brings the first waypoint nearer, or reaches it.
LEMMA StepComesNearer ==
  ASSUME NEW s, Shape(s), Driven(s), s.x \in Line
  PROVE  LET t == stepBoat(s)
         IN t.order # s.order \/ (t.order = s.order /\ ToGo(t) + 1 <= ToGo(s))
<1> DEFINE to == Head(s.order)
<1>1. /\ s.x \in Int /\ s.facing \in {-1, 1} /\ s.speed \in 0 .. TopSpeed
      /\ s.throttle \in DOMAIN NotchSpeed /\ s.order \in Seq(Line) /\ s.order # <<>>
      /\ LineWidth \in Nat /\ TopSpeed \in Nat
  BY ShapeOf DEF Driven, HOLDING
<1>2. to \in Line /\ to \in Int /\ Gap(s.x, to) \in 0 .. LineWidth
  BY <1>1, Routes DEF Line, Gap
<1>3. Tail(s.order) # s.order
  BY <1>1, Routes
<1>4. CASE s.facing # Side(to - s.x)
  <2> DEFINE v == approach(s.speed, 0)
  <2>1. v \in 0 .. TopSpeed /\ (s.speed > 0 => v < s.speed) /\ stepBoat(s) = flipToward(s)
    BY <1>1, <1>4, Approaching DEF stepBoat, Driven, HOLDING
  <2>2. ToGo(s) = s.speed + 1 + LineWidth
    BY <1>4 DEF ToGo
  <2>3. CASE v = 0
    <3>1. /\ flipToward(s).x = s.x /\ flipToward(s).facing = -s.facing
          /\ flipToward(s).order = s.order
      BY <1>1, <2>3 DEF flipToward, Shape
    <3>2. -s.facing = Side(to - s.x)
      BY <1>1, <1>2, <1>4 DEF Side
    <3> QED BY <1>1, <1>2, <2>1, <2>2, <3>1, <3>2 DEF ToGo
  <2>4. CASE v # 0
    <3>1. /\ flipToward(s).x = s.x + s.facing * v /\ flipToward(s).facing = s.facing
          /\ flipToward(s).order = s.order /\ flipToward(s).speed = v
      BY <1>1, <2>4 DEF flipToward, Shape
    <3>2. s.facing # Side(to - (s.x + s.facing * v))
      <4>1. CASE s.facing = 1
        BY <1>1, <1>2, <1>4, <2>1, <4>1 DEF Side
      <4>2. CASE s.facing = -1
        BY <1>1, <1>2, <1>4, <2>1, <4>2 DEF Side
      <4> QED BY <1>1, <4>1, <4>2
    <3>3. ToGo(flipToward(s)) = v + 1 + LineWidth
      BY <3>1, <3>2 DEF ToGo
    <3>4. v < s.speed
      BY <1>1, <2>1, <2>4, HelmAssumption DEF approach
    <3> HIDE DEF v
    <3> QED BY <1>1, <2>1, <2>2, <3>1, <3>3, <3>4
  <2> QED BY <2>3, <2>4
<1>5. CASE s.facing = Side(to - s.x)
  <2> DEFINE v == approach(s.speed, NotchSpeed[s.throttle])
  <2>1. v \in 1 .. TopSpeed /\ stepBoat(s) = runToward(s, to)
    BY <1>1, <1>5, Approaching DEF stepBoat, Driven, HOLDING
  <2>2. ToGo(s) = Gap(s.x, to)
    BY <1>5 DEF ToGo
  <2>3. CASE v < Gap(s.x, to)
    <3>1. /\ runToward(s, to).x = s.x + s.facing * v /\ runToward(s, to).facing = s.facing
          /\ runToward(s, to).order = s.order
      BY <1>1, <2>3 DEF runToward, Shape
    <3>2. /\ s.facing = Side(to - (s.x + s.facing * v))
          /\ Gap(s.x + s.facing * v, to) = Gap(s.x, to) - v
      <4> HIDE DEF v, to
      <4>0. s.x + s.facing * v = IF s.facing = 1 THEN s.x + v ELSE s.x - v
        <5>1. v \in Int
          BY <1>1, <2>1
        <5> QED BY <1>1, <5>1, Onward
      <4>1. CASE s.facing = 1
        BY <1>1, <1>2, <1>5, <2>1, <2>3, <4>0, <4>1 DEF Side, Gap
      <4>2. CASE s.facing = -1
        BY <1>1, <1>2, <1>5, <2>1, <2>3, <4>0, <4>2 DEF Side, Gap
      <4> QED BY <1>1, <4>1, <4>2
    <3>3. ToGo(runToward(s, to)) = Gap(s.x, to) - v
      BY <3>1, <3>2 DEF ToGo
    <3> HIDE DEF v
    <3> QED BY <1>1, <1>2, <2>1, <2>2, <3>1, <3>3
  <2>4. CASE ~(v < Gap(s.x, to))
    <3>1. runToward(s, to).order = Tail(s.order)
      BY <1>1, <2>4 DEF runToward, Shape
    <3> QED BY <1>3, <2>1, <3>1
  <2> QED BY <2>3, <2>4
<1> QED BY <1>4, <1>5

\* Put back, a boat keeps its shape, lies where it lay, and holds.
LEMMA RefusedShape ==
  ASSUME NEW s, NEW t, Shape(s), Shape(t)
  PROVE  LET r == refuse(s, t) IN
           /\ Shape(r) /\ r.hp = t.hp /\ r.destroyed = t.destroyed
           /\ r.x = s.x /\ r.order = HOLDING /\ r.speed = 0
<1>1. s.x \in Int /\ s.sunk \in Nat /\ 0 \in 0 .. TopSpeed /\ HOLDING \in Seq(Line)
  <2>1. TopSpeed \in Nat
    BY NotchesAreSpeeds
  <2> QED BY <2>1 DEF Shape, HOLDING
<1> QED BY <1>1 DEF Shape, refuse

LEMMA HurtShape ==
  ASSUME NEW t, Shape(t), NEW amount
  PROVE  LET h == hurtBy(t, amount) IN
           /\ Shape(h) /\ h.x = t.x /\ h.order = t.order /\ h.speed = t.speed
<1>1. ASSUME NEW hp
      PROVE  LET h == [t EXCEPT !.hp = hp, !.destroyed = hp = 0] IN
               Shape(h) /\ h.x = t.x /\ h.order = t.order /\ h.speed = t.speed
  <2>1. (hp = 0) \in BOOLEAN
    OBVIOUS
  <2> QED BY <2>1 DEF Shape
<1> QED BY <1>1 DEF hurtBy

\* What movement may have made of the boats.
Moving(before, after) ==
  \A b \in Boat :
    /\ Shape(before[b]) /\ Shape(after[b])
    /\ after[b].hp = before[b].hp /\ after[b].destroyed = before[b].destroyed
    /\ after[b].x # before[b].x => Driven(before[b])
    /\ Driven(after[b]) => Driven(before[b])

\* A boat is left where movement had it, or put back, stopped and holding; what was
\* out of the stone stays out of it.
LEMMA OffRock ==
  ASSUME NEW before, NEW after, Moving(before, after), NEW b \in Boat
  PROVE  LET there == offRock(before, after) IN
           /\ Shape(there[b]) /\ there[b].hp = before[b].hp /\ there[b].destroyed = before[b].destroyed
           /\ \/ there[b] = after[b]
              \/ /\ ~before[b].destroyed
                 /\ there[b].order = HOLDING /\ there[b].speed = 0 /\ there[b].x = before[b].x
           /\ ~before[b].destroyed /\ ~hitsBoat(before[b]) => ~hitsBoat(there[b])
<1> DEFINE s == before[b]
           t == after[b]
           inRock == ~t.destroyed /\ t.x # s.x /\ hitsBoat(t) /\ ~hitsBoat(s)
<1>1. Shape(s) /\ Shape(t) /\ t.hp = s.hp /\ t.destroyed = s.destroyed
  BY DEF Moving
<1>2. offRock(before, after)[b] = IF inRock THEN refuse(s, t) ELSE t
  BY DEF offRock
<1>3. /\ Shape(refuse(s, t)) /\ refuse(s, t).hp = t.hp /\ refuse(s, t).destroyed = t.destroyed
      /\ refuse(s, t).x = s.x /\ refuse(s, t).order = HOLDING /\ refuse(s, t).speed = 0
  BY <1>1, RefusedShape
<1> HIDE DEF s, t
<1>4. inRock => ~hitsBoat(refuse(s, t))
  BY <1>3 DEF hitsBoat
<1>5. t.x = s.x /\ ~hitsBoat(s) => ~hitsBoat(t)
  BY DEF hitsBoat
<1> HIDE DEF inRock
<1>6. ~inRock /\ ~s.destroyed /\ ~hitsBoat(s) => ~hitsBoat(t)
  BY <1>1, <1>5 DEF inRock
<1>7. inRock => ~s.destroyed
  BY <1>1 DEF inRock
<1> QED BY <1>1, <1>2, <1>3, <1>4, <1>6, <1>7 DEF s, t

LEMMA MetTheOther ==
  ASSUME NEW before, NEW there, NEW b \in Boat, NEW c \in Met(before, there)[b],
         \A d \in Boat : before[d].x \in Int /\ there[d].x \in Int
  PROVE  c \in Boat /\ b \in Met(before, there)[c]
         /\ hullsTouch(there[b], there[c]) /\ ~hullsTouch(before[b], before[c])
<1>1. \A x, y \in Int : Gap(x, y) = Gap(y, x)
  BY DEF Gap
<1>2. c \in Boat \ {b} /\ hullsTouch(there[b], there[c]) /\ ~hullsTouch(before[b], before[c])
  BY DEF Met
<1>3. hullsTouch(there[c], there[b]) /\ ~hullsTouch(before[c], before[b])
  BY <1>1, <1>2 DEF hullsTouch
<1> QED BY <1>2, <1>3 DEF Met

LEMMA Collided ==
  ASSUME NEW before, NEW after, Moving(before, after), NEW b \in Boat
  PROVE  LET there == offRock(before, after)
             moved == resolveCollisions(before, after)
         IN /\ Shape(moved[b])
            /\ Met(before, there)[b] = {} => moved[b] = there[b]
            /\ Met(before, there)[b] # {} =>
                 /\ ~before[b].destroyed
                 /\ moved[b].order = HOLDING /\ moved[b].speed = 0 /\ moved[b].x = before[b].x
<1> DEFINE there == offRock(before, after)
           met == Met(before, there)
           r == refuse(before[b], there[b])
<1>1. Shape(there[b]) /\ Shape(before[b]) /\ there[b].destroyed = before[b].destroyed
  BY OffRock DEF Moving
<1>2. resolveCollisions(before, after)[b] =
        IF met[b] = {} THEN there[b] ELSE hurtBy(r, Harm(there, b, met[b]))
  BY DEF resolveCollisions
<1>3. Shape(r) /\ r.x = before[b].x /\ r.order = HOLDING /\ r.speed = 0
  BY <1>1, RefusedShape
<1>4. met[b] # {} => ~there[b].destroyed
  BY DEF Met, hullsTouch
<1> HIDE DEF r, there, met
<1>5. LET h == hurtBy(r, Harm(there, b, met[b])) IN
        Shape(h) /\ h.x = before[b].x /\ h.order = HOLDING /\ h.speed = 0
  BY <1>3, HurtShape
<1> QED BY <1>1, <1>2, <1>4, <1>5 DEF met, there

\* All of it together: what a tick makes of a boat before weapons have their turn.
LEMMA TickOfABoat ==
  ASSUME NEW before, NEW after, Moving(before, after), NEW b \in Boat
  PROVE  LET moved == resolveCollisions(before, after) IN
           /\ Shape(moved[b])
           /\ \/ moved[b] = after[b]
              \/ /\ ~before[b].destroyed
                 /\ moved[b].order = HOLDING /\ moved[b].speed = 0 /\ moved[b].x = before[b].x
           /\ ~moved[b].destroyed /\ ~hitsBoat(before[b]) => ~hitsBoat(moved[b])
           /\ Driven(moved[b]) => Driven(before[b])
<1> DEFINE there == offRock(before, after)
           moved == resolveCollisions(before, after)
<1>0. /\ Driven(after[b]) => Driven(before[b])
      /\ after[b].destroyed = before[b].destroyed
  BY DEF Moving
<1>1. /\ Shape(there[b]) /\ there[b].destroyed = before[b].destroyed
      /\ \/ there[b] = after[b]
         \/ /\ ~before[b].destroyed
            /\ there[b].order = HOLDING /\ there[b].speed = 0 /\ there[b].x = before[b].x
      /\ ~before[b].destroyed /\ ~hitsBoat(before[b]) => ~hitsBoat(there[b])
  BY OffRock
<1>2. /\ Shape(moved[b])
      /\ \/ moved[b] = there[b]
         \/ /\ ~before[b].destroyed
            /\ moved[b].order = HOLDING /\ moved[b].speed = 0 /\ moved[b].x = before[b].x
  BY Collided
<1> HIDE DEF there, moved
<1>3. moved[b].x = before[b].x /\ ~hitsBoat(before[b]) => ~hitsBoat(moved[b])
  BY DEF hitsBoat
<1> QED BY <1>0, <1>1, <1>2, <1>3 DEF moved, Driven

\* A boat that was hurt met another, and one of the two was under way and is not now.
LEMMA HurtByMeeting ==
  ASSUME NEW before, NEW after, Moving(before, after), NEW b \in Boat,
         resolveCollisions(before, after)[b].hp # before[b].hp
  PROVE  \E d \in Boat : Driven(before[d]) /\ ~Driven(resolveCollisions(before, after)[d])
<1> DEFINE there == offRock(before, after)
           moved == resolveCollisions(before, after)
           met == Met(before, there)
<1>1. there[b].hp = before[b].hp
  BY OffRock
<1>2. PICK c \in met[b] : TRUE
  BY <1>1, Collided
<1>3. \A d \in Boat : before[d].x \in Int /\ there[d].x \in Int
  BY OffRock, ShapeOf DEF Moving
<1>4. /\ c \in Boat /\ b \in met[c]
      /\ hullsTouch(there[b], there[c]) /\ ~hullsTouch(before[b], before[c])
  BY <1>2, <1>3, MetTheOther
<1>5. \A d \in {b, c} : ~Driven(moved[d])
  BY <1>2, <1>4, Collided DEF Driven
<1>6. \A d \in Boat : there[d].destroyed = before[d].destroyed
                      /\ (there[d].x # before[d].x => Driven(before[d]))
  BY OffRock DEF Moving
<1> HIDE DEF there, met, moved
<1>7. there[b].x # before[b].x \/ there[c].x # before[c].x
  BY <1>4, <1>6 DEF hullsTouch
<1> QED BY <1>4, <1>5, <1>6, <1>7 DEF moved

\* Every contact is paid for by a command: a boat under way owes one, and a boat
\* that was hurt has stopped, or the other has.  Every order is within its time:
\* what it has taken, and what it can still take, is no more than a leg.
UnderWay == {b \in Boat : Driven(boats[b])}

OnTime(b) ==
  /\ spent[b] \in Nat /\ spent[b] <= LEG_TICKS
  /\ Driven(boats[b]) => spent[b] + ToGo(boats[b]) <= LEG_TICKS

HelmInv ==
  /\ DOMAIN boats = Boat /\ boats = [b \in Boat |-> boats[b]]
  /\ spent = [b \in Boat |-> spent[b]]
  /\ commands \in Nat /\ bangs \in Nat
  /\ \A b \in Boat : Shape(boats[b]) /\ OnTime(b)
  /\ NoHullInStone
  /\ bangs + Cardinality(UnderWay) <= commands

LEMMA UnderWayCounts ==
  ASSUME NEW S, S \subseteq Boat
  PROVE  IsFiniteSet(S) /\ Cardinality(S) \in Nat
BY HelmAssumption, FS_Subset, FS_CardinalityType

\* A boat afloat is on the line, and has no more ahead of it than a leg.
LEMMA ALegIsEnough ==
  ASSUME NEW s, Shape(s), ~hitsBoat(s)
  PROVE  /\ s.x \in Line
         /\ s.order # HOLDING => ToGo(s) \in Nat /\ ToGo(s) <= LEG_TICKS
         /\ LEG_TICKS \in Nat
<1>1. /\ s.x \in Int /\ s.speed \in 0 .. TopSpeed /\ TopSpeed \in Nat /\ LineWidth \in Nat
      /\ s.order \in Seq(Line) /\ HalfLength \in Nat
  BY ShapeOf, HelmAssumption
<1>2. s.x \in 0 .. LineWidth
  BY <1>1 DEF hitsBoat
<1>3. LEG_TICKS = LineWidth + 2 * TopSpeed + 2
  BY DEF LEG_TICKS, TopSpeed
<1>4. ASSUME s.order # HOLDING PROVE ToGo(s) \in Nat /\ ToGo(s) <= LEG_TICKS
  <2> DEFINE to == Head(s.order)
  <2>1. to \in 0 .. LineWidth
    BY <1>1, <1>4, Routes DEF HOLDING, Line
  <2> HIDE DEF to
  <2>2. Gap(s.x, to) \in 0 .. LineWidth
    BY <1>1, <1>2, <2>1 DEF Gap
  <2> QED BY <1>1, <1>3, <2>2 DEF ToGo, to
<1> QED BY <1>1, <1>2, <1>3, <1>4 DEF Line

LEMMA HelmBegins == InitHelm => HelmInv
<1> SUFFICES ASSUME InitHelm PROVE HelmInv
  OBVIOUS
<1>1. /\ TopSpeed \in Nat /\ LineWidth \in Nat /\ HalfLength \in Nat \ {0}
      /\ Rock \subseteq Line /\ "slow" \in DOMAIN NotchSpeed
  BY NotchesAreSpeeds, HelmAssumption
<1>2. ASSUME NEW b \in Boat PROVE Shape(boats[b]) /\ ~Driven(boats[b]) /\ spent[b] = 0
  <2>1. Berth[b] \in Int
    BY <1>1, HelmAssumption
  <2> QED BY <1>1, <2>1 DEF InitHelm, Shape, Driven, HOLDING
<1>3. ASSUME NEW b \in Boat PROVE ~hitsBoat(boats[b])
  <2>1. boats[b].x = Berth[b]
    BY DEF InitHelm
  <2>2. /\ Berth[b] \in HalfLength .. LineWidth - HalfLength
        /\ \A r \in Rock : Gap(Berth[b], r) > HalfLength
    BY HelmAssumption
  <2>3. \A r \in Rock : Gap(Berth[b], r) \in Int
    BY <1>1, <2>2 DEF Gap, Line
  <2> QED BY <1>1, <2>1, <2>2, <2>3 DEF hitsBoat
<1>4. LEG_TICKS \in Nat
  BY <1>1 DEF LEG_TICKS, TopSpeed
<1>5. UnderWay = {}
  BY <1>2 DEF UnderWay
<1>6. commands = 0 /\ bangs = 0 /\ boats = [b \in Boat |-> boats[b]] /\ spent = [b \in Boat |-> spent[b]]
      /\ DOMAIN boats = Boat
  BY DEF InitHelm
<1> QED BY <1>2, <1>3, <1>4, <1>5, <1>6, FS_EmptySet DEF HelmInv, OnTime, NoHullInStone, Afloat

\* A command changes one boat's order or throttle, and may start it.
LEMMA CommandKeepsHelm ==
  ASSUME HelmInv, NEW b \in Boat, NEW s, Shape(s), commanding(b),
         s.x = boats[b].x, s.destroyed = boats[b].destroyed, s.facing = boats[b].facing,
         s.speed = boats[b].speed \/ s.order = HOLDING,
         boats' = [boats EXCEPT ![b] = s]
  PROVE  HelmInv'
<1>1. /\ boats'[b] = s /\ \A c \in Boat \ {b} : boats'[c] = boats[c]
      /\ boats' = [c \in Boat |-> boats'[c]] /\ DOMAIN boats' = Boat
  BY DEF HelmInv
<1>2. /\ commands' = commands + 1 /\ bangs' = bangs
      /\ spent' = [spent EXCEPT ![b] = IF s.order = <<>> \/ boats[b].order = <<>>
                                          \/ Head(s.order) # Head(boats[b].order)
                                       THEN 0 ELSE spent[b]]
  BY <1>1 DEF commanding, HelmInv
<1>3. /\ \A c \in Boat \ {b} : spent'[c] = spent[c]
      /\ spent' = [c \in Boat |-> spent'[c]]
      /\ spent'[b] = IF s.order = <<>> \/ boats[b].order = <<>> \/ Head(s.order) # Head(boats[b].order)
                     THEN 0 ELSE spent[b]
  BY <1>2 DEF HelmInv
<1>4. ~s.destroyed => ~hitsBoat(s)
  BY DEF HelmInv, NoHullInStone, Afloat, hitsBoat
<1>5. LEG_TICKS \in Nat
  BY NotchesAreSpeeds, HelmAssumption DEF LEG_TICKS, TopSpeed
<1>6. OnTime(b)'
  <2>1. spent'[b] \in Nat /\ spent'[b] <= LEG_TICKS
    BY <1>3, <1>5 DEF HelmInv, OnTime
  <2>2. ASSUME Driven(s) PROVE spent'[b] + ToGo(s) <= LEG_TICKS
    <3>1. CASE spent'[b] = 0
      BY <1>4, <2>2, <3>1, ALegIsEnough DEF Driven
    <3>2. CASE spent'[b] # 0
      <4>1. /\ Driven(boats[b]) /\ spent'[b] = spent[b]
            /\ Head(s.order) = Head(boats[b].order)
        BY <1>3, <2>2, <3>2 DEF Driven, HOLDING
      <4>2. ToGo(s) = ToGo(boats[b])
        BY <2>2, <4>1 DEF ToGo, Driven
      <4> QED BY <4>1, <4>2 DEF HelmInv, OnTime
    <3> QED BY <3>1, <3>2
  <2> QED BY <1>1, <2>1, <2>2 DEF OnTime, LEG_TICKS
<1>7. \A c \in Boat : Shape(boats'[c]) /\ OnTime(c)'
  BY <1>1, <1>3, <1>6 DEF HelmInv, OnTime, LEG_TICKS
<1>8. NoHullInStone'
  BY <1>1, <1>4 DEF HelmInv, NoHullInStone, Afloat
<1>9. bangs' + Cardinality(UnderWay') <= commands'
  <2>1. UnderWay' \subseteq UnderWay \cup {b} /\ UnderWay \subseteq Boat /\ UnderWay' \subseteq Boat
    BY <1>1 DEF UnderWay
  <2>2. /\ IsFiniteSet(UnderWay \cup {b})
        /\ Cardinality(UnderWay \cup {b}) <= Cardinality(UnderWay) + 1
        /\ Cardinality(UnderWay) \in Nat /\ Cardinality(UnderWay') \in Nat
        /\ Cardinality(UnderWay \cup {b}) \in Nat
    BY <2>1, UnderWayCounts, FS_AddElement, FS_CardinalityType
  <2>3. Cardinality(UnderWay') <= Cardinality(UnderWay \cup {b})
    BY <2>1, <2>2, FS_Subset
  <2> QED BY <1>2, <2>2, <2>3 DEF HelmInv
<1> QED BY <1>1, <1>2, <1>3, <1>7, <1>8, <1>9 DEF HelmInv

\* A tick: where movement and collision leave the boats, and then the weapons.
LEMMA TickMoves ==
  ASSUME HelmInv
  PROVE  Moving(boats, [b \in Boat |-> stepBoat(boats[b])])
BY StepKeepsShape DEF HelmInv, Moving

LEMMA StruckShape ==
  ASSUME NEW s, Shape(s)
  PROVE  LET t == Struck(s) IN
           Shape(t) /\ t.destroyed /\ t.x = s.x /\ t.sunk = s.sunk
BY DEF Shape, Struck

LEMMA TickKeepsHelm ==
  ASSUME HelmInv, NEW struck \in SUBSET Boat, tick(struck)
  PROVE  HelmInv'
<1> DEFINE after == [b \in Boat |-> stepBoat(boats[b])]
           moved == resolveCollisions(boats, after)
<1>1. Moving(boats, after)
  BY TickMoves
<1>2. /\ boats' = [b \in Boat |-> IF b \in struck THEN Struck(moved[b]) ELSE moved[b]]
      /\ bangs' = bangs + IF \E b \in Boat : moved[b].hp # boats[b].hp THEN 1 ELSE 0
      /\ spent' = [b \in Boat |->
                     IF moved[b].order = <<>> \/ moved[b].order # boats[b].order \/ moved[b].destroyed
                     THEN 0 ELSE spent[b] + 1]
      /\ commands' = commands
  BY DEF tick
<1>3. ASSUME NEW b \in Boat
      PROVE  /\ Shape(moved[b])
             /\ \/ moved[b] = stepBoat(boats[b])
                \/ /\ ~boats[b].destroyed
                   /\ moved[b].order = HOLDING /\ moved[b].speed = 0 /\ moved[b].x = boats[b].x
             /\ ~moved[b].destroyed /\ ~hitsBoat(boats[b]) => ~hitsBoat(moved[b])
             /\ Driven(moved[b]) => Driven(boats[b])
  BY <1>1, TickOfABoat
<1>4. (\E b \in Boat : moved[b].hp # boats[b].hp)
        => \E d \in Boat : Driven(boats[d]) /\ ~Driven(moved[d])
  BY <1>1, HurtByMeeting
<1> HIDE DEF after, moved
<1>5. ASSUME NEW b \in Boat
      PROVE  /\ Shape(boats'[b])
             /\ Driven(boats'[b]) => boats'[b] = moved[b] /\ Driven(moved[b])
             /\ ~boats'[b].destroyed => boats'[b] = moved[b]
  <2>1. Shape(Struck(moved[b])) /\ Struck(moved[b]).destroyed
    BY <1>3, StruckShape
  <2> QED BY <1>2, <1>3, <2>1 DEF Driven
<1>6. ASSUME NEW b \in Boat, ~moved[b].destroyed PROVE ~boats[b].destroyed /\ ~hitsBoat(moved[b])
  <2>1. boats[b].destroyed => stepBoat(boats[b]).destroyed
    BY StepKeepsShape DEF HelmInv
  <2>2. ~boats[b].destroyed
    BY <1>3, <1>6, <2>1
  <2> QED BY <1>3, <1>6, <2>2 DEF HelmInv, NoHullInStone, Afloat
<1>7. LEG_TICKS \in Nat
  BY NotchesAreSpeeds, HelmAssumption DEF LEG_TICKS, TopSpeed
<1>8. ASSUME NEW b \in Boat PROVE OnTime(b)'
  <2>0. spent'[b] = IF moved[b].order = <<>> \/ moved[b].order # boats[b].order \/ moved[b].destroyed
                    THEN 0 ELSE spent[b] + 1
    BY <1>2
  <2>1. CASE spent'[b] = 0
    <3>1. Driven(boats'[b]) => ~hitsBoat(boats'[b])
      BY <1>5, <1>6 DEF Driven
    <3>2. Driven(boats'[b]) => ToGo(boats'[b]) \in Nat /\ ToGo(boats'[b]) <= LEG_TICKS
      BY <1>5, <3>1, ALegIsEnough DEF Driven
    <3> QED BY <1>7, <2>1, <3>2 DEF OnTime, LEG_TICKS
  <2>2. CASE spent'[b] # 0
    <3>1. /\ spent'[b] = spent[b] + 1 /\ moved[b].order # <<>> /\ moved[b].order = boats[b].order
          /\ ~moved[b].destroyed
      BY <2>0, <2>2
    <3>2. Driven(moved[b]) /\ Driven(boats[b]) /\ moved[b] = stepBoat(boats[b])
      BY <1>3, <3>1 DEF Driven, HOLDING
    <3>3. ~boats[b].destroyed /\ ~hitsBoat(boats[b]) /\ Shape(boats[b])
      BY <3>2 DEF HelmInv, NoHullInStone, Afloat, Driven
    <3>4. boats[b].x \in Line /\ ToGo(boats[b]) \in Nat
      BY <3>2, <3>3, ALegIsEnough DEF Driven
    <3>5. ToGo(moved[b]) + 1 <= ToGo(boats[b])
      BY <3>1, <3>2, <3>3, <3>4, StepComesNearer
    <3>6. ToGo(moved[b]) \in Nat
      BY <1>3, <1>6, <3>1, <3>2, ALegIsEnough DEF Driven
    <3>7. spent[b] \in Nat /\ spent[b] + ToGo(boats[b]) <= LEG_TICKS
      BY <3>2 DEF HelmInv, OnTime
    <3>8. /\ spent'[b] \in Nat /\ spent'[b] + ToGo(moved[b]) <= LEG_TICKS
          /\ spent'[b] <= LEG_TICKS
      BY <1>7, <3>1, <3>4, <3>5, <3>6, <3>7
    <3> QED BY <1>5, <3>8 DEF OnTime, LEG_TICKS
  <2> QED BY <2>1, <2>2
<1>9. NoHullInStone'
  BY <1>5, <1>6 DEF NoHullInStone, Afloat
<1>10. bangs' \in Nat /\ bangs' + Cardinality(UnderWay') <= commands'
  <2>1. UnderWay' \subseteq UnderWay /\ UnderWay \subseteq Boat
    BY <1>3, <1>5 DEF UnderWay
  <2>2. /\ IsFiniteSet(UnderWay) /\ Cardinality(UnderWay) \in Nat
        /\ Cardinality(UnderWay') \in Nat /\ Cardinality(UnderWay') <= Cardinality(UnderWay)
    BY <2>1, UnderWayCounts, FS_Subset
  <2>3. CASE \E b \in Boat : moved[b].hp # boats[b].hp
    <3>1. PICK d \in Boat : Driven(boats[d]) /\ ~Driven(moved[d])
      BY <1>4, <2>3
    <3>2. d \in UnderWay /\ d \notin UnderWay'
      BY <1>5, <3>1 DEF UnderWay
    <3>3. Cardinality(UnderWay') < Cardinality(UnderWay)
      BY <2>1, <2>2, <3>2, FS_Subset
    <3> QED BY <1>2, <2>2, <2>3, <3>3 DEF HelmInv
  <2>4. CASE ~\E b \in Boat : moved[b].hp # boats[b].hp
    BY <1>2, <2>2, <2>4 DEF HelmInv
  <2> QED BY <2>3, <2>4
<1> QED BY <1>2, <1>5, <1>8, <1>9, <1>10 DEF HelmInv

LEMMA HelmStep == HelmInv /\ [NextHelm]_helmVars => HelmInv'
<1> SUFFICES ASSUME HelmInv, [NextHelm]_helmVars PROVE HelmInv'
  OBVIOUS
<1>1. ASSUME NEW b \in Boat, NEW to \in Places, NEW queue \in BOOLEAN, order(b, to, queue)
      PROVE  HelmInv'
  <2> DEFINE route == IF queue THEN Append(boats[b].order, to) ELSE <<to>>
             s == [boats[b] EXCEPT !.order = route]
  <2>1. route \in Seq(Line)
    BY HelmAssumption, ShapeOf DEF HelmInv
  <2> HIDE DEF route
  <2>2. /\ Shape(s) /\ s.x = boats[b].x /\ s.destroyed = boats[b].destroyed
        /\ s.facing = boats[b].facing /\ s.speed = boats[b].speed
    BY <2>1 DEF HelmInv, Shape
  <2>3. boats' = [boats EXCEPT ![b] = s] /\ commanding(b)
    BY <1>1 DEF order, route
  <2> HIDE DEF s
  <2> QED BY <2>2, <2>3, CommandKeepsHelm
<1>2. ASSUME NEW b \in Boat, cancel(b) PROVE HelmInv'
  <2> DEFINE s == [boats[b] EXCEPT !.order = HOLDING, !.speed = 0]
  <2>1. 0 \in 0 .. TopSpeed /\ HOLDING \in Seq(Line)
    BY NotchesAreSpeeds DEF HOLDING
  <2>2. /\ Shape(s) /\ s.x = boats[b].x /\ s.destroyed = boats[b].destroyed
        /\ s.facing = boats[b].facing /\ s.order = HOLDING
    BY <2>1 DEF HelmInv, Shape
  <2>3. boats' = [boats EXCEPT ![b] = s] /\ commanding(b)
    BY <1>2 DEF cancel
  <2> HIDE DEF s
  <2> QED BY <2>2, <2>3, CommandKeepsHelm
<1>3. ASSUME NEW b \in Boat, NEW notch \in DOMAIN NotchSpeed, setThrottle(b, notch) PROVE HelmInv'
  <2> DEFINE s == [boats[b] EXCEPT !.throttle = notch]
  <2>2. /\ Shape(s) /\ s.x = boats[b].x /\ s.destroyed = boats[b].destroyed
        /\ s.facing = boats[b].facing /\ s.speed = boats[b].speed
    BY DEF HelmInv, Shape
  <2>3. boats' = [boats EXCEPT ![b] = s] /\ commanding(b)
    BY <1>3 DEF setThrottle
  <2> HIDE DEF s
  <2> QED BY <2>2, <2>3, CommandKeepsHelm
<1>4. ASSUME NEW struck \in SUBSET Boat, tick(struck) PROVE HelmInv'
  BY <1>4, TickKeepsHelm
<1>5. CASE UNCHANGED helmVars
  BY <1>5 DEF helmVars, HelmInv, OnTime, NoHullInStone, Afloat, UnderWay, LEG_TICKS
<1>6. {} \in SUBSET Boat /\ \A b \in Boat : {b} \in SUBSET Boat
  OBVIOUS
<1> QED BY <1>1, <1>2, <1>3, <1>4, <1>5, <1>6 DEF NextHelm

LEMMA HelmStaysSafe == SpecHelm => []DrivingIsSafe
<1>1. HelmInv => DrivingIsSafe
  <2> SUFFICES ASSUME HelmInv PROVE bangs <= commands
    BY DEF HelmInv, DrivingIsSafe, ContactIsOneEvent, OrdersComeToAnEnd, OnTime
  <2>1. Cardinality(UnderWay) \in Nat
    BY UnderWayCounts DEF UnderWay
  <2> QED BY <2>1 DEF HelmInv
<1> QED BY <1>1, HelmBegins, HelmStep, PTL DEF SpecHelm

LEMMA AWreckGoesDown ==
  ASSUME HelmInv, NextHelm, NEW b \in Boat, boats[b].destroyed
  PROVE  /\ boats'[b].destroyed /\ boats'[b].x = boats[b].x
         /\ commands' = commands => boats'[b].sunk = sinkWreck(boats[b]).sunk
<1>0. Shape(boats[b]) /\ commands \in Nat /\ boats = [c \in Boat |-> boats[c]]
  BY DEF HelmInv
<1>1. ASSUME NEW c \in Boat, NEW to \in Places, NEW queue \in BOOLEAN, order(c, to, queue)
      PROVE  boats'[b] = boats[b] /\ commands' # commands
  BY <1>0, <1>1 DEF order, commanding
<1>2. ASSUME NEW c \in Boat, cancel(c)
      PROVE  boats'[b].destroyed /\ boats'[b].x = boats[b].x /\ commands' # commands
  BY <1>0, <1>2 DEF cancel, commanding, Shape
<1>3. ASSUME NEW c \in Boat, NEW notch \in DOMAIN NotchSpeed, setThrottle(c, notch)
      PROVE  boats'[b].destroyed /\ boats'[b].x = boats[b].x /\ commands' # commands
  BY <1>0, <1>3 DEF setThrottle, commanding, Shape
<1>4. ASSUME NEW struck \in SUBSET Boat, tick(struck)
      PROVE  /\ boats'[b].destroyed /\ boats'[b].x = boats[b].x
             /\ boats'[b].sunk = sinkWreck(boats[b]).sunk
  <2> DEFINE moved == resolveCollisions(boats, [c \in Boat |-> stepBoat(boats[c])])
  <2>1. Shape(moved[b]) /\ moved[b] = stepBoat(boats[b])
    BY TickMoves, TickOfABoat
  <2>2. /\ stepBoat(boats[b]).destroyed /\ stepBoat(boats[b]).x = boats[b].x
        /\ stepBoat(boats[b]).sunk = sinkWreck(boats[b]).sunk
    BY <1>0, StepKeepsShape DEF Driven
  <2>3. boats'[b] = IF b \in struck THEN Struck(moved[b]) ELSE moved[b]
    BY <1>4 DEF tick
  <2> HIDE DEF moved
  <2> QED BY <2>1, <2>2, <2>3, StruckShape
<1>5. {} \in SUBSET Boat /\ \A c \in Boat : {c} \in SUBSET Boat
  OBVIOUS
<1> QED BY <1>1, <1>2, <1>3, <1>4, <1>5 DEF NextHelm

\* The boats are driven as by themselves: what else the server does leaves them alone.
LEMMA HelmAlone == SpecServices => SpecHelm
<1>1. InitServices => InitHelm
  BY DEF InitServices
<1>2. [NextServices]_serviceVars => [NextHelm]_helmVars
  BY DEF NextServices, serviceVars, helmVars
<1> QED BY <1>1, <1>2, PTL DEF SpecServices, SpecHelm

\* Any orders are safe to give, whatever the boats, the rock and the speeds: no hull is put
\* inside stone, a contact is a single event and every order ends (resolveCollisions).
THEOREM DrivingStaysSafe == SpecServices => []DrivingIsSafe
BY HelmAlone, HelmStaysSafe, PTL

\* No command and no collision stops a wreck or moves it.
THEOREM WrecksAlwaysGoDown == SpecServices => WrecksGoDown
<1>1. HelmInv /\ [NextHelm]_helmVars =>
        [\A b \in Boat : boats[b].destroyed =>
           /\ boats'[b].destroyed /\ boats'[b].x = boats[b].x
           /\ commands' = commands => boats'[b].sunk = sinkWreck(boats[b]).sunk]_helmVars
  BY AWreckGoesDown
<1> QED BY <1>1, HelmAlone, HelmBegins, HelmStep, PTL DEF SpecHelm, WrecksGoDown

---------------------------------------------------------------------------
(* Accounts.                                                               *)

\* A call is one of the page's, cut where the server waits: what a stage has to
\* go on with, the call carries.
Sent(c) == c.stage \in {"sent", "hashing", "verifying"}
Credentials(c) == c.name \in Name /\ c.remember \in BOOLEAN

CallIsFormed(c) ==
  /\ {"op", "stage"} \subseteq DOMAIN c
  /\ c.op \in {"signup", "login", "me", "logout", "logoutAll", "none"}
  /\ c.op = "none" => c = NotAsking
  /\ c.op \in {"signup", "login"} /\ Sent(c) =>
       {"name", "remember"} \subseteq DOMAIN c /\ Credentials(c)
  /\ c.stage \in {"hashing", "verifying", "found"} => "at" \in DOMAIN c /\ c.at \in Nat
  /\ c.stage = "hashing" => c.op = "signup"
  /\ c.stage = "verifying" => c.op = "login" /\ c.found \in SUBSET {a.id : a \in accounts}
  /\ c.stage = "found" => c.op \in {"me", "logoutAll"}
  /\ c.stage = "resolved" => c.op = "logoutAll"

\* What a call has read is of the session of its cookie: the account and whether it is
\* remembered stay, an expiry that does not slide stays too, and with the synchronous
\* engine nothing comes between the read and what follows from it.
ReadIsOf(c, t) ==
  /\ c.token = t /\ t \in 1 .. issued
  /\ c.row \in SessionRow /\ c.row.account \in {a.id : a \in accounts}
  /\ c.row.expires_at <= c.row.last_used_at + REMEMBER_TTL_MS
  /\ t \in Live =>
       /\ c.row.account = sessions[t].account /\ c.row.remember = sessions[t].remember
       /\ ~c.row.remember => c.row.expires_at = sessions[t].expires_at
       /\ engine = "sync" => c.row = sessions[t]

\* What an answer tells the page is of the cookie it leaves the browser with.
AnswerIsOf(c, t) ==
  /\ c.op \in {"signup", "login"} =>
       \E n \in 1 .. issued : /\ c.cookie = {n}
                              /\ n \in Live => sessions[n].account = c.account
  /\ c.op = "me" => c.cookie = Kept /\ (t \in Live => sessions[t].account = c.account)
  /\ c.op \in {"logout", "logoutAll"} => c.cookie = {NoCookie}
  /\ c.account \in AccountId \cup {Nobody}

SessionsAreSound ==
  \A t \in Live : /\ sessions[t] \in SessionRow
                  /\ sessions[t].account \in {a.id : a \in accounts}
                  /\ sessions[t].expires_at <= sessions[t].last_used_at + REMEMBER_TTL_MS

RowsAreSound ==
  /\ stay \in Stay /\ engine \in {"sync", "async"} /\ now \in 0 .. stay.until
  /\ issued \in 0 .. MaxSessions /\ Live \subseteq 1 .. issued
  /\ accounts \subseteq Account

BrowsersAreSound ==
  /\ pages \in [Browser -> [status : AuthStatus, account : AccountId \cup {Nobody}]]
  /\ cookies \in [Browser -> 0 .. issued]
  /\ calls = [b \in Browser |-> calls[b]]

CallIsHonest(b) ==
  /\ CallIsFormed(calls[b])
  /\ At(b, "found") => ReadIsOf(calls[b], cookies[b])
  /\ At(b, "answered") => AnswerIsOf(calls[b], cookies[b])
  /\ At(b, "refused") => calls[b].cookie \in {Kept, {NoCookie}}

CallsAreHonest == \A b \in Browser : CallIsHonest(b)

AccountsInv ==
  /\ RowsAreSound /\ SessionsAreSound /\ OneAccountPerName
  /\ BrowsersAreSound /\ CallsAreHonest /\ WhoIsShownActs

LEMMA TimesToLive ==
  /\ REMEMBER_TTL_MS \in Nat /\ SESSION_TTL_MS \in Nat /\ SESSION_TTL_MS < REMEMBER_TTL_MS
  /\ SLIDING_REFRESH_INTERVAL_MS \in Nat /\ TOUCH_INTERVAL_MS \in Nat
  /\ MaxSessions \in Nat
BY AccountsAssumption

\* What a call becomes: what it carried, and more.
LEMMA Becoming ==
  ASSUME BrowsersAreSound, NEW b \in Browser, NEW more, Becomes(b, more)
  PROVE  /\ calls' = [c \in Browser |-> calls'[c]]
         /\ \A c \in Browser \ {b} : calls'[c] = calls[c]
         /\ DOMAIN calls'[b] = DOMAIN calls[b] \cup DOMAIN more
         /\ \A k \in DOMAIN more : calls'[b][k] = more[k]
         /\ \A k \in DOMAIN calls[b] : k \notin DOMAIN more => calls'[b][k] = calls[b][k]
<1> DEFINE merged == [k \in DOMAIN calls[b] \cup DOMAIN more |->
                        IF k \in DOMAIN more THEN more[k] ELSE calls[b][k]]
<1>1. calls' = [calls EXCEPT ![b] = merged] /\ calls = [c \in Browser |-> calls[c]]
  BY DEF Becomes, BrowsersAreSound
<1>2. /\ DOMAIN merged = DOMAIN calls[b] \cup DOMAIN more
      /\ \A k \in DOMAIN more : merged[k] = more[k]
      /\ \A k \in DOMAIN calls[b] : k \notin DOMAIN more => merged[k] = calls[b][k]
  OBVIOUS
<1> HIDE DEF merged
<1>3. calls'[b] = merged /\ \A c \in Browser \ {b} : calls'[c] = calls[c]
  BY <1>1
<1>4. calls' = [c \in Browser |-> calls'[c]]
  BY <1>1
<1> QED BY <1>2, <1>3, <1>4

\* What a use of the rows may do: it adds accounts and sessions and takes sessions away, and of a
\* session that stays the account and how it lasts stay.
RowsGoOn ==
  /\ engine' = engine /\ accounts \subseteq accounts'
  /\ issued' \in Nat /\ issued <= issued'
  /\ Live' \subseteq 1 .. issued' /\ \A t \in 1 .. issued : t \in Live' => t \in Live
  /\ \A t \in Live \cap Live' :
       /\ sessions'[t].account = sessions[t].account
       /\ sessions'[t].remember = sessions[t].remember
       /\ ~sessions[t].remember => sessions'[t].expires_at = sessions[t].expires_at

\* Another browser's call stays honest.
LEMMA OtherCalls ==
  ASSUME AccountsInv, RowsGoOn, NEW c \in Browser, calls'[c] = calls[c], cookies'[c] = cookies[c],
         engine = "sync" /\ At(c, "found") => UNCHANGED sessions
  PROVE  CallIsHonest(c)'
<1>0. /\ CallIsHonest(c) /\ issued \in Nat /\ issued' \in Nat /\ issued <= issued'
      /\ cookies[c] \in 0 .. issued /\ Live \subseteq 1 .. issued
  BY TimesToLive DEF AccountsInv, CallsAreHonest, RowsAreSound, BrowsersAreSound, RowsGoOn
<1>1. CallIsFormed(calls[c])'
  <2>1. CallIsFormed(calls[c]) /\ {a.id : a \in accounts} \subseteq {a.id : a \in accounts'}
    BY <1>0 DEF RowsGoOn, CallIsHonest
  <2> QED BY <2>1 DEF CallIsFormed, Sent, Credentials
<1>2. At(c, "found") => ReadIsOf(calls[c], cookies[c])'
  <2> SUFFICES ASSUME At(c, "found") PROVE ReadIsOf(calls[c], cookies[c])'
    OBVIOUS
  <2> DEFINE r == calls[c].row
             t == cookies[c]
  <2>1. /\ calls[c].token = t /\ t \in 1 .. issued /\ r \in SessionRow
        /\ r.account \in {a.id : a \in accounts}
        /\ r.expires_at <= r.last_used_at + REMEMBER_TTL_MS
        /\ t \in Live =>
             /\ r.account = sessions[t].account /\ r.remember = sessions[t].remember
             /\ ~r.remember => r.expires_at = sessions[t].expires_at
             /\ engine = "sync" => r = sessions[t]
    BY <1>0 DEF CallIsHonest, ReadIsOf
  <2>2. t \in 1 .. issued' /\ r.account \in {a.id : a \in accounts'}
    BY <1>0, <2>1 DEF RowsGoOn
  <2>3. t \in Live' => t \in Live
    BY <2>1 DEF RowsGoOn
  <2>4. t \in Live' =>
             /\ r.account = sessions'[t].account /\ r.remember = sessions'[t].remember
             /\ ~r.remember => r.expires_at = sessions'[t].expires_at
             /\ engine' = "sync" => r = sessions'[t]
    BY <2>1, <2>3 DEF RowsGoOn
  <2> QED BY <2>1, <2>2, <2>4 DEF ReadIsOf
<1>3. At(c, "answered") => AnswerIsOf(calls[c], cookies[c])'
  <2> SUFFICES ASSUME At(c, "answered") PROVE AnswerIsOf(calls[c], cookies[c])'
    OBVIOUS
  <2>1. AnswerIsOf(calls[c], cookies[c])
    BY <1>0 DEF CallIsHonest
  <2>2. \A n \in 1 .. issued : /\ n \in 1 .. issued'
                               /\ n \in Live' => n \in Live /\ sessions'[n].account = sessions[n].account
    BY <1>0 DEF RowsGoOn
  <2>3. cookies[c] \in Live' =>
          cookies[c] \in Live /\ sessions'[cookies[c]].account = sessions[cookies[c]].account
    <3>1. 0 \notin Live'
      BY <1>0 DEF RowsGoOn
    <3> QED BY <1>0, <2>2, <3>1
  <2> QED BY <2>1, <2>2, <2>3 DEF AnswerIsOf
<1> QED BY <1>0, <1>1, <1>2, <1>3 DEF CallIsHonest, At

\* When nothing is written, the rows are what they were.
LEMMA NothingWritten ==
  ASSUME AccountsInv, UNCHANGED <<stay, engine, now, accounts, sessions, issued>>
  PROVE  RowsGoOn /\ RowsAreSound' /\ SessionsAreSound' /\ OneAccountPerName'
<1>1. RowsGoOn
  BY TimesToLive DEF AccountsInv, RowsAreSound, RowsGoOn, Live
<1> QED BY <1>1 DEF AccountsInv, RowsAreSound, SessionsAreSound, OneAccountPerName, Live

\* A use of the rows keeps the invariant when it leaves them sound and its own call honest:
\* with the synchronous engine no other call is between its read and its write.
LEMMA AttendingKeeps ==
  ASSUME AccountsInv, NEW b \in Browser, Turn(b),
         UNCHANGED <<stay, engine, now, pages, cookies>>,
         RowsGoOn, RowsAreSound', SessionsAreSound', OneAccountPerName',
         calls' = [c \in Browser |-> calls'[c]], \A c \in Browser \ {b} : calls'[c] = calls[c],
         CallIsHonest(b)'
  PROVE  AccountsInv'
<1>0. issued \in Nat /\ issued' \in Nat /\ issued <= issued' /\ Live \subseteq 1 .. issued
  BY TimesToLive DEF AccountsInv, RowsAreSound, RowsGoOn
<1>1. BrowsersAreSound'
  <2>1. \A c \in 0 .. issued : c \in 0 .. issued'
    BY <1>0
  <2> QED BY <2>1 DEF AccountsInv, BrowsersAreSound
<1>2. CallsAreHonest'
  <2> SUFFICES ASSUME NEW c \in Browser, c # b PROVE CallIsHonest(c)'
    BY DEF CallsAreHonest
  <2>1. engine = "sync" => ~At(c, "found")
    BY DEF Turn, Between
  <2> QED BY <2>1, OtherCalls
<1>3. WhoIsShownActs'
  <2> SUFFICES ASSUME NEW c \in Browser, pages[c].status = "signedIn", cookies[c] \in Live'
               PROVE  sessions'[cookies[c]].account = pages[c].account
    BY DEF WhoIsShownActs, Live
  <2>1. cookies[c] \in 0 .. issued /\ 0 \notin Live'
    BY <1>0 DEF AccountsInv, BrowsersAreSound, RowsGoOn
  <2>2. cookies[c] \in Live
    BY <1>0, <2>1 DEF RowsGoOn
  <2> QED BY <2>2 DEF AccountsInv, WhoIsShownActs, RowsGoOn
<1> QED BY <1>1, <1>2, <1>3 DEF AccountsInv

\* What a denied call, or one of a session that is none, becomes is honest.
LEMMA Refusals ==
  ASSUME AccountsInv, NEW b \in Browser, calls[b].op # "none", NEW cookie \in {Kept, {NoCookie}},
         Becomes(b, [stage |-> "refused", cookie |-> cookie])
  PROVE  CallIsHonest(b)'
<1> DEFINE more == [stage |-> "refused", cookie |-> cookie]
           d == calls'[b]
<1>1. DOMAIN more = {"stage", "cookie"} /\ more["stage"] = "refused" /\ more["cookie"] = cookie
  OBVIOUS
<1>2. /\ DOMAIN d = DOMAIN calls[b] \cup DOMAIN more
      /\ \A k \in DOMAIN more : d[k] = more[k]
      /\ \A k \in DOMAIN calls[b] : k \notin DOMAIN more => d[k] = calls[b][k]
  <2> HIDE DEF more
  <2> QED BY Becoming DEF AccountsInv, more
<1> HIDE DEF more, d
<1>3. CallIsFormed(calls[b])
  BY DEF AccountsInv, CallsAreHonest, CallIsHonest
<1>4. /\ d.stage = "refused" /\ d.cookie = cookie /\ d.op = calls[b].op
      /\ {"op", "stage"} \subseteq DOMAIN d
  BY <1>1, <1>2, <1>3 DEF CallIsFormed
<1>5. CallIsFormed(calls[b])'
  BY <1>3, <1>4 DEF CallIsFormed, Sent, d
<1> QED BY <1>4, <1>5 DEF CallIsHonest, At, d

\* An answer is honest when what it tells is of the cookie it leaves.
LEMMA Answers ==
  ASSUME AccountsInv, NEW b \in Browser, calls[b].op # "none", NEW account, NEW cookie,
         answer(b, account, cookie), UNCHANGED cookies,
         account \in AccountId \cup {Nobody},
         calls[b].op \in {"signup", "login"} =>
           \E n \in 1 .. issued' : /\ cookie = {n}
                                   /\ n \in Live' => sessions'[n].account = account,
         calls[b].op = "me" =>
           cookie = Kept /\ (cookies[b] \in Live' => sessions'[cookies[b]].account = account),
         calls[b].op \in {"logout", "logoutAll"} => cookie = {NoCookie}
  PROVE  CallIsHonest(b)'
<1> DEFINE more == [stage |-> "answered", account |-> account, cookie |-> cookie]
           d == calls'[b]
<1>1. /\ DOMAIN more = {"stage", "account", "cookie"} /\ more["stage"] = "answered"
      /\ more["account"] = account /\ more["cookie"] = cookie
  OBVIOUS
<1>2. /\ DOMAIN d = DOMAIN calls[b] \cup DOMAIN more
      /\ \A k \in DOMAIN more : d[k] = more[k]
      /\ \A k \in DOMAIN calls[b] : k \notin DOMAIN more => d[k] = calls[b][k]
  <2> HIDE DEF more
  <2> QED BY Becoming DEF AccountsInv, more, answer
<1> HIDE DEF more, d
<1>3. CallIsFormed(calls[b])
  BY DEF AccountsInv, CallsAreHonest, CallIsHonest
<1>4. /\ d.stage = "answered" /\ d.cookie = cookie /\ d.account = account /\ d.op = calls[b].op
      /\ {"op", "stage"} \subseteq DOMAIN d
  BY <1>1, <1>2, <1>3 DEF CallIsFormed
<1>5. CallIsFormed(calls[b])'
  BY <1>3, <1>4 DEF CallIsFormed, Sent, d
<1>6. AnswerIsOf(calls[b], cookies[b])'
  BY <1>4 DEF AnswerIsOf, d
<1> QED BY <1>4, <1>5, <1>6 DEF CallIsHonest, At, d

\* A session is issued under a token that there never was.
LEMMA IssuingRows ==
  ASSUME AccountsInv, UNCHANGED engine, accounts \subseteq accounts', NEW b, NEW id, NEW at,
         issueSession(b, id, at)
  PROVE  RowsGoOn /\ \A t \in Live \cap Live' : sessions'[t] = sessions[t]
<1> DEFINE n == issued + 1
<1>1. issued' = n /\ issued \in Nat /\ Live \subseteq 1 .. issued
  BY TimesToLive DEF issueSession, AccountsInv, RowsAreSound
<1>2. /\ n \notin Live /\ n \in Nat /\ n \notin 1 .. issued /\ n \in 1 .. n /\ issued <= n
      /\ \A t \in 1 .. issued : t \in 1 .. n
  BY <1>1
<1>3. Live' = Live \cup {n} /\ \A t \in Live : sessions'[t] = sessions[t]
  BY DEF issueSession, Live
<1> HIDE DEF n
<1>4. Live' \subseteq 1 .. issued' /\ \A t \in 1 .. issued : t \in Live' => t \in Live
  BY <1>1, <1>2, <1>3
<1>5. \A t \in Live \cap Live' : sessions'[t] = sessions[t]
  BY <1>3
<1>6. issued' \in Nat /\ issued <= issued'
  BY <1>1, <1>2
<1> QED BY <1>4, <1>5, <1>6 DEF RowsGoOn

\* It is issued to the call that asked for one.
LEMMA Issuing ==
  ASSUME AccountsInv, NEW b \in Browser, Turn(b), UNCHANGED <<stay, engine, now, pages, cookies>>,
         calls[b].op \in {"signup", "login"}, At(b, "hashing") \/ At(b, "verifying"),
         issued < MaxSessions, NEW id \in AccountId,
         accounts \subseteq accounts', accounts' \subseteq Account, OneAccountPerName',
         id \in {a.id : a \in accounts'},
         issueSession(b, id, calls[b].at)
  PROVE  AccountsInv'
<1> DEFINE c == calls[b]
           n == issued + 1
           until == c.at + IF c.remember THEN REMEMBER_TTL_MS ELSE SESSION_TTL_MS
           held == [account |-> id, last_used_at |-> c.at, remember |-> c.remember, expires_at |-> until]
<1>1. /\ CallIsFormed(c) /\ issued \in Nat /\ Live \subseteq 1 .. issued
      /\ issued \in 0 .. MaxSessions
  BY TimesToLive DEF AccountsInv, CallsAreHonest, CallIsHonest, RowsAreSound
<1>2. c.at \in Nat /\ c.remember \in BOOLEAN
  BY <1>1 DEF CallIsFormed, Sent, At, Credentials
<1>3. /\ n \in 1 .. issued' /\ issued' = n /\ n \notin Live /\ n \in AccountId
      /\ issued' \in 0 .. MaxSessions /\ issued' \in Nat /\ issued <= issued'
  BY <1>1, TimesToLive DEF issueSession, AccountId, Token
<1>4. sessions' = [t \in Live \cup {n} |-> IF t \in Live THEN sessions[t] ELSE held]
      /\ answer(b, id, {n})
  BY DEF issueSession
<1>5. until \in Nat /\ until <= c.at + REMEMBER_TTL_MS
  BY <1>2, TimesToLive
<1>6. /\ held \in SessionRow /\ held.account = id
      /\ held.expires_at <= held.last_used_at + REMEMBER_TTL_MS
  BY <1>2, <1>5 DEF SessionRow
<1> HIDE DEF c, n, held, until
<1>7. /\ Live' = Live \cup {n} /\ sessions'[n] = held
      /\ \A t \in Live : sessions'[t] = sessions[t]
  BY <1>3, <1>4 DEF Live
<1>8. RowsGoOn
  BY IssuingRows
<1>9. RowsAreSound'
  BY <1>1, <1>3, <1>7 DEF AccountsInv, RowsAreSound, n
<1>10. SessionsAreSound'
  BY <1>3, <1>6, <1>7 DEF AccountsInv, SessionsAreSound
<1>11. CallIsHonest(b)'
  <2>1. id \in AccountId \cup {Nobody} /\ calls[b].op # "none"
    OBVIOUS
  <2>2. \E m \in 1 .. issued' : {n} = {m} /\ (m \in Live' => sessions'[m].account = id)
    BY <1>3, <1>6, <1>7
  <2> QED BY <1>4, <2>1, <2>2, Answers
<1>12. /\ calls' = [d \in Browser |-> calls'[d]] /\ \A d \in Browser \ {b} : calls'[d] = calls[d]
  BY <1>4, Becoming DEF AccountsInv, answer
<1> QED BY <1>8, <1>9, <1>10, <1>11, <1>12, AttendingKeeps

\* A use that writes nothing keeps the invariant when its own call stays honest.
LEMMA ReadingKeeps ==
  ASSUME AccountsInv, NEW b \in Browser, Turn(b),
         UNCHANGED <<stay, engine, now, pages, cookies, accounts, sessions, issued>>,
         NEW more, Becomes(b, more), CallIsHonest(b)'
  PROVE  AccountsInv'
BY NothingWritten, AttendingKeeps, Becoming DEF AccountsInv

LEMMA SignupKeeps ==
  ASSUME AccountsInv, NEW b \in Browser, Turn(b), UNCHANGED <<stay, engine, now, pages, cookies>>,
         signup(b)
  PROVE  AccountsInv'
<1>1. CallIsFormed(calls[b]) /\ calls[b].op = "signup" /\ calls[b].stage = "sent" /\ now \in Nat
      /\ UNCHANGED <<accounts, sessions, issued>>
  BY DEF AccountsInv, CallsAreHonest, CallIsHonest, signup, At, RowsAreSound
<1>2. CASE deny(b)
  <2>1. CallIsHonest(b)'
    BY <1>1, <1>2, Refusals DEF deny
  <2> QED BY <1>1, <1>2, <2>1, ReadingKeeps DEF deny
<1>3. CASE Becomes(b, [stage |-> "hashing", at |-> now])
  <2> DEFINE more == [stage |-> "hashing", at |-> now]
             d == calls'[b]
  <2>1. DOMAIN more = {"stage", "at"} /\ more["stage"] = "hashing" /\ more["at"] = now
    OBVIOUS
  <2>2. /\ DOMAIN d = DOMAIN calls[b] \cup DOMAIN more
        /\ \A k \in DOMAIN more : d[k] = more[k]
        /\ \A k \in DOMAIN calls[b] : k \notin DOMAIN more => d[k] = calls[b][k]
    <3> HIDE DEF more
    <3> QED BY <1>3, Becoming DEF AccountsInv, more
  <2> HIDE DEF more, d
  <2>3. /\ {"op", "stage", "name", "remember"} \subseteq DOMAIN calls[b] /\ Credentials(calls[b])
    BY <1>1 DEF CallIsFormed, Sent
  <2>4. /\ d.stage = "hashing" /\ d.op = "signup" /\ d.at \in Nat /\ d.name = calls[b].name
        /\ d.remember = calls[b].remember
        /\ {"op", "stage", "at", "name", "remember"} \subseteq DOMAIN d
    BY <1>1, <2>1, <2>2, <2>3
  <2>5. CallIsFormed(calls[b])'
    BY <2>3, <2>4 DEF CallIsFormed, Sent, Credentials, d
  <2>6. CallIsHonest(b)'
    BY <2>4, <2>5 DEF CallIsHonest, At, d
  <2> QED BY <1>1, <1>3, <2>6, ReadingKeeps
<1> QED BY <1>2, <1>3 DEF signup

LEMMA HashedKeeps ==
  ASSUME AccountsInv, NEW b \in Browser, Turn(b), UNCHANGED <<stay, engine, now, pages, cookies>>,
         hashed(b)
  PROVE  AccountsInv'
<1>1. /\ CallIsFormed(calls[b]) /\ calls[b].op = "signup" /\ calls[b].stage = "hashing"
      /\ calls[b].name \in Name /\ issued \in Nat /\ issued < MaxSessions
      /\ accounts \subseteq Account
  BY TimesToLive
     DEF AccountsInv, CallsAreHonest, CallIsHonest, CallIsFormed, hashed, At, RowsAreSound, Sent,
         Credentials
<1>2. CASE usernameExists(calls[b].name)
  <2>0. deny(b) /\ UNCHANGED <<accounts, sessions, issued>>
    BY <1>2 DEF hashed, insert
  <2>1. CallIsHonest(b)'
    BY <1>1, <2>0, Refusals DEF deny
  <2> QED BY <2>0, <2>1, ReadingKeeps DEF deny
<1>3. CASE ~usernameExists(calls[b].name)
  <2> DEFINE a == [id |-> issued + 1, name |-> calls[b].name]
  <2>0. accounts' = accounts \cup {a} /\ issueSession(b, issued + 1, calls[b].at)
    BY <1>3 DEF hashed, insert
  <2>1. issued + 1 \in AccountId
    BY <1>1, TimesToLive DEF AccountId, Token
  <2>2. a \in Account /\ a.id = issued + 1 /\ a.name = calls[b].name
    BY <1>1, <2>1 DEF Account
  <2> HIDE DEF a
  <2>3. /\ accounts \subseteq accounts' /\ accounts' \subseteq Account
        /\ issued + 1 \in {e.id : e \in accounts'}
    BY <1>1, <2>0, <2>2
  <2>4. OneAccountPerName'
    BY <1>3, <2>0, <2>2 DEF OneAccountPerName, AccountsInv, usernameExists
  <2> QED BY <1>1, <2>0, <2>1, <2>3, <2>4, Issuing DEF At
<1> QED BY <1>2, <1>3

LEMMA LoginKeeps ==
  ASSUME AccountsInv, NEW b \in Browser, Turn(b), UNCHANGED <<stay, engine, now, pages, cookies>>,
         login(b)
  PROVE  AccountsInv'
<1> DEFINE ids == {a.id : a \in {a \in accounts : a.name = calls[b].name}}
           more == [stage |-> "verifying", at |-> now, found |-> ids]
           d == calls'[b]
<1>1. CallIsFormed(calls[b]) /\ calls[b].op = "login" /\ calls[b].stage = "sent" /\ now \in Nat
      /\ UNCHANGED <<accounts, sessions, issued>> /\ Becomes(b, more)
  BY DEF AccountsInv, CallsAreHonest, CallIsHonest, login, At, RowsAreSound
<1>2. ids \in SUBSET {a.id : a \in accounts}
  OBVIOUS
<1> HIDE DEF ids
<1>3. /\ DOMAIN more = {"stage", "at", "found"} /\ more["stage"] = "verifying"
      /\ more["at"] = now /\ more["found"] = ids
  OBVIOUS
<1> HIDE DEF more
<1>4. /\ DOMAIN d = DOMAIN calls[b] \cup DOMAIN more
      /\ \A k \in DOMAIN more : d[k] = more[k]
      /\ \A k \in DOMAIN calls[b] : k \notin DOMAIN more => d[k] = calls[b][k]
  BY <1>1, Becoming DEF AccountsInv
<1> HIDE DEF d
<1>5. /\ {"op", "stage", "name", "remember"} \subseteq DOMAIN calls[b] /\ Credentials(calls[b])
  BY <1>1 DEF CallIsFormed, Sent
<1>6. /\ d.stage = "verifying" /\ d.op = "login" /\ d.at \in Nat /\ d.name = calls[b].name
      /\ d.remember = calls[b].remember /\ d.found = ids
      /\ {"op", "stage", "at", "name", "remember"} \subseteq DOMAIN d
  BY <1>1, <1>3, <1>4, <1>5
<1>7. CallIsFormed(calls[b])'
  BY <1>1, <1>2, <1>5, <1>6 DEF CallIsFormed, Sent, Credentials, d
<1>8. CallIsHonest(b)'
  BY <1>6, <1>7 DEF CallIsHonest, At, d
<1> QED BY <1>1, <1>8, ReadingKeeps

LEMMA VerifiedKeeps ==
  ASSUME AccountsInv, NEW b \in Browser, Turn(b), UNCHANGED <<stay, engine, now, pages, cookies>>,
         verified(b)
  PROVE  AccountsInv'
<1>1. /\ CallIsFormed(calls[b]) /\ calls[b].op = "login" /\ calls[b].stage = "verifying"
      /\ calls[b].found \subseteq {a.id : a \in accounts} /\ issued \in Nat /\ issued < MaxSessions
      /\ accounts \subseteq Account /\ UNCHANGED accounts
  BY TimesToLive
     DEF AccountsInv, CallsAreHonest, CallIsHonest, CallIsFormed, verified, At, RowsAreSound
<1>2. CASE deny(b) /\ UNCHANGED <<sessions, issued>>
  <2>1. CallIsHonest(b)'
    BY <1>1, <1>2, Refusals DEF deny
  <2> QED BY <1>1, <1>2, <2>1, ReadingKeeps DEF deny
<1>3. ASSUME NEW id \in calls[b].found, issueSession(b, id, calls[b].at) PROVE AccountsInv'
  <2>1. id \in AccountId /\ id \in {a.id : a \in accounts'}
    BY <1>1, <1>3 DEF Account
  <2>2. OneAccountPerName'
    BY <1>1 DEF AccountsInv, OneAccountPerName
  <2> QED BY <1>1, <1>3, <2>1, <2>2, Issuing DEF At
<1> QED BY <1>2, <1>3 DEF verified

LEMMA FindKeeps ==
  ASSUME AccountsInv, NEW b \in Browser, Turn(b), UNCHANGED <<stay, engine, now, pages, cookies>>,
         findByTokenHash(b)
  PROVE  AccountsInv'
<1>1. /\ CallIsFormed(calls[b]) /\ calls[b].op \in {"me", "logoutAll"} /\ now \in Nat
      /\ UNCHANGED <<accounts, sessions, issued>> /\ Live \subseteq 1 .. issued
  BY DEF AccountsInv, CallsAreHonest, CallIsHonest, findByTokenHash, At, RowsAreSound
<1>2. CASE cookies[b] \in Live
  <2> DEFINE t == cookies[b]
             more == [stage |-> "found", at |-> now, token |-> t, row |-> sessions[t]]
             d == calls'[b]
  <2>0. Becomes(b, more)
    BY <1>2 DEF findByTokenHash
  <2>1. /\ DOMAIN more = {"stage", "at", "token", "row"} /\ more["stage"] = "found"
        /\ more["at"] = now /\ more["token"] = t /\ more["row"] = sessions[t]
    OBVIOUS
  <2> HIDE DEF more
  <2>2. /\ DOMAIN d = DOMAIN calls[b] \cup DOMAIN more
        /\ \A k \in DOMAIN more : d[k] = more[k]
        /\ \A k \in DOMAIN calls[b] : k \notin DOMAIN more => d[k] = calls[b][k]
    BY <2>0, Becoming DEF AccountsInv
  <2> HIDE DEF d
  <2>3. /\ d.stage = "found" /\ d.op = calls[b].op /\ d.at = now /\ d.token = t
        /\ d.row = sessions[t] /\ {"op", "stage", "at"} \subseteq DOMAIN d
    BY <1>1, <2>1, <2>2 DEF CallIsFormed
  <2>4. CallIsFormed(calls[b])'
    BY <1>1, <2>3 DEF CallIsFormed, Sent, d
  <2>5. ReadIsOf(calls[b], cookies[b])'
    <3>1. /\ sessions[t] \in SessionRow /\ sessions[t].account \in {a.id : a \in accounts}
          /\ sessions[t].expires_at <= sessions[t].last_used_at + REMEMBER_TTL_MS
      BY <1>2 DEF AccountsInv, SessionsAreSound
    <3> QED BY <1>1, <1>2, <2>3, <3>1 DEF ReadIsOf, d, Live
  <2>6. CallIsHonest(b)'
    BY <2>3, <2>4, <2>5 DEF CallIsHonest, At, d
  <2> QED BY <1>1, <2>0, <2>6, ReadingKeeps
<1>3. CASE cookies[b] \notin Live
  <2> DEFINE cookie == IF calls[b].op = "me" THEN {NoCookie} ELSE Kept
  <2>1. Becomes(b, [stage |-> "refused", cookie |-> cookie]) /\ cookie \in {Kept, {NoCookie}}
    BY <1>3 DEF findByTokenHash, unauthenticated
  <2> HIDE DEF cookie
  <2>2. CallIsHonest(b)'
    BY <1>1, <2>1, Refusals
  <2> QED BY <1>1, <2>1, <2>2, ReadingKeeps
<1> QED BY <1>2, <1>3

\* Sessions that are taken away.
LEMMA Ending ==
  ASSUME AccountsInv, UNCHANGED <<stay, engine, now, accounts, issued>>,
         NEW left \in SUBSET Live, sessions' = [t \in left |-> sessions[t]]
  PROVE  RowsGoOn /\ RowsAreSound' /\ SessionsAreSound' /\ OneAccountPerName'
<1>1. Live' = left /\ \A t \in left : sessions'[t] = sessions[t]
  BY DEF Live
<1>2. RowsGoOn
  BY <1>1, TimesToLive DEF AccountsInv, RowsAreSound, RowsGoOn
<1>3. RowsAreSound'
  BY <1>1 DEF AccountsInv, RowsAreSound
<1>4. SessionsAreSound' /\ OneAccountPerName'
  BY <1>1 DEF AccountsInv, SessionsAreSound, OneAccountPerName
<1> QED BY <1>2, <1>3, <1>4

\* What is made of a row that is used: the account and how it lasts stay, only a remembered one
\* gets another expiry, and that a later one.
LEMMA Touching ==
  ASSUME NEW held \in SessionRow, NEW at \in Nat,
         held.expires_at <= held.last_used_at + REMEMBER_TTL_MS
  PROVE  LET r == Touched(held, at) IN
           /\ r \in SessionRow /\ r.account = held.account /\ r.remember = held.remember
           /\ ~held.remember => r.expires_at = held.expires_at
           /\ r.expires_at >= held.expires_at
           /\ r.expires_at <= r.last_used_at + REMEMBER_TTL_MS
<1>1. held.expires_at \in Int /\ held.last_used_at \in Int
  BY DEF SessionRow
<1> DEFINE end == at + REMEMBER_TTL_MS
           slid == [held EXCEPT !.last_used_at = at, !.expires_at = end]
           used == [held EXCEPT !.last_used_at = at]
<1>2. /\ slid \in SessionRow /\ slid.account = held.account /\ slid.remember = held.remember
      /\ slid.expires_at = at + REMEMBER_TTL_MS /\ slid.last_used_at = at
  <2>1. at \in Int /\ end \in Int
    BY TimesToLive
  <2> HIDE DEF end
  <2>2. slid \in SessionRow
    BY <2>1 DEF SessionRow
  <2>3. /\ slid.account = held.account /\ slid.remember = held.remember
        /\ slid.expires_at = end /\ slid.last_used_at = at
    BY DEF SessionRow
  <2> HIDE DEF slid
  <2> QED BY <2>2, <2>3 DEF end
<1>3. /\ used \in SessionRow /\ used.account = held.account /\ used.remember = held.remember
      /\ used.expires_at = held.expires_at /\ used.last_used_at = at
  BY DEF SessionRow
<1>4. Touched(held, at) = IF held.remember /\ at - held.last_used_at > SLIDING_REFRESH_INTERVAL_MS
                         THEN slid
                         ELSE IF at - held.last_used_at > TOUCH_INTERVAL_MS THEN used ELSE held
  <2> HIDE DEF end
  <2>1. slid = [held EXCEPT !.last_used_at = at, !.expires_at = at + REMEMBER_TTL_MS]
    BY DEF end
  <2> HIDE DEF slid, used
  <2> QED BY <2>1 DEF Touched, used
<1> HIDE DEF slid, used
<1>5. CASE held.remember /\ at - held.last_used_at > SLIDING_REFRESH_INTERVAL_MS
  <2>1. Touched(held, at) = slid
    BY <1>4, <1>5
  <2>2. held.expires_at <= at + REMEMBER_TTL_MS
    BY <1>1, <1>5, TimesToLive
  <2>3. slid.expires_at >= held.expires_at /\ slid.expires_at <= slid.last_used_at + REMEMBER_TTL_MS
    BY <1>1, <1>2, <2>2, TimesToLive
  <2>4. held.remember
    BY <1>5
  <2> QED BY <1>2, <2>1, <2>3, <2>4, Zenon
<1>6. CASE /\ ~(held.remember /\ at - held.last_used_at > SLIDING_REFRESH_INTERVAL_MS)
           /\ at - held.last_used_at > TOUCH_INTERVAL_MS
  BY <1>1, <1>3, <1>4, <1>6, TimesToLive
<1>7. CASE /\ ~(held.remember /\ at - held.last_used_at > SLIDING_REFRESH_INTERVAL_MS)
           /\ ~(at - held.last_used_at > TOUCH_INTERVAL_MS)
  BY <1>1, <1>4, <1>7, TimesToLive
<1> QED BY <1>5, <1>6, <1>7

\* The row of a session that was found is written back, or goes.
LEMMA Resolving ==
  ASSUME AccountsInv, NEW b \in Browser, UNCHANGED <<stay, engine, now>>, resolveSession(b)
  PROVE  /\ RowsGoOn /\ RowsAreSound' /\ SessionsAreSound' /\ OneAccountPerName'
         /\ engine = "sync" => \A t \in Live \cap Live' :
                                 sessions'[t].expires_at >= sessions[t].expires_at
<1> DEFINE t == calls[b].token
           held == calls[b].row
           touched == Touched(held, calls[b].at)
<1>1. /\ CallIsFormed(calls[b]) /\ ReadIsOf(calls[b], cookies[b]) /\ At(b, "found")
      /\ UNCHANGED <<accounts, issued>> /\ SessionsAreSound /\ RowsAreSound /\ OneAccountPerName
  BY DEF AccountsInv, CallsAreHonest, CallIsHonest, resolveSession
<1>2. /\ t \in 1 .. issued /\ held \in SessionRow /\ calls[b].at \in Nat
      /\ held.account \in {a.id : a \in accounts}
      /\ held.expires_at <= held.last_used_at + REMEMBER_TTL_MS
      /\ t \in Live =>
           /\ held.account = sessions[t].account /\ held.remember = sessions[t].remember
           /\ ~held.remember => held.expires_at = sessions[t].expires_at
           /\ engine = "sync" => held = sessions[t]
  BY <1>1 DEF ReadIsOf, CallIsFormed, At
<1>3. /\ \A u \in Live : sessions[u].expires_at \in Int
      /\ \A u \in Live : sessions[u] \in SessionRow
      /\ Live \subseteq 1 .. issued /\ issued \in Nat
  BY <1>1, TimesToLive DEF SessionsAreSound, SessionRow, RowsAreSound
<1>4. CASE held.expires_at <= calls[b].at
  <2>1. sessions' = [u \in Live \ {t} |-> sessions[u]]
    BY <1>4 DEF resolveSession, deleteByTokenHash
  <2>2. RowsGoOn /\ RowsAreSound' /\ SessionsAreSound' /\ OneAccountPerName'
    BY <1>1, <2>1, Ending
  <2>3. \A u \in Live \cap Live' : sessions'[u] = sessions[u]
    BY <2>1 DEF Live
  <2> QED BY <1>3, <2>2, <2>3
<1>5. CASE sessions' = [u \in Live |-> IF u = t THEN touched ELSE sessions[u]]
  <2>1. /\ touched \in SessionRow /\ touched.account = held.account
        /\ touched.remember = held.remember
        /\ ~held.remember => touched.expires_at = held.expires_at
        /\ touched.expires_at >= held.expires_at
        /\ touched.expires_at <= touched.last_used_at + REMEMBER_TTL_MS
    BY <1>2, Touching
  <2> HIDE DEF t, held, touched
  <2>2. Live' = Live /\ \A u \in Live : sessions'[u] = IF u = t THEN touched ELSE sessions[u]
    BY <1>5 DEF Live
  <2>3. RowsGoOn
    BY <1>1, <1>2, <1>3, <2>1, <2>2 DEF RowsGoOn
  <2>4. RowsAreSound' /\ OneAccountPerName'
    BY <1>1, <2>2 DEF RowsAreSound, OneAccountPerName
  <2>5. SessionsAreSound'
    BY <1>1, <1>2, <2>1, <2>2 DEF SessionsAreSound
  <2>6. engine = "sync" => \A u \in Live \cap Live' :
                             sessions'[u].expires_at >= sessions[u].expires_at
    BY <1>2, <1>3, <2>1, <2>2
  <2> QED BY <2>3, <2>4, <2>5, <2>6
<1>6. CASE UNCHANGED sessions
  <2>1. RowsGoOn /\ RowsAreSound' /\ SessionsAreSound' /\ OneAccountPerName'
    BY <1>1, <1>6, NothingWritten
  <2> QED BY <1>3, <1>6, <2>1
<1> QED BY <1>4, <1>5, <1>6 DEF resolveSession, touch

LEMMA ResolveKeeps ==
  ASSUME AccountsInv, NEW b \in Browser, Turn(b), UNCHANGED <<stay, engine, now, pages, cookies>>,
         resolveSession(b)
  PROVE  AccountsInv'
<1>1. RowsGoOn /\ RowsAreSound' /\ SessionsAreSound' /\ OneAccountPerName'
  BY Resolving
<1>2. /\ CallIsFormed(calls[b]) /\ ReadIsOf(calls[b], cookies[b]) /\ At(b, "found")
      /\ calls[b].op \in {"me", "logoutAll"}
  BY DEF AccountsInv, CallsAreHonest, CallIsHonest, CallIsFormed, resolveSession, At
<1>3. ASSUME NEW more, Becomes(b, more), CallIsHonest(b)' PROVE AccountsInv'
  BY <1>1, <1>3, Becoming, AttendingKeeps DEF AccountsInv
<1>4. CASE unauthenticated(b)
  <2> DEFINE cookie == IF calls[b].op = "me" THEN {NoCookie} ELSE Kept
  <2>1. Becomes(b, [stage |-> "refused", cookie |-> cookie]) /\ cookie \in {Kept, {NoCookie}}
    BY <1>4 DEF unauthenticated
  <2> HIDE DEF cookie
  <2>2. CallIsHonest(b)'
    BY <1>2, <2>1, Refusals
  <2> QED BY <1>3, <2>1, <2>2
<1>5. CASE calls[b].op = "me" /\ answer(b, calls[b].row.account, Kept)
  <2>1. calls[b].row.account \in AccountId \cup {Nobody}
    BY <1>2 DEF ReadIsOf, SessionRow
  <2>2. cookies[b] \in Live' => sessions'[cookies[b]].account = calls[b].row.account
    BY <1>1, <1>2 DEF ReadIsOf, RowsGoOn
  <2>3. CallIsHonest(b)'
    BY <1>5, <2>1, <2>2, Answers
  <2> QED BY <1>3, <1>5, <2>3 DEF answer
<1>6. CASE calls[b].op # "me" /\ Becomes(b, [stage |-> "resolved"])
  <2> DEFINE more == [stage |-> "resolved"]
             d == calls'[b]
  <2>1. DOMAIN more = {"stage"} /\ more["stage"] = "resolved"
    OBVIOUS
  <2> HIDE DEF more
  <2>2. /\ DOMAIN d = DOMAIN calls[b] \cup DOMAIN more
        /\ \A k \in DOMAIN more : d[k] = more[k]
        /\ \A k \in DOMAIN calls[b] : k \notin DOMAIN more => d[k] = calls[b][k]
    BY <1>6, Becoming DEF AccountsInv, more
  <2> HIDE DEF d
  <2>3. d.stage = "resolved" /\ d.op = calls[b].op /\ {"op", "stage"} \subseteq DOMAIN d
    BY <1>2, <2>1, <2>2 DEF CallIsFormed
  <2>4. CallIsFormed(calls[b])'
    BY <1>2, <1>6, <2>3 DEF CallIsFormed, Sent, d
  <2>5. CallIsHonest(b)'
    BY <2>3, <2>4 DEF CallIsHonest, At, d
  <2> QED BY <1>3, <1>6, <2>5
<1> QED BY <1>4, <1>5, <1>6 DEF resolveSession

LEMMA SignOutKeeps ==
  ASSUME AccountsInv, NEW b \in Browser, Turn(b), UNCHANGED <<stay, engine, now, pages, cookies>>,
         deleteAllForAccount(b) \/ logout(b)
  PROVE  AccountsInv'
<1>1. /\ calls[b].op \in {"logout", "logoutAll"}
      /\ answer(b, Nobody, {NoCookie}) /\ UNCHANGED <<accounts, issued>>
  BY DEF AccountsInv, CallsAreHonest, CallIsHonest, CallIsFormed, deleteAllForAccount, logout, At
<1>2. RowsGoOn /\ RowsAreSound' /\ SessionsAreSound' /\ OneAccountPerName'
  <2>1. \E left \in SUBSET Live : sessions' = [t \in left |-> sessions[t]]
    <3>1. {t \in Live : sessions[t].account # calls[b].row.account} \in SUBSET Live
          /\ Live \ {cookies[b]} \in SUBSET Live
      OBVIOUS
    <3> QED BY <3>1 DEF deleteAllForAccount, logout, deleteByTokenHash
  <2> QED BY <1>1, <2>1, Ending
<1>3. CallIsHonest(b)'
  <2>1. Nobody \in AccountId \cup {Nobody}
    OBVIOUS
  <2> QED BY <1>1, <2>1, Answers
<1> QED BY <1>1, <1>2, <1>3, Becoming, AttendingKeeps DEF answer, AccountsInv

LEMMA ServesKeeps ==
  ASSUME AccountsInv, NEW b \in Browser, attend(b)
  PROVE  AccountsInv'
<1>1. Turn(b) /\ serves(b) /\ UNCHANGED <<stay, engine, now, pages, cookies>>
  BY DEF attend
<1> QED BY <1>1, SignupKeeps, HashedKeeps, LoginKeeps, VerifiedKeeps, FindKeeps, ResolveKeeps,
           SignOutKeeps DEF serves

\* What a page does with its call and its cookie is its own, and changes no row.
LEMMA PageKeeps ==
  ASSUME AccountsInv, UNCHANGED <<stay, engine, now, accounts, sessions, issued>>,
         NEW b \in Browser, NEW page \in [status : AuthStatus, account : AccountId \cup {Nobody}],
         NEW cookie \in 0 .. issued, NEW made,
         pages' = [pages EXCEPT ![b] = page], cookies' = [cookies EXCEPT ![b] = cookie],
         calls' = [calls EXCEPT ![b] = made],
         CallIsHonest(b)',
         page.status = "signedIn" /\ cookie \in Live => sessions[cookie].account = page.account
  PROVE  AccountsInv'
<1>1. RowsGoOn /\ RowsAreSound' /\ SessionsAreSound' /\ OneAccountPerName' /\ Live' = Live
  BY NothingWritten DEF Live
<1>2. BrowsersAreSound'
  BY DEF AccountsInv, BrowsersAreSound
<1>3. /\ pages'[b] = page /\ cookies'[b] = cookie /\ calls'[b] = made
      /\ \A c \in Browser \ {b} :
           pages'[c] = pages[c] /\ cookies'[c] = cookies[c] /\ calls'[c] = calls[c]
  BY DEF AccountsInv, BrowsersAreSound
<1>4. CallsAreHonest'
  <2> SUFFICES ASSUME NEW c \in Browser, c # b PROVE CallIsHonest(c)'
    BY DEF CallsAreHonest
  <2> QED BY <1>1, <1>3, OtherCalls
<1>5. WhoIsShownActs'
  BY <1>1, <1>3 DEF AccountsInv, WhoIsShownActs
<1> QED BY <1>1, <1>2, <1>4, <1>5 DEF AccountsInv

LEMMA AskKeeps ==
  ASSUME AccountsInv, NEW b \in Browser, NEW made, ask(b, made), made.stage = "sent",
         {"op", "stage"} \subseteq DOMAIN made,
         made.op \in {"signup", "login", "me", "logout", "logoutAll"},
         made.op \in {"signup", "login"} =>
           {"name", "remember"} \subseteq DOMAIN made /\ Credentials(made)
  PROVE  AccountsInv'
<1>1. /\ calls' = [calls EXCEPT ![b] = made]
      /\ UNCHANGED <<stay, engine, now, accounts, sessions, issued, pages, cookies>>
  BY DEF ask
<1>2. calls'[b] = made
  BY <1>1 DEF AccountsInv, BrowsersAreSound
<1>3. CallIsHonest(b)'
  BY <1>2 DEF CallIsHonest, CallIsFormed, Sent, At, Credentials
<1>4. /\ pages[b] \in [status : AuthStatus, account : AccountId \cup {Nobody}]
      /\ cookies[b] \in 0 .. issued
      /\ pages' = [pages EXCEPT ![b] = pages[b]] /\ cookies' = [cookies EXCEPT ![b] = cookies[b]]
      /\ pages[b].status = "signedIn" /\ cookies[b] \in Live
           => sessions[cookies[b]].account = pages[b].account
  BY <1>1 DEF AccountsInv, BrowsersAreSound, WhoIsShownActs
<1> QED BY <1>1, <1>3, <1>4, PageKeeps

LEMMA AskingKeeps ==
  ASSUME AccountsInv, NEW b \in Browser, credentials(b) \/ restore(b) \/ pressLogout(b)
  PROVE  AccountsInv'
<1>0. stay.names \subseteq Name
  BY DEF AccountsInv, RowsAreSound, Stay
<1>1. CASE credentials(b)
  <2>1. PICK op \in {"signup", "login"}, name \in stay.names, remember \in BOOLEAN, right \in BOOLEAN :
          ask(b, [op |-> op, stage |-> "sent", name |-> name, remember |-> remember, right |-> right])
    BY <1>1 DEF credentials
  <2> DEFINE made == [op |-> op, stage |-> "sent", name |-> name, remember |-> remember, right |-> right]
  <2>2. /\ DOMAIN made = {"op", "stage", "name", "remember", "right"}
        /\ made.op = op /\ made.stage = "sent" /\ made.name = name /\ made.remember = remember
    OBVIOUS
  <2>3. ask(b, made)
    BY <2>1
  <2> HIDE DEF made
  <2> QED BY <1>0, <2>2, <2>3, AskKeeps DEF Credentials
<1>2. ASSUME NEW op \in {"me", "logout", "logoutAll"}, ask(b, [op |-> op, stage |-> "sent"])
      PROVE  AccountsInv'
  <2> DEFINE made == [op |-> op, stage |-> "sent"]
  <2>2. DOMAIN made = {"op", "stage"} /\ made.op = op /\ made.stage = "sent"
    OBVIOUS
  <2>3. ask(b, made)
    BY <1>2
  <2> HIDE DEF made
  <2> QED BY <2>2, <2>3, AskKeeps
<1> QED BY <1>1, <1>2 DEF restore, pressLogout

LEMMA ReopenKeeps ==
  ASSUME AccountsInv, NEW b \in Browser, reopen(b)
  PROVE  AccountsInv'
<1>1. /\ calls[b] = NotAsking /\ pages' = [pages EXCEPT ![b] = Restoring]
      /\ UNCHANGED <<stay, engine, now, accounts, sessions, issued, calls>>
      /\ calls' = [calls EXCEPT ![b] = calls[b]]
  BY DEF reopen, AccountsInv, BrowsersAreSound
<1>2. /\ Restoring \in [status : AuthStatus, account : AccountId \cup {Nobody}]
      /\ Restoring.status = "restoring"
  BY DEF Restoring, AuthStatus
<1>3. CallIsHonest(b)'
  BY <1>1 DEF AccountsInv, CallsAreHonest, CallIsHonest, CallIsFormed, Sent, At, NotAsking
<1>4. \E cookie \in 0 .. issued : cookies' = [cookies EXCEPT ![b] = cookie]
  <2>1. cookies[b] \in 0 .. issued /\ 0 \in 0 .. issued
    BY TimesToLive DEF AccountsInv, BrowsersAreSound, RowsAreSound
  <2> QED BY <2>1 DEF reopen, NoCookie, AccountsInv, BrowsersAreSound
<1> QED BY <1>1, <1>2, <1>3, <1>4, PageKeeps

\* A page that hears an answer, or that the call failed, shows whose the cookie is, if it is shown
\* to be anybody's.
LEMMA HearKeeps ==
  ASSUME AccountsInv, NEW b \in Browser, hearAnswer(b) \/ lose(b)
  PROVE  AccountsInv'
<1> DEFINE c == calls[b]
           ThePage == [status : AuthStatus, account : AccountId \cup {Nobody}]
<1>1. /\ UNCHANGED <<stay, engine, now, accounts, sessions, issued>>
      /\ calls' = [calls EXCEPT ![b] = NotAsking]
      /\ calls'[b] = NotAsking
  BY DEF hearAnswer, lose, AccountsInv, BrowsersAreSound
<1>2. /\ CallIsFormed(c)
      /\ c.stage = "answered" => AnswerIsOf(c, cookies[b])
      /\ c.stage = "refused" => c.cookie \in {Kept, {NoCookie}}
      /\ pages[b] \in ThePage /\ cookies[b] \in 0 .. issued
      /\ issued \in Nat /\ Live \subseteq 1 .. issued
      /\ pages[b].status = "signedIn" /\ cookies[b] \in Live
           => sessions[cookies[b]].account = pages[b].account
  BY TimesToLive DEF AccountsInv, CallsAreHonest, CallIsHonest, At, BrowsersAreSound, RowsAreSound,
                     WhoIsShownActs
<1>3. CallIsHonest(b)'
  <2>1. /\ DOMAIN NotAsking = {"op", "stage"} /\ NotAsking.op = "none" /\ NotAsking.stage = "none"
    BY DEF NotAsking
  <2> QED BY <1>1, <2>1 DEF CallIsHonest, CallIsFormed, Sent, At
<1>4. /\ SignedOut \in ThePage /\ SignedOut.status = "signedOut"
      /\ \A a \in AccountId \cup {Nobody} :
           SignedIn(a) \in ThePage /\ SignedIn(a).account = a /\ SignedIn(a).status = "signedIn"
  BY DEF SignedOut, SignedIn, AuthStatus
<1>5. CASE lose(b)
  <2>1. pages' = [pages EXCEPT ![b] = Shown(b, FALSE)] /\ cookies' = [cookies EXCEPT ![b] = cookies[b]]
    BY <1>5 DEF lose, AccountsInv, BrowsersAreSound
  <2>2. Shown(b, FALSE) \in {SignedOut, pages[b]}
    BY DEF Shown
  <2> HIDE DEF ThePage
  <2> QED BY <1>1, <1>2, <1>3, <1>4, <2>1, <2>2, PageKeeps DEF ThePage
<1>6. CASE hearAnswer(b)
  <2> DEFINE page == Shown(b, TRUE)
             cookie == CookieAfter(b)
  <2>0. /\ c.stage \in {"answered", "refused"} /\ pages' = [pages EXCEPT ![b] = page]
        /\ cookies' = [cookies EXCEPT ![b] = cookie]
    BY <1>6 DEF hearAnswer, At
  <2>1. \A t : (CHOOSE u \in {t} : TRUE) = t
    OBVIOUS
  <2>2. {0} # Kept /\ \A n : {n} # Kept
    BY DEF Kept
  <2>3. /\ c.cookie = Kept => cookie = cookies[b]
        /\ \A n : c.cookie = {n} => cookie = n
    BY <2>1, <2>2 DEF CookieAfter
  <2>4. /\ c.op \in {"logout", "logoutAll"} => page = SignedOut
        /\ c.stage = "answered" /\ c.op \notin {"logout", "logoutAll"} => page = SignedIn(c.account)
        /\ c.stage = "refused" => page = SignedOut \/ (page = pages[b] /\ c.op # "me")
    BY DEF Shown, At
  <2> HIDE DEF page, cookie, c, ThePage
  <2>5. CASE c.stage = "refused"
    <3>1. cookie \in {cookies[b], 0}
      BY <1>2, <2>3, <2>5 DEF NoCookie
    <3>2. cookie \in 0 .. issued /\ page \in ThePage
      BY <1>2, <1>4, <2>4, <2>5, <3>1
    <3>3. page.status = "signedIn" /\ cookie \in Live => sessions[cookie].account = page.account
      BY <1>2, <1>4, <2>4, <2>5, <3>1
    <3> QED BY <1>1, <1>3, <2>0, <3>2, <3>3, PageKeeps DEF ThePage
  <2>6. CASE c.stage = "answered"
    <3>0. AnswerIsOf(c, cookies[b]) /\ c.op \in {"signup", "login", "me", "logout", "logoutAll", "none"}
      BY <1>2, <2>6 DEF CallIsFormed
    <3>1. c.op # "none"
      <4>1. NotAsking.stage = "none"
        BY DEF NotAsking
      <4> QED BY <1>2, <2>6, <4>1 DEF CallIsFormed
    <3>2. CASE c.op \in {"signup", "login"}
      <4>1. PICK n \in 1 .. issued : c.cookie = {n} /\ (n \in Live => sessions[n].account = c.account)
        BY <3>0, <3>2 DEF AnswerIsOf
      <4>2. /\ cookie = n /\ n \in 0 .. issued /\ page = SignedIn(c.account)
            /\ c.account \in AccountId \cup {Nobody}
        BY <1>2, <2>3, <2>4, <2>6, <3>0, <3>2, <4>1 DEF AnswerIsOf
      <4> QED BY <1>1, <1>3, <1>4, <2>0, <4>1, <4>2, PageKeeps DEF ThePage
    <3>3. CASE c.op = "me"
      <4>1. /\ cookie = cookies[b] /\ page = SignedIn(c.account) /\ c.account \in AccountId \cup {Nobody}
            /\ cookies[b] \in Live => sessions[cookies[b]].account = c.account
        BY <2>3, <2>4, <2>6, <3>0, <3>3 DEF AnswerIsOf
      <4> QED BY <1>1, <1>2, <1>3, <1>4, <2>0, <4>1, PageKeeps DEF ThePage
    <3>4. CASE c.op \in {"logout", "logoutAll"}
      <4>1. cookie = 0 /\ page = SignedOut /\ 0 \in 0 .. issued
        BY <1>2, <2>3, <2>4, <3>0, <3>4 DEF AnswerIsOf, NoCookie
      <4> QED BY <1>1, <1>3, <1>4, <2>0, <4>1, PageKeeps DEF ThePage
    <3> QED BY <3>0, <3>1, <3>2, <3>3, <3>4
  <2> QED BY <2>0, <2>5, <2>6
<1> QED BY <1>5, <1>6

LEMMA SweepKeeps ==
  ASSUME AccountsInv, sweep \/ passTime
  PROVE  AccountsInv' /\ RowsGoOn /\ \A t \in Live \cap Live' : sessions'[t] = sessions[t]
<1>0. /\ UNCHANGED <<stay, engine, accounts, issued, pages, cookies, calls>>
      /\ AllTurns /\ AccountsInv
  BY DEF sweep, passTime
<1>1. /\ RowsGoOn /\ RowsAreSound' /\ SessionsAreSound' /\ OneAccountPerName'
      /\ \A t \in Live \cap Live' : sessions'[t] = sessions[t]
  <2>1. CASE sweep
    <3> DEFINE left == {t \in Live : sessions[t].expires_at > now}
    <3>1. left \in SUBSET Live /\ sessions' = [t \in left |-> sessions[t]] /\ now' = now
      BY <2>1 DEF sweep
    <3> HIDE DEF left
    <3>2. \A t \in Live \cap Live' : sessions'[t] = sessions[t]
      BY <3>1 DEF Live
    <3> QED BY <1>0, <3>1, <3>2, Ending
  <2>2. CASE passTime
    <3>1. UNCHANGED sessions /\ now < stay.until /\ now' = now + 1 /\ Live' = Live
      BY <2>2 DEF passTime, Live
    <3>2. RowsGoOn /\ SessionsAreSound' /\ OneAccountPerName'
      BY <1>0, <3>1, TimesToLive
         DEF AccountsInv, RowsAreSound, RowsGoOn, SessionsAreSound, OneAccountPerName
    <3>3. stay.until \in Nat
      BY DEF AccountsInv, RowsAreSound, Stay
    <3>4. RowsAreSound'
      BY <1>0, <3>1, <3>3 DEF AccountsInv, RowsAreSound
    <3> QED BY <3>1, <3>2, <3>4
  <2> QED BY <2>1, <2>2
<1>2. BrowsersAreSound'
  BY <1>0 DEF AccountsInv, BrowsersAreSound
<1>3. CallsAreHonest'
  <2> SUFFICES ASSUME NEW c \in Browser PROVE CallIsHonest(c)'
    BY DEF CallsAreHonest
  <2>1. engine = "sync" => ~At(c, "found")
    BY <1>0 DEF AllTurns, Between
  <2> QED BY <1>0, <1>1, <2>1, OtherCalls
<1>4. WhoIsShownActs'
  <2> SUFFICES ASSUME NEW c \in Browser, pages[c].status = "signedIn", cookies[c] \in Live'
               PROVE  sessions'[cookies[c]].account = pages[c].account
    BY <1>0 DEF WhoIsShownActs, Live
  <2>1. cookies[c] \in 1 .. issued
    BY <1>0, <1>1 DEF RowsAreSound
  <2> QED BY <1>1, <2>1 DEF AccountsInv, WhoIsShownActs, RowsGoOn
<1> QED BY <1>1, <1>2, <1>3, <1>4 DEF AccountsInv

LEMMA AccountsBegin == InitAccounts => AccountsInv
<1> SUFFICES ASSUME InitAccounts PROVE AccountsInv
  OBVIOUS
<1>1. Live = {}
  BY DEF InitAccounts, Live
<1>2. stay \in Stay /\ 0 \in 0 .. stay.until /\ 0 \in 0 .. MaxSessions
  BY AccountsAssumption DEF InitAccounts, Stay
<1>3. RowsAreSound /\ SessionsAreSound /\ OneAccountPerName
  BY <1>1, <1>2 DEF InitAccounts, RowsAreSound, SessionsAreSound, OneAccountPerName
<1>4. /\ SignedOut \in [status : AuthStatus, account : AccountId \cup {Nobody}]
      /\ SignedOut.status = "signedOut"
  BY DEF SignedOut, AuthStatus
<1>5. BrowsersAreSound
  BY <1>4 DEF InitAccounts, BrowsersAreSound, NoCookie
<1>6. /\ DOMAIN NotAsking = {"op", "stage"} /\ NotAsking.op = "none" /\ NotAsking.stage = "none"
  BY DEF NotAsking
<1>7. CallsAreHonest
  BY <1>6 DEF InitAccounts, CallsAreHonest, CallIsHonest, CallIsFormed, Sent, At
<1>8. WhoIsShownActs
  BY <1>4 DEF InitAccounts, WhoIsShownActs
<1> QED BY <1>3, <1>5, <1>7, <1>8 DEF AccountsInv

LEMMA AccountsStep == AccountsInv /\ [NextAccounts]_accountVars => AccountsInv'
<1> SUFFICES ASSUME AccountsInv, [NextAccounts]_accountVars PROVE AccountsInv'
  OBVIOUS
<1>1. CASE UNCHANGED accountVars
  BY <1>1 DEF accountVars, AccountsInv, RowsAreSound, SessionsAreSound, OneAccountPerName, Live,
              BrowsersAreSound, CallsAreHonest, CallIsHonest, CallIsFormed, ReadIsOf, AnswerIsOf,
              WhoIsShownActs, At
<1>2. CASE NextAccounts
  BY <1>2, AskingKeeps, ReopenKeeps, ServesKeeps, HearKeeps, SweepKeeps DEF NextAccounts
<1> QED BY <1>1, <1>2

\* Accounts are used as by themselves.
LEMMA AccountsAlone == SpecServices => SpecAccounts
<1>1. InitServices => InitAccounts
  BY DEF InitServices
<1>2. [NextServices]_serviceVars => [NextAccounts]_accountVars
  BY DEF NextServices, serviceVars, accountVars
<1> QED BY <1>1, <1>2, PTL DEF SpecServices, SpecAccounts

LEMMA AccountsKeep == SpecServices => []AccountsInv
BY AccountsAlone, AccountsBegin, AccountsStep, PTL DEF SpecAccounts

\* No two accounts have a name between them, and the page acts for the account it shows,
\* through lost answers, sign-outs that failed and a database that answers later.
THEOREM AccountsStayHonest == SpecServices => []AccountsAreHonest
<1>1. AccountsInv => AccountsAreHonest
  BY DEF AccountsInv, AccountsAreHonest
<1> QED BY <1>1, AccountsKeep, PTL

\* The rows that a step leaves, it leaves as they were or as a use of them does.
LEMMA RowsOfAStep ==
  ASSUME AccountsInv, NextAccounts
  PROVE  /\ RowsGoOn
         /\ engine = "sync" => \A t \in Live \cap Live' :
                                 sessions'[t].expires_at >= sessions[t].expires_at
<1>0. \A t \in Live : sessions[t].expires_at \in Int
  BY DEF AccountsInv, SessionsAreSound, SessionRow
<1>1. CASE UNCHANGED <<engine, accounts, sessions, issued>>
  <2>1. RowsGoOn
    BY <1>1, TimesToLive DEF AccountsInv, RowsAreSound, RowsGoOn, Live
  <2> QED BY <1>0, <1>1, <2>1
<1>2. CASE sweep \/ passTime
  BY <1>0, <1>2, SweepKeeps
<1>3. ASSUME NEW b \in Browser, attend(b), resolveSession(b)
      PROVE  /\ RowsGoOn
             /\ engine = "sync" => \A t \in Live \cap Live' :
                                     sessions'[t].expires_at >= sessions[t].expires_at
  BY <1>3, Resolving DEF attend
<1>4. ASSUME NEW b \in Browser, attend(b), deleteAllForAccount(b) \/ logout(b)
      PROVE  RowsGoOn /\ \A t \in Live \cap Live' : sessions'[t] = sessions[t]
  <2>1. PICK left \in SUBSET Live : sessions' = [t \in left |-> sessions[t]]
    <3>1. {t \in Live : sessions[t].account # calls[b].row.account} \in SUBSET Live
          /\ Live \ {cookies[b]} \in SUBSET Live
      OBVIOUS
    <3> QED BY <1>4, <3>1 DEF deleteAllForAccount, logout, deleteByTokenHash
  <2>2. UNCHANGED <<stay, engine, now, accounts, issued>>
    BY <1>4 DEF attend, deleteAllForAccount, logout
  <2> QED BY <2>1, <2>2, Ending DEF Live
<1>5. ASSUME NEW b \in Browser, attend(b), NEW id, NEW at, issueSession(b, id, at),
             accounts \subseteq accounts'
      PROVE  RowsGoOn /\ \A t \in Live \cap Live' : sessions'[t] = sessions[t]
  BY <1>5, IssuingRows DEF attend
<1>6. ASSUME NEW b \in Browser, attend(b), hashed(b) \/ verified(b)
      PROVE  \/ UNCHANGED <<engine, accounts, sessions, issued>>
             \/ accounts \subseteq accounts' /\ \E id, at : issueSession(b, id, at)
  BY <1>6 DEF attend, hashed, insert, verified
<1>7. ASSUME NEW b \in Browser, credentials(b) \/ restore(b) \/ pressLogout(b) \/ reopen(b)
                                 \/ hearAnswer(b) \/ lose(b)
      PROVE  UNCHANGED <<engine, accounts, sessions, issued>>
  BY <1>7 DEF credentials, restore, pressLogout, ask, reopen, hearAnswer, lose
<1>8. ASSUME NEW b \in Browser, attend(b), signup(b) \/ login(b) \/ findByTokenHash(b)
      PROVE  UNCHANGED <<engine, accounts, sessions, issued>>
  BY <1>8 DEF attend, signup, login, findByTokenHash
<1> DEFINE Later == engine = "sync" => \A t \in Live \cap Live' :
                                         sessions'[t].expires_at >= sessions[t].expires_at
<1>9. (\A t \in Live \cap Live' : sessions'[t] = sessions[t]) => Later
  BY <1>0
<1> HIDE DEF Later
<1>10. ASSUME NEW b \in Browser, attend(b) PROVE RowsGoOn /\ Later
  <2>1. CASE signup(b) \/ login(b) \/ findByTokenHash(b)
    BY <1>1, <1>8, <1>10, <2>1 DEF Later
  <2>2. CASE hashed(b) \/ verified(b)
    BY <1>1, <1>5, <1>6, <1>9, <1>10, <2>2 DEF Later
  <2>3. CASE resolveSession(b)
    BY <1>3, <1>10, <2>3 DEF Later
  <2>4. CASE deleteAllForAccount(b) \/ logout(b)
    BY <1>4, <1>9, <1>10, <2>4
  <2> QED BY <1>10, <2>1, <2>2, <2>3, <2>4 DEF attend, serves
<1>11. RowsGoOn /\ Later
  BY <1>1, <1>2, <1>7, <1>10 DEF NextAccounts, Later
<1> QED BY <1>11 DEF Later

\* No use of a session that is under way revives one that has ended, or has one that is not
\* remembered last longer; with the synchronous engine none ends earlier for being used.
THEOREM SessionsAlwaysRunOut == SpecServices => SessionsRunOut
<1> DEFINE Step == /\ \A t \in 1 .. issued : t \notin Live => t \notin DOMAIN sessions'
                   /\ \A t \in Live \cap DOMAIN sessions' :
                        /\ ~sessions[t].remember => sessions'[t].expires_at = sessions[t].expires_at
                        /\ engine = "sync" => sessions'[t].expires_at >= sessions[t].expires_at
<1>1. AccountsInv /\ [NextAccounts]_accountVars => [Step]_accountVars
  BY RowsOfAStep DEF RowsGoOn, Live
<1> QED BY <1>1, AccountsKeep, AccountsAlone, PTL DEF SpecAccounts, SessionsRunOut

---------------------------------------------------------------------------
(* The talk of a match.  A page hears a line live, with the backlog, or    *)
(* both, and keeps it by its number.                                       *)

---------------------------------------------------------------------------
(* Lines in their order.                                                   *)

Rising(s) == \A i, j \in DOMAIN s : i < j => s[i].id < s[j].id

\* Where a new number belongs among ascending ones.
LEMMA APlaceForIt ==
  ASSUME NEW t \in Seq(ChatEntry), Rising(t), NEW x \in Nat,
         \A i \in DOMAIN t : t[i].id # x
  PROVE  \E j \in 0 .. Len(t) : \A i \in 1 .. Len(t) : i <= j <=> t[i].id < x
<1> DEFINE n == Len(t)
           Over == {i \in Nat : i >= 1 /\ (i = n + 1 \/ (i <= n /\ t[i].id > x))}
           Less == OpToRel(<, Nat)
<1>1. n \in Nat /\ DOMAIN t = 1 .. n /\ \A i \in 1 .. n : t[i] \in ChatEntry
  BY LenProperties
<1> HIDE DEF n
<1>2. n + 1 \in Over
  BY <1>1
<1>3. Over \subseteq Nat
  OBVIOUS
<1>4. PICK m \in Over : \A i \in Over : <<i, m>> \notin Less
  <2> HIDE DEF Over, Less
  <2> QED BY <1>2, <1>3, NatLessThanWellFounded, WFMin DEF Less
<1>5. \A i \in Over : ~(i < m)
  BY <1>3, <1>4 DEF OpToRel
<1>6. m \in Nat /\ m >= 1 /\ m <= n + 1 /\ (m <= n => t[m].id > x)
  BY <1>1
<1> HIDE DEF Less
<1>7. ASSUME NEW i \in 1 .. n
      PROVE  i <= m - 1 <=> t[i].id < x
  <2>1. t[i].id \in Nat /\ t[i].id # x
    BY <1>1 DEF ChatEntry
  <2>2. CASE i <= m - 1
    BY <1>5, <1>6, <1>1, <2>1, <2>2
  <2>3. CASE ~(i <= m - 1)
    <3>1. m \in 1 .. n /\ (m = i \/ m < i) /\ t[m].id > x /\ t[m].id \in Nat
      BY <1>1, <1>6, <2>3 DEF ChatEntry
    <3>2. t[i].id > x
      BY <1>1, <2>1, <3>1 DEF Rising
    <3> QED BY <2>1, <2>3, <3>2
  <2> QED BY <2>2, <2>3
<1>8. m - 1 \in 0 .. n
  BY <1>1, <1>6
<1> QED BY <1>7, <1>8 DEF n

\* Rising lines with another among them, in their order: each at its place.
LEMMA OneMoreInOrder ==
  ASSUME NEW t \in Seq(ChatEntry), Rising(t), NEW e \in ChatEntry,
         \A i \in DOMAIN t : t[i].id # e.id
  PROVE  LET u == InOrder(Append(t, e))
         IN u \in Seq(ChatEntry) /\ Len(u) = Len(t) + 1 /\ Rising(u)
            /\ ToSet(u) = ToSet(t) \cup {e}
<1> DEFINE n == Len(t)
           s == Append(t, e)
           Rank(x) == Cardinality({i \in DOMAIN s : s[i].id < x})
<1>1. /\ n \in Nat /\ DOMAIN t = 1 .. n /\ \A i \in 1 .. n : t[i] \in ChatEntry /\ t[i].id \in Nat
      /\ e.id \in Nat
      /\ DOMAIN s = 1 .. n + 1 /\ s[n + 1] = e /\ \A i \in 1 .. n : s[i] = t[i]
  <2>1. n \in Nat /\ DOMAIN t = 1 .. n /\ \A i \in 1 .. n : t[i] \in ChatEntry
    BY LenProperties
  <2>2. \A x \in ChatEntry : x.id \in Nat
    BY DEF ChatEntry
  <2>3. s \in Seq(ChatEntry) /\ Len(s) = n + 1 /\ s[n + 1] = e /\ \A i \in 1 .. n : s[i] = t[i]
    BY AppendProperties
  <2>4. DOMAIN s = 1 .. n + 1
    <3> HIDE DEF s, n
    <3> QED BY <2>3, LenProperties
  <2> HIDE DEF s, n
  <2> QED BY <2>1, <2>2, <2>3, <2>4
<1>0. /\ \A a, b \in 1 .. n : a < b => t[a].id < t[b].id
      /\ \A i \in 1 .. n : t[i].id # e.id
  BY <1>1 DEF Rising
<1>2. PICK j \in 0 .. n : \A i \in 1 .. n : i <= j <=> t[i].id < e.id
  BY <1>1, APlaceForIt
<1>3. ToSet(s) = ToSet(t) \cup {e}
  BY InASequence
<1> DEFINE Here(k) == IF k <= j THEN t[k] ELSE IF k = j + 1 THEN e ELSE t[k - 1]
           u == [k \in 1 .. n + 1 |-> Here(k)]
           Place(i) == IF i = n + 1 THEN j + 1 ELSE IF i <= j THEN i ELSE i + 1
<1> HIDE DEF n, s
<1>4. ASSUME NEW i \in 1 .. n + 1
      PROVE  Rank(s[i].id) = Place(i) - 1 /\ Place(i) \in 1 .. n + 1 /\ u[Place(i)] = s[i]
  <2> DEFINE Lower == {k \in DOMAIN s : s[k].id < s[i].id}
  <2>0. \A k : k \in Lower <=> k \in 1 .. n + 1 /\ s[k].id < s[i].id
    BY <1>1
  <2>4. Rank(s[i].id) = Cardinality(Lower)
    OBVIOUS
  <2> HIDE DEF Lower, Rank
  <2>1. CASE i = n + 1
    <3>1. Place(i) = j + 1 /\ j + 1 \in 1 .. n + 1 /\ u[j + 1] = s[i]
      BY <1>1, <1>2, <2>1
    <3>2. \A k : k \in Lower <=> k \in 1 .. j
      BY <1>1, <1>2, <2>0, <2>1
    <3>3. Cardinality(1 .. j) = j
      BY <1>2, SoManyAreCounted
    <3>4. Lower = 1 .. j
      BY <3>2
    <3> HIDE DEF u, Place
    <3> QED BY <1>2, <2>4, <3>1, <3>3, <3>4
  <2>2. CASE i <= j
    <3>1. Place(i) = i /\ u[i] = s[i] /\ i \in 1 .. n
      BY <1>1, <1>2, <2>2
    <3>2. \A k : k \in Lower <=> k \in 1 .. i - 1
      BY <1>0, <1>1, <1>2, <2>0, <2>2
    <3>3. Cardinality(1 .. i - 1) = i - 1
      <4>1. i - 1 \in Nat
        BY <1>1
      <4> QED BY <4>1, SoManyAreCounted
    <3>4. Lower = 1 .. i - 1
      BY <3>2
    <3> HIDE DEF u, Place
    <3> QED BY <2>4, <3>1, <3>3, <3>4
  <2>3. CASE i > j /\ i <= n
    <3>1. Place(i) = i + 1 /\ u[i + 1] = s[i] /\ i + 1 \in 1 .. n + 1
      <4>1. i # n + 1 /\ ~(i <= j) /\ i + 1 \in 1 .. n + 1 /\ ~(i + 1 <= j) /\ i + 1 # j + 1
            /\ (i + 1) - 1 = i /\ s[i] = t[i]
        BY <1>1, <1>2, <2>3
      <4> QED BY <4>1
    <3>2. \A k : k \in Lower <=> k \in (1 .. i - 1) \cup {n + 1}
      <4>1. ASSUME NEW k \in 1 .. n
            PROVE  s[k].id < s[i].id <=> k \in 1 .. i - 1
        BY <1>0, <1>1, <2>3
      <4>2. s[n + 1].id < s[i].id
        BY <1>0, <1>1, <1>2, <2>3
      <4> QED BY <1>1, <2>0, <2>3, <4>1, <4>2
    <3>3. i - 1 \in Nat /\ n + 1 \notin 1 .. i - 1
      BY <1>1, <2>3
    <3>6. IsFiniteSet(1 .. i - 1) /\ Cardinality(1 .. i - 1) = i - 1
      BY <3>3, SoManyAreCounted
    <3>4. Cardinality((1 .. i - 1) \cup {n + 1}) = i
      <4> DEFINE below == 1 .. i - 1
      <4> HIDE DEF below
      <4>1. Cardinality(below \cup {n + 1}) = Cardinality(below) + 1
        BY <3>3, <3>6, FS_AddElement DEF below
      <4> QED BY <1>1, <3>6, <4>1 DEF below
    <3>5. Lower = (1 .. i - 1) \cup {n + 1}
      BY <3>2
    <3> HIDE DEF u, Place
    <3> QED BY <2>4, <3>1, <3>4, <3>5
  <2> QED BY <1>1, <1>2, <2>1, <2>2, <2>3
<1>5. ASSUME NEW k \in 1 .. n + 1
      PROVE  \E i \in 1 .. n + 1 : k = Place(i) /\ \A h \in 1 .. n + 1 : Place(h) = k => h = i
  <2> DEFINE i == IF k <= j THEN k ELSE IF k = j + 1 THEN n + 1 ELSE k - 1
  <2>1. i \in 1 .. n + 1 /\ k = Place(i)
    BY <1>1, <1>2
  <2>2. ASSUME NEW h \in 1 .. n + 1, Place(h) = k
        PROVE  h = i
    BY <1>1, <1>2, <2>2
  <2> HIDE DEF i, Place
  <2> QED BY <2>1, <2>2
<1>6. ASSUME NEW k \in 1 .. n + 1
      PROVE  (CHOOSE x \in ToSet(s) : Rank(x.id) = k - 1) = u[k]
  <2>1. PICK i \in 1 .. n + 1 : k = Place(i) /\ \A h \in 1 .. n + 1 : Place(h) = k => h = i
    BY <1>5
  <2>2. s[i] \in ToSet(s) /\ Rank(s[i].id) = k - 1 /\ u[k] = s[i]
    BY <1>1, <1>4, <2>1 DEF ToSet
  <2>3. ASSUME NEW x \in ToSet(s), Rank(x.id) = k - 1
        PROVE  x = s[i]
    <3>1. PICK h \in 1 .. n + 1 : x = s[h]
      BY <1>1 DEF ToSet
    <3>2. Place(h) = k
      <4>1. Rank(s[h].id) = Place(h) - 1 /\ Place(h) \in 1 .. n + 1
        BY <1>4
      <4> HIDE DEF Place, Rank
      <4> QED BY <1>1, <2>3, <3>1, <4>1
    <3> QED BY <2>1, <3>1, <3>2
  <2> HIDE DEF u, Rank
  <2> QED BY <2>2, <2>3
<1>7. InOrder(s) = u
  <2>1. InOrder(s) = [k \in 1 .. n + 1 |-> CHOOSE x \in ToSet(s) : Rank(x.id) = k - 1]
    BY <1>1 DEF InOrder
  <2>2. u = [k \in 1 .. n + 1 |-> u[k]]
    OBVIOUS
  <2> HIDE DEF u, Rank
  <2> QED BY <1>6, <2>1, <2>2
<1>8. u \in Seq(ChatEntry) /\ Len(u) = n + 1 /\ DOMAIN u = 1 .. n + 1
  BY <1>1, <1>2
<1>9. Rising(u)
  <2> SUFFICES ASSUME NEW h \in 1 .. n + 1, NEW k \in 1 .. n + 1, h < k
               PROVE  Here(h).id < Here(k).id
    BY <1>8 DEF Rising
  <2>1. CASE k <= j
    BY <1>1, <1>2, <2>1 DEF Rising
  <2>2. CASE k = j + 1
    BY <1>1, <1>2, <2>2
  <2>3. CASE k > j + 1 /\ h <= j
    BY <1>1, <1>2, <2>3 DEF Rising
  <2>4. CASE k > j + 1 /\ h = j + 1
    <3>1. k - 1 \in 1 .. n /\ ~(k - 1 <= j)
      BY <1>1, <1>2, <2>4
    <3>2. Here(h) = e /\ Here(k) = t[k - 1] /\ t[k - 1].id # e.id /\ ~(t[k - 1].id < e.id)
          /\ t[k - 1].id \in Nat /\ e.id \in Nat
      BY <1>1, <1>2, <2>4, <3>1
    <3> QED BY <3>2
  <2>5. CASE k > j + 1 /\ h > j + 1
    <3>1. h - 1 \in 1 .. n /\ k - 1 \in 1 .. n /\ h - 1 < k - 1
      BY <1>1, <1>2, <2>5
    <3>2. Here(h) = t[h - 1] /\ Here(k) = t[k - 1]
      BY <1>1, <1>2, <2>5
    <3> QED BY <1>0, <3>1, <3>2
  <2> QED BY <1>1, <1>2, <2>1, <2>2, <2>3, <2>4, <2>5
<1>10. ToSet(u) = ToSet(s)
  <2>1. \A k \in 1 .. n + 1 : u[k] \in ToSet(s)
    <3> SUFFICES ASSUME NEW k \in 1 .. n + 1 PROVE u[k] \in ToSet(s)
      OBVIOUS
    <3>1. PICK i \in 1 .. n + 1 : k = Place(i)
      BY <1>5
    <3>2. u[k] = s[i]
      BY <1>4, <3>1
    <3> HIDE DEF u
    <3> QED BY <1>1, <3>2 DEF ToSet
  <2>2. \A i \in 1 .. n + 1 : s[i] \in ToSet(u)
    <3> SUFFICES ASSUME NEW i \in 1 .. n + 1 PROVE s[i] \in ToSet(u)
      OBVIOUS
    <3>1. Place(i) \in 1 .. n + 1 /\ u[Place(i)] = s[i]
      BY <1>4
    <3> HIDE DEF u, Place
    <3> QED BY <1>8, <3>1 DEF ToSet
  <2> HIDE DEF u
  <2> QED BY <1>1, <1>8, <2>1, <2>2 DEF ToSet
<1> HIDE DEF u
<1> QED BY <1>3, <1>7, <1>8, <1>9, <1>10 DEF s, n

\* The newest of at most one too many.
LEMMA NewestIs ==
  ASSUME NEW A, NEW s \in Seq(A), NEW n \in Nat \ {0}, Len(s) <= n + 1
  PROVE  /\ Len(s) <= n => Newest(s, n) = s
         /\ Len(s) = n + 1 => Newest(s, n) = Tail(s)
<1>1. Len(s) \in Nat /\ DOMAIN s = 1 .. Len(s)
  BY LenProperties
<1>2. ASSUME Len(s) <= n
      PROVE  Newest(s, n) = s
  <2>1. Newest(s, n) = SubSeq(s, 1, Len(s))
    <3> DEFINE from == IF Len(s) > n THEN Len(s) - n + 1 ELSE 1
    <3>1. from = 1 /\ Newest(s, n) = SubSeq(s, from, Len(s))
      BY <1>1, <1>2 DEF Newest
    <3> HIDE DEF from
    <3> QED BY <3>1
  <2> QED BY <2>1, SubSeqFull
<1>3. ASSUME Len(s) = n + 1
      PROVE  Newest(s, n) = Tail(s)
  <2>1. Newest(s, n) = SubSeq(s, 2, Len(s))
    <3> DEFINE from == IF Len(s) > n THEN Len(s) - n + 1 ELSE 1
    <3>1. from = 2
      BY <1>1, <1>3
    <3>2. Newest(s, n) = SubSeq(s, from, Len(s))
      BY DEF Newest
    <3> HIDE DEF from
    <3> QED BY <3>1, <3>2
  <2> QED BY <1>1, <1>3, <2>1, TailIsSubSeq, EmptySeq
<1> QED BY <1>2, <1>3

\* Rising numbers are as far apart as their places at least.
LEMMA NumbersSpread ==
  ASSUME NEW s \in Seq(ChatEntry), Rising(s), s # <<>>
  PROVE  \A i \in 1 .. Len(s) : s[i].id >= s[1].id + i - 1
<1> DEFINE n == Len(s)
           Good == {k \in Nat : k + 1 <= n => s[k + 1].id >= s[1].id + k}
<1>1. n \in Nat /\ n > 0
  BY LenProperties, EmptySeq
<1>2. /\ \A i \in 1 .. n : s[i].id \in Nat
      /\ \A i, j \in 1 .. n : i < j => s[i].id < s[j].id
  <2>1. DOMAIN s = 1 .. n /\ \A i \in 1 .. n : s[i] \in ChatEntry
    BY LenProperties
  <2> HIDE DEF n
  <2> QED BY <2>1 DEF Rising, ChatEntry
<1> HIDE DEF n
<1>3. 0 \in Good
  BY <1>1, <1>2
<1>4. ASSUME NEW k \in Nat, k \in Good
      PROVE  k + 1 \in Good
  <2> SUFFICES ASSUME (k + 1) + 1 <= n PROVE s[(k + 1) + 1].id >= s[1].id + (k + 1)
    OBVIOUS
  <2>1. k + 1 \in 1 .. n /\ (k + 1) + 1 \in 1 .. n /\ 1 \in 1 .. n /\ k + 1 < (k + 1) + 1
    BY <1>1
  <2>2. s[k + 1].id < s[(k + 1) + 1].id /\ s[k + 1].id >= s[1].id + k
    BY <1>2, <1>4, <2>1
  <2> QED BY <1>2, <2>1, <2>2
<1> HIDE DEF Good
<1>5. Nat \subseteq Good
  BY <1>3, <1>4, CountingUp
<1>6. ASSUME NEW i \in 1 .. n
      PROVE  s[i].id >= s[1].id + i - 1
  <2>1. i - 1 \in Good /\ (i - 1) + 1 = i
    BY <1>1, <1>5
  <2> QED BY <1>1, <1>2, <2>1 DEF Good
<1> QED BY <1>6 DEF n

\* What a page makes of a line: one it has changes nothing; another is among the others, in their
\* order, and a line that is dropped for it is older by as many as the page keeps.
LEMMA ALineReceived ==
  ASSUME ChatAssumption, NEW s \in Seq(ChatEntry), Rising(s), Len(s) <= CHAT_HISTORY_LIMIT,
         NEW e \in ChatEntry
  PROVE  /\ receivedChat(s, e) \in Seq(ChatEntry) /\ Len(receivedChat(s, e)) <= CHAT_HISTORY_LIMIT
         /\ Rising(receivedChat(s, e))
         /\ ToSet(receivedChat(s, e)) \subseteq ToSet(s) \cup {e}
         /\ \A x \in ToSet(s) \cup {e} :
              x \notin ToSet(receivedChat(s, e)) =>
                \/ \E y \in ToSet(receivedChat(s, e)) : y.id = x.id
                \/ \E y \in ToSet(receivedChat(s, e)) : y.id >= x.id + CHAT_HISTORY_LIMIT
<1>0. CHAT_HISTORY_LIMIT \in Nat \ {0} /\ Len(s) \in Nat
  BY LenProperties DEF ChatAssumption
<1>1. CASE \E i \in DOMAIN s : s[i].id = e.id
  <2>1. receivedChat(s, e) = s
    BY <1>1 DEF receivedChat
  <2>2. \E y \in ToSet(s) : y.id = e.id
    BY <1>1 DEF ToSet
  <2> QED BY <2>1, <2>2
<1>2. CASE ~\E i \in DOMAIN s : s[i].id = e.id
  <2> DEFINE u == InOrder(Append(s, e))
             r == Newest(u, CHAT_HISTORY_LIMIT)
  <2>1. receivedChat(s, e) = r
    BY <1>2 DEF receivedChat
  <2>2. u \in Seq(ChatEntry) /\ Len(u) = Len(s) + 1 /\ Rising(u) /\ ToSet(u) = ToSet(s) \cup {e}
    BY <1>2, OneMoreInOrder
  <2> HIDE DEF u
  <2>3. /\ Len(u) <= CHAT_HISTORY_LIMIT => r = u
        /\ Len(u) = CHAT_HISTORY_LIMIT + 1 => r = Tail(u)
    BY <1>0, <2>2, NewestIs
  <2> HIDE DEF r
  <2>4. CASE Len(u) <= CHAT_HISTORY_LIMIT
    BY <2>1, <2>2, <2>3, <2>4
  <2>5. CASE Len(u) = CHAT_HISTORY_LIMIT + 1
    <3> DEFINE n == CHAT_HISTORY_LIMIT
    <3>1. r = Tail(u) /\ u # <<>>
      BY <1>0, <2>2, <2>3, <2>5, EmptySeq
    <3>2. r \in Seq(ChatEntry) /\ Len(r) = n /\ \A i \in 1 .. n : r[i] = u[i + 1]
      BY <1>0, <2>2, <2>5, <3>1, HeadTailProperties
    <3>3. DOMAIN r = 1 .. n /\ DOMAIN u = 1 .. n + 1 /\ n \in Nat /\ n > 0
      <4>1. DOMAIN r = 1 .. Len(r)
        BY <3>2, LenProperties
      <4>2. DOMAIN u = 1 .. Len(u)
        BY <2>2, LenProperties
      <4> QED BY <1>0, <2>5, <3>2, <4>1, <4>2
    <3>4. ToSet(u) = {u[1]} \cup ToSet(r)
      <4>1. ToSet(u) = {Head(u)} \cup ToSet(Tail(u))
        BY <2>2, <3>1, InASequence
      <4>2. Head(u) = u[1]
        BY <3>1
      <4> QED BY <3>1, <4>1, <4>2
    <3> HIDE DEF n
    <3>5. Rising(r)
      <4> SUFFICES ASSUME NEW i \in 1 .. n, NEW j \in 1 .. n, i < j
                   PROVE  r[i].id < r[j].id
        BY <3>3 DEF Rising
      <4>1. i + 1 \in 1 .. n + 1 /\ j + 1 \in 1 .. n + 1 /\ i + 1 < j + 1
        BY <3>3
      <4>2. u[i + 1].id < u[j + 1].id
        BY <2>2, <3>3, <4>1 DEF Rising
      <4> QED BY <3>2, <4>2
    <3>6. u[n + 1] \in ToSet(r)
      <4>1. n \in 1 .. n /\ r[n] = u[n + 1]
        BY <3>2, <3>3
      <4> QED BY <3>3, <4>1 DEF ToSet
    <3>7. u[n + 1].id >= u[1].id + n
      <4>3. \A i \in 1 .. Len(u) : u[i].id >= u[1].id + i - 1
        BY <2>2, <3>1, NumbersSpread
      <4>4. n + 1 \in 1 .. Len(u)
        BY <2>5, <3>3 DEF n
      <4>1. n + 1 \in 1 .. Len(u) /\ u[n + 1].id >= u[1].id + (n + 1) - 1
        BY <4>3, <4>4
      <4>2. u[1].id \in Nat /\ u[n + 1].id \in Nat
        <5>1. u[1] \in ChatEntry /\ u[n + 1] \in ChatEntry
          BY <2>2, <2>5, <3>3, LenProperties DEF n
        <5> QED BY <5>1 DEF ChatEntry
      <4> QED BY <3>3, <4>1, <4>2
    <3> QED BY <2>1, <2>2, <3>2, <3>3, <3>4, <3>5, <3>6, <3>7 DEF n
  <2> QED BY <1>0, <2>2, <2>4, <2>5
<1> QED BY <1>1, <1>2

---------------------------------------------------------------------------
(* The invariant of the talk.                                              *)

\* The times that are within the last window.
Lately == {at \in Nat : clock - at < CHAT_WINDOW_MS}
SpokenIn(p, T) == {e \in spoken : e.from = p /\ e.on = sockets[p] /\ e.at \in T}
KnownTo(p) == ToSet(lines[p]) \cup ToSet(shown[p])

TalkHasItsShape ==
  /\ clock \in Nat /\ nextChatId \in Nat
  /\ chat \in Seq(ChatEntry) /\ Len(chat) <= CHAT_BACKLOG
  /\ chatTimes \in [Talker -> Seq(Nat)] /\ sockets \in [Talker -> Nat]
  /\ lines \in [Talker -> Seq(ChatEntry)] /\ shown \in [Talker -> Seq(ChatEntry)]
  /\ \A p \in Talker : Len(chatTimes[p]) <= CHAT_BURST /\ Len(shown[p]) <= CHAT_HISTORY_LIMIT
  /\ seat \in [Talker -> {"watching", "menu", "gone"}]

\* What was spoken of late has numbers that were given out, after disconnections there were; and the
\* times a talker is measured by are those of its lines since the last of them, whatever part of the
\* window is asked about.
TalkIsCounted ==
  /\ IsFiniteSet(spoken) /\ spoken \subseteq [id : Nat, from : Talker, at : Lately, on : Nat]
  /\ \A e \in spoken : e.id < nextChatId /\ e.on <= sockets[e.from]
  /\ \A p \in Talker : \A T \in SUBSET Lately :
       Len(Filtered(chatTimes[p], T)) = Cardinality(SpokenIn(p, T))

\* The lines remembered are the last ones, without a gap.
TalkIsNumbered ==
  \A i \in 1 .. Len(chat) : chat[i].id = nextChatId - Len(chat) + i - 1

\* Nothing is known, or on its way, that was not said or may not be heard; and one number is one line.
TalkIsKept ==
  \A p \in Talker :
    /\ Rising(shown[p])
    /\ \A e \in KnownTo(p) : /\ e.id < nextChatId /\ canHear(e, SideOf[p])
                           /\ \A c \in ToSet(chat) : c.id = e.id => c = e

\* Who watches has, or is being sent, each line remembered that it may hear.
TalkComesThrough ==
  \A p \in Talker : seat[p] = "watching" =>
    \A c \in ToSet(chat) : canHear(c, SideOf[p]) => c \in KnownTo(p)

ChatInv == TalkHasItsShape /\ TalkIsCounted /\ TalkIsNumbered /\ TalkIsKept /\ TalkComesThrough

---------------------------------------------------------------------------
\* A chat begins with nothing said.
LEMMA ChatBegins == InitChat => ChatInv
<1> SUFFICES ASSUME InitChat PROVE ChatInv
  OBVIOUS
<1>1. TalkHasItsShape
  <2>1. {CHAT_BURST, CHAT_BACKLOG, CHAT_HISTORY_LIMIT} \subseteq Nat
    BY ChatAssumption DEF ChatAssumption
  <2>2. <<>> \in Seq(ChatEntry) /\ <<>> \in Seq(Nat) /\ Len(<<>>) = 0
    BY EmptySeq
  <2> QED BY <2>1, <2>2 DEF InitChat, TalkHasItsShape
<1>2. TalkIsCounted
  <2>1. ASSUME NEW p \in Talker, NEW T \in SUBSET Lately
        PROVE  Len(Filtered(chatTimes[p], T)) = Cardinality(SpokenIn(p, T))
    <3>1. chatTimes[p] = <<>> /\ SpokenIn(p, T) = {}
      BY DEF InitChat, SpokenIn
    <3>2. Filtered(<<>>, T) = <<>>
      BY FilteredOfNothing
    <3> QED BY <3>1, <3>2, FS_EmptySet
  <2>2. spoken = {} /\ IsFiniteSet(spoken)
    BY FS_EmptySet DEF InitChat
  <2> QED BY <2>1, <2>2 DEF TalkIsCounted
<1>3. TalkIsNumbered
  BY DEF InitChat, TalkIsNumbered
<1>4. ToSet(<<>>) = {}
  BY InASequence
<1>5. TalkIsKept /\ TalkComesThrough
  BY <1>4 DEF InitChat, TalkIsKept, TalkComesThrough, KnownTo, Rising
<1> QED BY <1>1, <1>2, <1>3, <1>5 DEF ChatInv

\* Only speaking and the clock change what is counted.
LEMMA NobodySpeaks ==
  ASSUME TalkIsCounted, UNCHANGED <<clock, nextChatId, chatTimes, spoken, sockets>>
  PROVE  TalkIsCounted'
BY DEF TalkIsCounted, Lately, SpokenIn

\* When time passes the window moves, and what is counted is what is left in it.
LEMMA PassesKeeps ==
  ASSUME ChatInv, passes
  PROVE  ChatInv'
<1> USE DEF ChatInv
<1>1. /\ clock \in Nat /\ clock' = clock + 1
      /\ spoken' = {e \in spoken : clock' - e.at < CHAT_WINDOW_MS}
      /\ UNCHANGED <<chat, nextChatId, chatTimes, sockets, lines, shown, seat>>
  BY DEF passes, TalkHasItsShape
<1>2. Lately' \subseteq Lately /\ CHAT_WINDOW_MS \in Nat
  BY <1>1, ChatAssumption DEF Lately, ChatAssumption
<1>3. IsFiniteSet(spoken') /\ spoken' \subseteq spoken
  BY <1>1, FS_Subset DEF TalkIsCounted
<1>4. spoken' \subseteq [id : Nat, from : Talker, at : Lately', on : Nat]
  <2> SUFFICES ASSUME NEW e \in spoken' PROVE e \in [id : Nat, from : Talker, at : Lately', on : Nat]
    OBVIOUS
  <2>1. e \in [id : Nat, from : Talker, at : Lately, on : Nat] /\ clock' - e.at < CHAT_WINDOW_MS
    BY <1>1 DEF TalkIsCounted
  <2> QED BY <2>1 DEF Lately
<1>5. ASSUME NEW p \in Talker, NEW T \in SUBSET Lately'
      PROVE  Len(Filtered(chatTimes'[p], T)) = Cardinality(SpokenIn(p, T)')
  <2>1. ASSUME NEW e \in spoken, e.at \in T
        PROVE  e \in spoken'
    BY <1>1, <2>1 DEF Lately
  <2>2. SpokenIn(p, T)' = SpokenIn(p, T)
    BY <1>1, <1>3, <2>1 DEF SpokenIn
  <2>3. T \in SUBSET Lately
    BY <1>2
  <2> QED BY <1>1, <2>2, <2>3 DEF TalkIsCounted
<1>6. TalkIsCounted'
  BY <1>1, <1>3, <1>4, <1>5 DEF TalkIsCounted
<1>7. TalkHasItsShape' /\ TalkIsNumbered' /\ TalkIsKept' /\ TalkComesThrough'
  BY <1>1 DEF TalkHasItsShape, TalkIsNumbered, TalkIsKept, TalkComesThrough, KnownTo
<1> QED BY <1>6, <1>7

\* A line that is remembered is one of the last, and has its number.
LEMMA RememberedIsRecent ==
  ASSUME TalkHasItsShape, TalkIsNumbered, NEW c \in ToSet(chat)
  PROVE  c \in ChatEntry /\ c.id \in Nat /\ c.id < nextChatId /\ c.id >= nextChatId - Len(chat)
         /\ \A d \in ToSet(chat) : d.id = c.id => d = c
<1>1. ToSet(chat) = {chat[i] : i \in 1 .. Len(chat)} /\ Len(chat) \in Nat /\ c \in ChatEntry
  BY InASequence, LenProperties DEF TalkHasItsShape
<1>2. nextChatId \in Nat
  BY DEF TalkHasItsShape
<1>3. PICK i \in 1 .. Len(chat) : c = chat[i]
  BY <1>1
<1>4. c.id = nextChatId - Len(chat) + i - 1
  BY <1>3 DEF TalkIsNumbered
<1>5. ASSUME NEW d \in ToSet(chat), d.id = c.id
      PROVE  d = c
  <2>1. PICK j \in 1 .. Len(chat) : d = chat[j]
    BY <1>1
  <2>2. d.id = nextChatId - Len(chat) + j - 1
    BY <2>1 DEF TalkIsNumbered
  <2>3. i = j
    BY <1>1, <1>2, <1>4, <1>5, <2>2
  <2> QED BY <1>3, <2>1, <2>3
<1>6. c.id \in Nat
  BY <1>1 DEF ChatEntry
<1> QED BY <1>1, <1>2, <1>4, <1>5, <1>6

\* A line that is heard is kept among those the page has, or was there, or is too old to be
\* remembered.
LEMMA HearKeepsTalk ==
  ASSUME ChatInv, NEW p \in Talker, hear(p)
  PROVE  ChatInv'
<1> USE DEF ChatInv
<1> DEFINE e == Head(lines[p])
           s == shown[p]
           r == receivedChat(s, e)
<1>1. /\ lines[p] \in Seq(ChatEntry) /\ lines[p] # <<>> /\ s \in Seq(ChatEntry) /\ Rising(s)
      /\ Len(s) <= CHAT_HISTORY_LIMIT
  BY DEF hear, TalkHasItsShape, TalkIsKept
<1>2. /\ e \in ChatEntry /\ Tail(lines[p]) \in Seq(ChatEntry)
  BY <1>1, HeadTailProperties
<1>3. ToSet(lines[p]) = {e} \cup ToSet(Tail(lines[p]))
  BY <1>1, InASequence
<1>4. /\ r \in Seq(ChatEntry) /\ Len(r) <= CHAT_HISTORY_LIMIT /\ Rising(r)
      /\ ToSet(r) \subseteq ToSet(s) \cup {e}
      /\ \A x \in ToSet(s) \cup {e} :
           x \notin ToSet(r) => \/ \E y \in ToSet(r) : y.id = x.id
                                \/ \E y \in ToSet(r) : y.id >= x.id + CHAT_HISTORY_LIMIT
  <2> HIDE DEF e, s
  <2> QED BY <1>1, <1>2, ChatAssumption, ALineReceived
<1>5. /\ shown' = [shown EXCEPT ![p] = r] /\ lines' = [lines EXCEPT ![p] = Tail(lines[p])]
      /\ UNCHANGED <<clock, chat, nextChatId, chatTimes, spoken, sockets, seat>>
  BY DEF hear
<1>6. e \in KnownTo(p) /\ ToSet(s) \subseteq KnownTo(p)
  BY <1>3 DEF KnownTo
<1> HIDE DEF e, s, r
<1>7. TalkHasItsShape'
  BY <1>2, <1>4, <1>5 DEF TalkHasItsShape
<1>8. TalkIsCounted' /\ TalkIsNumbered'
  BY <1>5, NobodySpeaks DEF TalkIsNumbered
<1>9. /\ shown'[p] = r /\ lines'[p] = Tail(lines[p])
      /\ \A q \in Talker : q # p => shown'[q] = shown[q] /\ lines'[q] = lines[q]
  BY <1>5 DEF TalkHasItsShape
<1>10. KnownTo(p)' \subseteq KnownTo(p) /\ \A q \in Talker : q # p => KnownTo(q)' = KnownTo(q)
  <2>1. ToSet(lines'[p]) \subseteq KnownTo(p)
    BY <1>3, <1>9 DEF KnownTo
  <2>2. ToSet(shown'[p]) \subseteq KnownTo(p)
    BY <1>4, <1>6, <1>9
  <2> QED BY <1>9, <2>1, <2>2 DEF KnownTo
<1>11. TalkIsKept'
  BY <1>4, <1>5, <1>9, <1>10 DEF TalkIsKept
<1>12. ASSUME NEW c \in ToSet(chat), canHear(c, SideOf[p]), seat[p] = "watching"
       PROVE  c \in KnownTo(p)'
  <2>1. c \in KnownTo(p)
    BY <1>12 DEF TalkComesThrough
  <2>2. CASE c \in ToSet(Tail(lines[p]))
    BY <1>9, <2>2 DEF KnownTo
  <2>3. CASE c \in ToSet(s) \cup {e}
    <3>1. SUFFICES c \in ToSet(r)
      BY <1>9 DEF KnownTo
    <3>2. SUFFICES ASSUME c \notin ToSet(r) PROVE FALSE
      OBVIOUS
    <3>3. ToSet(r) \subseteq KnownTo(p)
      BY <1>4, <1>6
    <3>4. \A y \in ToSet(r) : y.id < nextChatId /\ (c.id = y.id => c = y)
      BY <3>3 DEF TalkIsKept
    <3>5. c.id \in Nat /\ c.id >= nextChatId - Len(chat)
      BY RememberedIsRecent
    <3>6. PICK y \in ToSet(r) : y.id >= c.id + CHAT_HISTORY_LIMIT
      BY <1>4, <2>3, <3>2, <3>4
    <3>7. y.id \in Nat
      <4>1. y \in ChatEntry
        BY <1>4, InASequence
      <4> QED BY <4>1 DEF ChatEntry
    <3>8. /\ nextChatId \in Nat /\ Len(chat) \in Nat /\ Len(chat) <= CHAT_BACKLOG
          /\ CHAT_BACKLOG \in Nat /\ CHAT_HISTORY_LIMIT \in Nat /\ CHAT_BACKLOG <= CHAT_HISTORY_LIMIT
      BY ChatAssumption, LenProperties DEF TalkHasItsShape, ChatAssumption
    <3> QED BY <3>4, <3>5, <3>6, <3>7, <3>8
  <2>4. KnownTo(p) = ToSet(Tail(lines[p])) \cup (ToSet(s) \cup {e})
    BY <1>3 DEF KnownTo, s
  <2> QED BY <2>1, <2>2, <2>3, <2>4
<1>13. TalkComesThrough'
  BY <1>5, <1>10, <1>12 DEF TalkComesThrough
<1> QED BY <1>7, <1>8, <1>11, <1>13

---------------------------------------------------------------------------
\* Who comes back is sent what it may hear of what is remembered, after some of what was on its way
\* and to a page that has what it had, or nothing.
LEMMA ReturnKeeps ==
  ASSUME ChatInv, NEW p \in Talker,
         NEW before \in Seq(ChatEntry), ToSet(before) \subseteq ToSet(lines[p]),
         NEW own \in {<<>>, shown[p]},
         seat' = [seat EXCEPT ![p] = "watching"],
         lines' = [lines EXCEPT ![p] = before \o chatFor(p)], shown' = [shown EXCEPT ![p] = own],
         UNCHANGED <<clock, chat, nextChatId, chatTimes, spoken, sockets>>
  PROVE  ChatInv'
<1> USE DEF ChatInv
<1> DEFINE mine == {c \in ChatEntry : canHear(c, SideOf[p])}
<1>1. chatFor(p) \in Seq(ChatEntry) /\ ToSet(chatFor(p)) = ToSet(chat) \cap mine
  <2>1. chatFor(p) = Filtered(chat, mine)
    BY DEF chatFor
  <2> HIDE DEF mine
  <2> QED BY <2>1, FilteredIs DEF TalkHasItsShape
<1>2. /\ before \o chatFor(p) \in Seq(ChatEntry)
      /\ ToSet(before \o chatFor(p)) = ToSet(before) \cup (ToSet(chat) \cap mine)
  BY <1>1, InASequence, ConcatProperties
<1>3. /\ own \in Seq(ChatEntry) /\ Len(own) <= CHAT_HISTORY_LIMIT /\ Rising(own)
      /\ ToSet(own) \subseteq ToSet(shown[p])
  <2>1. CASE own = shown[p]
    BY <2>1 DEF TalkHasItsShape, TalkIsKept
  <2>2. CASE own = <<>>
    <3>1. ToSet(<<>>) = {}
      BY InASequence
    <3> QED BY <2>2, <3>1, ChatAssumption, EmptySeq DEF ChatAssumption, Rising
  <2> QED BY <2>1, <2>2
<1>4. /\ lines'[p] = before \o chatFor(p) /\ shown'[p] = own
      /\ \A q \in Talker : q # p => lines'[q] = lines[q] /\ shown'[q] = shown[q] /\ seat'[q] = seat[q]
  BY DEF TalkHasItsShape
<1>5. TalkHasItsShape'
  <2>1. lines' \in [Talker -> Seq(ChatEntry)] /\ shown' \in [Talker -> Seq(ChatEntry)]
    BY <1>2, <1>3 DEF TalkHasItsShape
  <2>2. \A q \in Talker : Len(shown'[q]) <= CHAT_HISTORY_LIMIT
    BY <1>3, <1>4 DEF TalkHasItsShape
  <2> QED BY <2>1, <2>2 DEF TalkHasItsShape
<1>6. TalkIsCounted' /\ TalkIsNumbered'
  BY NobodySpeaks DEF TalkIsNumbered
<1>7. /\ KnownTo(p)' \subseteq KnownTo(p) \cup (ToSet(chat) \cap mine)
      /\ ToSet(chat) \cap mine \subseteq KnownTo(p)'
      /\ \A q \in Talker : q # p => KnownTo(q)' = KnownTo(q)
  <2> HIDE DEF mine
  <2> QED BY <1>2, <1>3, <1>4 DEF KnownTo
<1>8. \A c \in ToSet(chat) \cap mine :
        /\ c.id < nextChatId /\ canHear(c, SideOf[p])
        /\ \A d \in ToSet(chat) : d.id = c.id => d = c
  BY RememberedIsRecent
<1>9. TalkIsKept'
  <2>1. \A e \in KnownTo(p)' : /\ e.id < nextChatId /\ canHear(e, SideOf[p])
                             /\ \A c \in ToSet(chat) : c.id = e.id => c = e
    BY <1>7, <1>8 DEF TalkIsKept
  <2>2. \A q \in Talker : Rising(shown'[q])
    BY <1>3, <1>4 DEF TalkIsKept
  <2> HIDE DEF mine
  <2> QED BY <1>7, <2>1, <2>2 DEF TalkIsKept
<1>10. \A c \in ToSet(chat) : canHear(c, SideOf[p]) => c \in KnownTo(p)'
  BY <1>7, RememberedIsRecent
<1>11. TalkComesThrough'
  <2> HIDE DEF mine
  <2> QED BY <1>4, <1>7, <1>10 DEF TalkComesThrough
<1> QED BY <1>5, <1>6, <1>9, <1>11

LEMMA ComeBackKeeps ==
  ASSUME ChatInv, NEW p \in Talker, comeBack(p) \/ replace(p)
  PROVE  ChatInv'
<1>1. lines[p] \in Seq(ChatEntry) /\ shown = [shown EXCEPT ![p] = shown[p]]
  BY DEF ChatInv, TalkHasItsShape
<1>2. CASE comeBack(p)
  BY <1>1, <1>2, ReturnKeeps DEF comeBack
<1>3. CASE replace(p)
  <2>1. <<>> \in Seq(ChatEntry) /\ ToSet(<<>>) = {}
    BY InASequence
  <2>2. chatFor(p) \in Seq(ChatEntry)
    <3> DEFINE mine == {c \in ChatEntry : canHear(c, SideOf[p])}
    <3>1. chatFor(p) = Filtered(chat, mine)
      BY DEF chatFor
    <3> HIDE DEF mine
    <3> QED BY <3>1, FilteredIs DEF ChatInv, TalkHasItsShape
  <2>3. <<>> \o chatFor(p) = chatFor(p)
    BY <2>2, ConcatEmptySeq
  <2>4. lines' = [lines EXCEPT ![p] = <<>> \o chatFor(p)] /\ shown' = [shown EXCEPT ![p] = <<>>]
    BY <1>3, <2>3 DEF replace
  <2> QED BY <1>3, <2>1, <2>4, ReturnKeeps DEF replace
<1> QED BY <1>2, <1>3

\* Since a disconnection that is new nothing has been said yet, and no time is kept.
LEMMA ANewSocketIsCounted ==
  ASSUME TalkHasItsShape, TalkIsCounted, NEW p \in Talker, UNCHANGED <<clock, nextChatId, spoken>>,
         chatTimes' = [chatTimes EXCEPT ![p] = <<>>],
         sockets' = [sockets EXCEPT ![p] = sockets[p] + 1]
  PROVE  TalkIsCounted'
<1>1. Lately' = Lately
  BY DEF Lately
<1>2. /\ sockets[p] \in Nat /\ sockets'[p] = sockets[p] + 1 /\ chatTimes'[p] = <<>>
      /\ \A q \in Talker : q # p => sockets'[q] = sockets[q] /\ chatTimes'[q] = chatTimes[q]
  BY DEF TalkHasItsShape
<1>3. \A e \in spoken : e.from \in Talker /\ e.on \in Nat /\ e.on <= sockets[e.from]
  BY DEF TalkIsCounted
<1>4. \A e \in spoken : e.on <= sockets'[e.from] /\ (e.from = p => e.on # sockets'[p])
  <2> SUFFICES ASSUME NEW e \in spoken
               PROVE  e.on <= sockets'[e.from] /\ (e.from = p => e.on # sockets'[p])
    OBVIOUS
  <2>1. CASE e.from = p
    BY <1>2, <1>3, <2>1
  <2>2. CASE e.from # p
    BY <1>2, <1>3, <2>2
  <2> QED BY <2>1, <2>2
<1>5. ASSUME NEW q \in Talker, NEW T \in SUBSET Lately
      PROVE  Len(Filtered(chatTimes'[q], T)) = Cardinality(SpokenIn(q, T)')
  <2>1. CASE q = p
    <3>1. SpokenIn(q, T)' = {}
      BY <1>4, <2>1 DEF SpokenIn
    <3> QED BY <1>2, <2>1, <3>1, FilteredOfNothing, FS_EmptySet, EmptySeq
  <2>2. CASE q # p
    <3>1. SpokenIn(q, T)' = SpokenIn(q, T)
      BY <1>2, <2>2 DEF SpokenIn
    <3> QED BY <1>2, <2>2, <3>1 DEF TalkIsCounted
  <2> QED BY <2>1, <2>2
<1> QED BY <1>1, <1>4, <1>5 DEF TalkIsCounted

\* Who leaves knows no more than before.
LEMMA LeavingKeeps ==
  ASSUME ChatInv, NEW p \in Talker, break(p) \/ walkOut(p)
  PROVE  ChatInv'
<1> USE DEF ChatInv
<1>1. /\ UNCHANGED <<clock, chat, nextChatId, spoken>>
      /\ \/ chatTimes' = chatTimes /\ sockets' = sockets
         \/ /\ chatTimes' = [chatTimes EXCEPT ![p] = <<>>]
            /\ sockets' = [sockets EXCEPT ![p] = sockets[p] + 1]
      /\ \E where \in {"menu", "gone"} : seat' = [seat EXCEPT ![p] = where]
      /\ lines' = [lines EXCEPT ![p] = <<>>] \/ lines' = lines
      /\ shown' = [shown EXCEPT ![p] = <<>>] \/ shown' = shown
  <2>1. CASE walkOut(p)
    BY <2>1 DEF walkOut
  <2>2. CASE break(p)
    <3>1. shown' = [shown EXCEPT ![p] = IF seat[p] = "watching" THEN <<>> ELSE shown[p]]
      BY <2>2 DEF break
    <3>2. shown = [shown EXCEPT ![p] = shown[p]]
      BY DEF TalkHasItsShape
    <3>3. shown' = [shown EXCEPT ![p] = <<>>] \/ shown' = shown
      BY <3>1, <3>2
    <3> QED BY <2>2, <3>3 DEF break, detachedTimes
  <2> QED BY <2>1, <2>2
<1>2. /\ seat'[p] # "watching" /\ seat' \in [Talker -> {"watching", "menu", "gone"}]
      /\ lines'[p] \in {<<>>, lines[p]} /\ shown'[p] \in {<<>>, shown[p]}
      /\ \A q \in Talker : q # p => seat'[q] = seat[q] /\ lines'[q] = lines[q] /\ shown'[q] = shown[q]
  BY <1>1 DEF TalkHasItsShape
<1>9. CHAT_BURST \in Nat /\ <<>> \in Seq(Nat) /\ Len(<<>>) = 0
  BY ChatAssumption, EmptySeq DEF ChatAssumption
<1>3. <<>> \in Seq(ChatEntry) /\ Len(<<>>) = 0 /\ CHAT_HISTORY_LIMIT \in Nat /\ ToSet(<<>>) = {}
      /\ Rising(<<>>)
  <2>1. ToSet(<<>>) = {}
    BY InASequence
  <2> QED BY <2>1, ChatAssumption, EmptySeq DEF ChatAssumption, Rising
<1>4. TalkHasItsShape'
  <2>1. lines' \in [Talker -> Seq(ChatEntry)] /\ shown' \in [Talker -> Seq(ChatEntry)]
    BY <1>1, <1>3 DEF TalkHasItsShape
  <2>2. \A q \in Talker : Len(shown'[q]) <= CHAT_HISTORY_LIMIT
    <3> SUFFICES ASSUME NEW q \in Talker PROVE Len(shown'[q]) <= CHAT_HISTORY_LIMIT
      OBVIOUS
    <3>1. shown'[q] \in {<<>>, shown[q]} /\ Len(shown[q]) <= CHAT_HISTORY_LIMIT
      BY <1>2 DEF TalkHasItsShape
    <3> QED BY <1>3, <3>1
  <2>3. /\ chatTimes' \in [Talker -> Seq(Nat)] /\ sockets' \in [Talker -> Nat]
        /\ \A q \in Talker : Len(chatTimes'[q]) <= CHAT_BURST
    <3>1. /\ chatTimes \in [Talker -> Seq(Nat)] /\ sockets \in [Talker -> Nat]
          /\ \A q \in Talker : Len(chatTimes[q]) <= CHAT_BURST
      BY DEF TalkHasItsShape
    <3>2. CASE chatTimes' = chatTimes /\ sockets' = sockets
      BY <3>1, <3>2
    <3>3. CASE /\ chatTimes' = [chatTimes EXCEPT ![p] = <<>>]
               /\ sockets' = [sockets EXCEPT ![p] = sockets[p] + 1]
      <4>1. CHAT_BURST >= 0
        BY <1>9
      <4>2. \A q \in Talker : chatTimes'[q] = IF q = p THEN <<>> ELSE chatTimes[q]
        BY <3>1, <3>3
      <4>3. \A q \in Talker : Len(chatTimes'[q]) <= CHAT_BURST
        BY <1>9, <3>1, <4>1, <4>2
      <4>4. chatTimes' \in [Talker -> Seq(Nat)] /\ sockets' \in [Talker -> Nat]
        BY <1>9, <3>1, <3>3
      <4> QED BY <4>3, <4>4
    <3> QED BY <1>1, <3>2, <3>3
  <2> QED BY <1>1, <1>2, <2>1, <2>2, <2>3 DEF TalkHasItsShape
<1>5. TalkIsCounted' /\ TalkIsNumbered'
  <2>0. TalkHasItsShape /\ TalkIsCounted
    BY DEF ChatInv
  <2>3. TalkIsNumbered'
    BY <1>1 DEF TalkIsNumbered
  <2>1. CASE chatTimes' = chatTimes /\ sockets' = sockets
    <3>1. UNCHANGED <<clock, nextChatId, chatTimes, spoken, sockets>>
      BY <1>1, <2>1
    <3> QED BY <2>0, <2>3, <3>1, NobodySpeaks
  <2>2. CASE /\ chatTimes' = [chatTimes EXCEPT ![p] = <<>>]
             /\ sockets' = [sockets EXCEPT ![p] = sockets[p] + 1]
    <3>1. UNCHANGED <<clock, nextChatId, spoken>>
      BY <1>1
    <3> QED BY <2>0, <2>2, <2>3, <3>1, ANewSocketIsCounted
  <2> QED BY <1>1, <2>1, <2>2
<1>6. \A q \in Talker : KnownTo(q)' \subseteq KnownTo(q) /\ (q # p => KnownTo(q)' = KnownTo(q))
  BY <1>2, <1>3 DEF KnownTo
<1>7. TalkIsKept'
  <2>1. \A q \in Talker : Rising(shown'[q])
    BY <1>2, <1>3 DEF TalkIsKept
  <2> QED BY <1>1, <1>6, <2>1 DEF TalkIsKept
<1>8. TalkComesThrough'
  BY <1>1, <1>2, <1>6 DEF TalkComesThrough
<1> QED BY <1>4, <1>5, <1>7, <1>8

---------------------------------------------------------------------------
(* Speaking.                                                               *)

\* The times within the window are what is measured.
LEMMA RecentIs ==
  ASSUME ChatInv, NEW p \in Talker
  PROVE  /\ recent(p) = Filtered(chatTimes[p], Lately) /\ recent(p) \in Seq(Nat)
         /\ Len(recent(p)) \in Nat /\ Len(recent(p)) <= CHAT_BURST
         /\ Len(recent(p)) = Cardinality({e \in spoken : e.from = p /\ e.on = sockets[p]})
         /\ \A T \in SUBSET Lately : Filtered(recent(p), T) = Filtered(chatTimes[p], T)
<1> USE DEF ChatInv
<1>1. recent(p) = Filtered(chatTimes[p], Lately)
  BY DEF recent, Lately
<1>2. chatTimes[p] \in Seq(Nat) /\ Len(chatTimes[p]) <= CHAT_BURST
  BY DEF TalkHasItsShape
<1>3. recent(p) \in Seq(Nat) /\ Len(recent(p)) <= Len(chatTimes[p])
  BY <1>1, <1>2, FilteredIs
<1>4. Len(recent(p)) \in Nat /\ Len(chatTimes[p]) \in Nat /\ CHAT_BURST \in Nat
  BY <1>2, <1>3, LenProperties, ChatAssumption DEF ChatAssumption
<1>5. SpokenIn(p, Lately) = {e \in spoken : e.from = p /\ e.on = sockets[p]}
  BY DEF TalkIsCounted, SpokenIn
<1>6. Lately \in SUBSET Lately
  OBVIOUS
<1>7. Len(recent(p)) = Cardinality({e \in spoken : e.from = p /\ e.on = sockets[p]})
  BY <1>1, <1>5, <1>6 DEF TalkIsCounted
<1>8. \A T \in SUBSET Lately : Filtered(recent(p), T) = Filtered(chatTimes[p], T)
  BY <1>1, <1>2, FilteredTwice
<1> QED BY <1>1, <1>2, <1>3, <1>4, <1>7, <1>8

\* A refusal forgets what is out of the window, and counts nothing.
LEMMA RefusedKeeps ==
  ASSUME ChatInv, NEW p \in Talker, chatTimes' = [chatTimes EXCEPT ![p] = recent(p)],
         UNCHANGED <<clock, chat, nextChatId, spoken, sockets, lines, shown, seat>>
  PROVE  ChatInv'
<1> USE DEF ChatInv
<1>1. /\ recent(p) \in Seq(Nat) /\ Len(recent(p)) <= CHAT_BURST
      /\ \A T \in SUBSET Lately : Filtered(recent(p), T) = Filtered(chatTimes[p], T)
  BY RecentIs
<1>2. chatTimes'[p] = recent(p) /\ \A q \in Talker : q # p => chatTimes'[q] = chatTimes[q]
  BY DEF TalkHasItsShape
<1>3. TalkHasItsShape'
  BY <1>1, <1>2 DEF TalkHasItsShape
<1>4. ASSUME NEW q \in Talker, NEW T \in SUBSET Lately
      PROVE  Filtered(chatTimes'[q], T) = Filtered(chatTimes[q], T)
  BY <1>1, <1>2
<1>5. Lately' = Lately /\ \A q \in Talker : \A T \in SUBSET Lately : SpokenIn(q, T)' = SpokenIn(q, T)
  BY DEF Lately, SpokenIn
<1>6. TalkIsCounted'
  BY <1>4, <1>5 DEF TalkIsCounted
<1>7. TalkIsNumbered' /\ TalkIsKept' /\ TalkComesThrough'
  BY DEF TalkIsNumbered, TalkIsKept, TalkComesThrough, KnownTo
<1> QED BY <1>3, <1>6, <1>7

\* One line more is remembered, and the oldest forgotten for it if there are too many.
LEMMA ALineRemembered ==
  ASSUME TalkHasItsShape, TalkIsNumbered, NEW e \in ChatEntry, e.id = nextChatId,
         chat' = Newest(Append(chat, e), CHAT_BACKLOG), nextChatId' = nextChatId + 1
  PROVE  /\ chat' \in Seq(ChatEntry) /\ Len(chat') <= CHAT_BACKLOG /\ TalkIsNumbered'
         /\ ToSet(chat') \subseteq ToSet(chat) \cup {e}
<1> DEFINE s == Append(chat, e)
           n == Len(chat)
<1>1. /\ s \in Seq(ChatEntry) /\ Len(s) = n + 1 /\ n \in Nat /\ n <= CHAT_BACKLOG
      /\ CHAT_BACKLOG \in Nat \ {0} /\ nextChatId \in Nat
      /\ s[n + 1] = e /\ \A i \in 1 .. n : s[i] = chat[i]
  BY AppendProperties, LenProperties, ChatAssumption DEF TalkHasItsShape, ChatAssumption
<1>2. ToSet(s) = ToSet(chat) \cup {e}
  BY InASequence DEF TalkHasItsShape
<1>3. \A i \in 1 .. n : chat[i].id = nextChatId - n + i - 1
  BY DEF TalkIsNumbered
<1> HIDE DEF s, n
<1>4. \A i \in 1 .. n + 1 : s[i].id = nextChatId - n + i - 1
  BY <1>1, <1>3
<1>5. /\ Len(s) <= CHAT_BACKLOG => chat' = s
      /\ Len(s) = CHAT_BACKLOG + 1 => chat' = Tail(s)
  <2>1. chat' = Newest(s, CHAT_BACKLOG)
    BY DEF s
  <2>2. Len(s) <= CHAT_BACKLOG + 1
    BY <1>1
  <2>3. /\ Len(s) <= CHAT_BACKLOG => Newest(s, CHAT_BACKLOG) = s
        /\ Len(s) = CHAT_BACKLOG + 1 => Newest(s, CHAT_BACKLOG) = Tail(s)
    BY <1>1, <2>2, NewestIs
  <2> QED BY <2>1, <2>3
<1>6. CASE Len(s) <= CHAT_BACKLOG
  <2>1. chat' = s
    BY <1>5, <1>6
  <2>2. TalkIsNumbered'
    <3>1. ASSUME NEW i \in 1 .. n + 1
          PROVE  s[i].id = (nextChatId + 1) - (n + 1) + i - 1
      BY <1>1, <1>4
    <3> QED BY <1>1, <2>1, <3>1 DEF TalkIsNumbered
  <2> QED BY <1>1, <1>2, <1>6, <2>1, <2>2
<1>7. CASE Len(s) = CHAT_BACKLOG + 1
  <2>1. chat' = Tail(s) /\ s # <<>>
    BY <1>1, <1>5, <1>7, EmptySeq
  <2>2. Tail(s) \in Seq(ChatEntry) /\ Len(Tail(s)) = n /\ \A i \in 1 .. n : Tail(s)[i] = s[i + 1]
    BY <1>1, <2>1, HeadTailProperties
  <2>3. ASSUME NEW i \in 1 .. n
        PROVE  Tail(s)[i].id = (nextChatId + 1) - n + i - 1
    <3>1. i + 1 \in 1 .. n + 1 /\ Tail(s)[i] = s[i + 1]
      BY <1>1, <2>2
    <3>2. s[i + 1].id = nextChatId - n + (i + 1) - 1
      BY <1>4, <3>1
    <3>3. s[i + 1].id = (nextChatId + 1) - n + i - 1
      BY <1>1, <3>2
    <3> QED BY <3>1, <3>3
  <2>4. TalkIsNumbered'
    BY <2>1, <2>2, <2>3 DEF TalkIsNumbered
  <2>5. ToSet(s) = {Head(s)} \cup ToSet(Tail(s))
    BY <1>1, <2>1, InASequence
  <2> QED BY <1>1, <1>2, <2>1, <2>2, <2>4, <2>5
<1> QED BY <1>1, <1>6, <1>7

\* A line spoken is counted once, in every part of the window that has its time.
LEMMA SpeakingIsCounted ==
  ASSUME ChatInv, NEW p \in Talker, UNCHANGED <<clock, sockets>>, nextChatId' = nextChatId + 1,
         chatTimes' = [chatTimes EXCEPT ![p] = Append(recent(p), clock)],
         spoken' = spoken \cup {[id |-> nextChatId, from |-> p, at |-> clock, on |-> sockets[p]]}
  PROVE  TalkIsCounted'
<1> USE DEF ChatInv
<1> DEFINE e == [id |-> nextChatId, from |-> p, at |-> clock, on |-> sockets[p]]
<1>1. /\ recent(p) \in Seq(Nat) /\ Len(recent(p)) \in Nat
      /\ \A T \in SUBSET Lately : Filtered(recent(p), T) = Filtered(chatTimes[p], T)
  BY RecentIs
<1>2. clock \in Lately /\ nextChatId \in Nat /\ clock \in Nat /\ Lately' = Lately
  BY ChatAssumption DEF TalkHasItsShape, ChatAssumption, Lately
<1>3. e \in [id : Nat, from : Talker, at : Lately, on : Nat] /\ e.id = nextChatId /\ e.from = p /\ e.at = clock
      /\ e.on = sockets[p] /\ sockets[p] \in Nat
  BY <1>2 DEF TalkHasItsShape
<1> HIDE DEF e
<1>4. spoken' = spoken \cup {e} /\ e \notin spoken
  BY <1>2, <1>3 DEF TalkIsCounted, e
<1>5. IsFiniteSet(spoken')
  BY <1>4, FS_AddElement DEF TalkIsCounted
<1>6. /\ spoken' \subseteq [id : Nat, from : Talker, at : Lately', on : Nat]
      /\ \A d \in spoken' : d.id < nextChatId' /\ d.on <= sockets'[d.from]
  <2>1. \A d \in spoken : d.id \in Nat /\ d.id < nextChatId /\ d.on <= sockets[d.from]
    BY DEF TalkIsCounted
  <2> QED BY <1>2, <1>3, <1>4, <2>1 DEF TalkIsCounted
<1>7. chatTimes'[p] = Append(recent(p), clock) /\ \A q \in Talker : q # p => chatTimes'[q] = chatTimes[q]
  BY DEF TalkHasItsShape
<1>8. ASSUME NEW q \in Talker, NEW T \in SUBSET Lately
      PROVE  Len(Filtered(chatTimes'[q], T)) = Cardinality(SpokenIn(q, T)')
  <2>0. Len(Filtered(chatTimes[q], T)) = Cardinality(SpokenIn(q, T)) /\ IsFiniteSet(SpokenIn(q, T))
    <3>1. SpokenIn(q, T) \in SUBSET spoken /\ IsFiniteSet(spoken)
      BY DEF TalkIsCounted, SpokenIn
    <3> QED BY <3>1, FS_Subset DEF TalkIsCounted
  <2>1. CASE q # p
    <3>1. SpokenIn(q, T)' = SpokenIn(q, T)
      BY <1>3, <1>4, <2>1 DEF SpokenIn
    <3> QED BY <1>7, <2>0, <2>1, <3>1
  <2>2. CASE q = p /\ clock \notin T
    <3>1. SpokenIn(q, T)' = SpokenIn(q, T)
      BY <1>3, <1>4, <2>2 DEF SpokenIn
    <3>2. Filtered(Append(recent(p), clock), T) = Filtered(recent(p), T)
      BY <1>1, <1>2, <2>2, FilteredOfOneMore
    <3> QED BY <1>1, <1>7, <2>0, <2>2, <3>1, <3>2
  <2>3. CASE q = p /\ clock \in T
    <3>1. SpokenIn(q, T)' = SpokenIn(q, T) \cup {e} /\ e \notin SpokenIn(q, T)
      BY <1>3, <1>4, <2>3 DEF SpokenIn
    <3>2. Filtered(Append(recent(p), clock), T) = Append(Filtered(recent(p), T), clock)
      BY <1>1, <1>2, <2>3, FilteredOfOneMore
    <3>3. Filtered(recent(p), T) \in Seq(Nat)
      BY <1>1, FilteredIs
    <3>4. Len(Append(Filtered(recent(p), T), clock)) = Len(Filtered(recent(p), T)) + 1
      BY <1>2, <3>3, AppendProperties
    <3>5. Cardinality(SpokenIn(q, T) \cup {e}) = Cardinality(SpokenIn(q, T)) + 1
      BY <2>0, <3>1, FS_AddElement
    <3> QED BY <1>1, <1>7, <2>0, <2>3, <3>1, <3>2, <3>4, <3>5
  <2> QED BY <2>1, <2>2, <2>3
<1> QED BY <1>2, <1>5, <1>6, <1>8 DEF TalkIsCounted

\* A line spoken is the newest, and is sent to whoever may hear it.
LEMMA SpokenKeeps ==
  ASSUME ChatInv, NEW p \in Talker, NEW scope \in CHAT_SCOPES, say(p, scope), allowChat(p)
  PROVE  ChatInv'
<1> USE DEF ChatInv
<1> DEFINE e == [id |-> nextChatId, from |-> p, scope |-> scope]
<1>1. /\ chatTimes' = [chatTimes EXCEPT ![p] = Append(recent(p), clock)]
      /\ chat' = Newest(Append(chat, e), CHAT_BACKLOG)
      /\ nextChatId' = nextChatId + 1
      /\ spoken' = spoken \cup {[id |-> nextChatId, from |-> p, at |-> clock, on |-> sockets[p]]}
      /\ lines' = [q \in Talker |-> IF seat[q] # "gone" /\ canHear(e, SideOf[q])
                                    THEN Append(lines[q], e) ELSE lines[q]]
      /\ UNCHANGED <<clock, sockets, shown, seat>>
  BY DEF say
<1>2. e \in ChatEntry /\ e.id = nextChatId /\ nextChatId \in Nat
  BY DEF TalkHasItsShape, ChatEntry
<1> HIDE DEF e
<1>3. /\ chat' \in Seq(ChatEntry) /\ Len(chat') <= CHAT_BACKLOG /\ TalkIsNumbered'
      /\ ToSet(chat') \subseteq ToSet(chat) \cup {e}
  BY <1>1, <1>2, ALineRemembered
<1>4. TalkIsCounted'
  BY <1>1, SpeakingIsCounted
<1>5. ASSUME NEW q \in Talker
      PROVE  /\ lines'[q] \in Seq(ChatEntry)
             /\ seat[q] # "gone" /\ canHear(e, SideOf[q]) => KnownTo(q)' = KnownTo(q) \cup {e}
             /\ ~(seat[q] # "gone" /\ canHear(e, SideOf[q])) => KnownTo(q)' = KnownTo(q)
  <2>1. lines[q] \in Seq(ChatEntry)
    BY DEF TalkHasItsShape
  <2>2. Append(lines[q], e) \in Seq(ChatEntry) /\ ToSet(Append(lines[q], e)) = ToSet(lines[q]) \cup {e}
    BY <1>2, <2>1, AppendProperties, InASequence
  <2>3. CASE seat[q] # "gone" /\ canHear(e, SideOf[q])
    <3>1. lines'[q] = Append(lines[q], e)
      BY <1>1, <2>3
    <3> QED BY <1>1, <2>2, <2>3, <3>1 DEF KnownTo
  <2>4. CASE ~(seat[q] # "gone" /\ canHear(e, SideOf[q]))
    <3>1. lines'[q] = lines[q]
      BY <1>1, <2>4
    <3> QED BY <1>1, <2>1, <2>4, <3>1 DEF KnownTo
  <2> QED BY <2>3, <2>4
<1>6. TalkHasItsShape'
  <2>1. /\ recent(p) \in Seq(Nat) /\ Len(recent(p)) \in Nat /\ Len(recent(p)) < CHAT_BURST
        /\ CHAT_BURST \in Nat /\ clock \in Nat
    BY RecentIs, ChatAssumption DEF allowChat, ChatAssumption, TalkHasItsShape
  <2>2. Append(recent(p), clock) \in Seq(Nat) /\ Len(Append(recent(p), clock)) <= CHAT_BURST
    BY <2>1, AppendProperties
  <2>3. chatTimes' \in [Talker -> Seq(Nat)] /\ \A q \in Talker : Len(chatTimes'[q]) <= CHAT_BURST
    BY <1>1, <2>2 DEF TalkHasItsShape
  <2>4. lines' \in [Talker -> Seq(ChatEntry)]
    <3>1. DOMAIN lines' = Talker /\ lines' = [q \in Talker |-> lines'[q]]
      BY <1>1
    <3> QED BY <1>5, <3>1
  <2> QED BY <1>1, <1>2, <1>3, <2>3, <2>4 DEF TalkHasItsShape
<1>7. \A c \in ToSet(chat) : c.id \in Nat /\ c.id < nextChatId
  BY RememberedIsRecent
<1>8. TalkIsKept'
  <2>1. ASSUME NEW q \in Talker, NEW d \in KnownTo(q)'
        PROVE  /\ d.id < nextChatId' /\ canHear(d, SideOf[q])
               /\ \A c \in ToSet(chat') : c.id = d.id => c = d
    <3>1. CASE d \in KnownTo(q)
      <4>1. /\ d.id < nextChatId /\ canHear(d, SideOf[q])
            /\ \A c \in ToSet(chat) : c.id = d.id => c = d
        BY <3>1 DEF TalkIsKept
      <4>2. d.id \in Nat
        <5>1. d \in ChatEntry
          BY <3>1, InASequence DEF KnownTo, TalkHasItsShape
        <5> QED BY <5>1 DEF ChatEntry
      <4> QED BY <1>1, <1>2, <1>3, <4>1, <4>2
    <3>2. CASE d = e /\ canHear(e, SideOf[q])
      BY <1>1, <1>2, <1>3, <1>7, <3>2
    <3> QED BY <1>5, <3>1, <3>2
  <2>2. \A q \in Talker : Rising(shown'[q])
    BY <1>1 DEF TalkIsKept
  <2> QED BY <2>1, <2>2 DEF TalkIsKept
<1>9. TalkComesThrough'
  <2> SUFFICES ASSUME NEW q \in Talker, seat[q] = "watching", NEW c \in ToSet(chat'),
                      canHear(c, SideOf[q])
               PROVE  c \in KnownTo(q)'
    BY <1>1 DEF TalkComesThrough
  <2>1. CASE c = e
    BY <1>5, <2>1
  <2>2. CASE c \in ToSet(chat)
    BY <1>5, <2>2 DEF TalkComesThrough
  <2> QED BY <1>3, <2>1, <2>2
<1> QED BY <1>3, <1>4, <1>6, <1>8, <1>9

\* Every step of a chat keeps its invariant.
LEMMA ChatStep == ChatInv /\ [NextChat]_chatVars => ChatInv'
<1> SUFFICES ASSUME ChatInv, [NextChat]_chatVars PROVE ChatInv'
  OBVIOUS
<1>1. CASE UNCHANGED chatVars
  <2>1. TalkIsCounted'
    BY <1>1, NobodySpeaks DEF ChatInv, chatVars
  <2>2. TalkHasItsShape' /\ TalkIsNumbered' /\ TalkIsKept' /\ TalkComesThrough'
    BY <1>1 DEF ChatInv, chatVars, TalkHasItsShape, TalkIsNumbered, TalkIsKept, TalkComesThrough, KnownTo
  <2> QED BY <2>1, <2>2 DEF ChatInv
<1>2. ASSUME NEW p \in Talker, NEW scope \in CHAT_SCOPES, say(p, scope)
      PROVE  ChatInv'
  <2>1. CASE allowChat(p)
    BY <1>2, <2>1, SpokenKeeps
  <2>2. CASE ~allowChat(p)
    BY <1>2, <2>2, RefusedKeeps DEF say
  <2> QED BY <2>1, <2>2
<1>3. ASSUME NEW p \in Talker, hear(p) \/ break(p) \/ walkOut(p) \/ comeBack(p) \/ replace(p)
      PROVE  ChatInv'
  BY <1>3, HearKeepsTalk, LeavingKeeps, ComeBackKeeps
<1>4. CASE passes
  BY <1>4, PassesKeeps
<1> QED BY <1>1, <1>2, <1>3, <1>4 DEF NextChat

\* So the talk is sound.
LEMMA TalkSound == ChatInv => TalkIsSound
<1> SUFFICES ASSUME ChatInv PROVE TalkIsSound
  OBVIOUS
<1> USE DEF ChatInv
<1>1. PageHasTheTalk
  <2>1. \A p \in Talker : \A i, j \in DOMAIN shown[p] : i < j => shown[p][i].id < shown[p][j].id
    BY DEF TalkIsKept, Rising
  <2>2. ASSUME NEW p \in Talker, seat[p] = "watching", lines[p] = <<>>
        PROVE  ToSet(chatFor(p)) \subseteq ToSet(shown[p])
    <3> DEFINE mine == {c \in ChatEntry : canHear(c, SideOf[p])}
    <3>1. ToSet(chatFor(p)) = ToSet(chat) \cap mine
      <4>1. chatFor(p) = Filtered(chat, mine)
        BY DEF chatFor
      <4> HIDE DEF mine
      <4> QED BY <4>1, FilteredIs DEF TalkHasItsShape
    <3>2. KnownTo(p) = ToSet(shown[p])
      <4>1. ToSet(<<>>) = {}
        BY InASequence
      <4> QED BY <2>2, <4>1 DEF KnownTo
    <3> QED BY <2>2, <3>1, <3>2 DEF TalkComesThrough
  <2> QED BY <2>1, <2>2 DEF PageHasTheTalk
<1>2. TalkStaysAmongItsSide
  <2> SUFFICES ASSUME NEW p \in Talker, NEW i \in DOMAIN shown[p], SideOf[p] # Observing
               PROVE  SideOf[p] = SideOf[shown[p][i].from] \/ shown[p][i].scope = "all"
    BY DEF TalkStaysAmongItsSide
  <2>1. shown[p][i] \in KnownTo(p)
    BY DEF KnownTo, ToSet
  <2> QED BY <2>1 DEF TalkIsKept, canHear
<1>3. RefusedOnlyTooOften
  BY RecentIs DEF RefusedOnlyTooOften, allowChat
<1> QED BY <1>1, <1>2, <1>3 DEF TalkIsSound

---------------------------------------------------------------------------
\* A chat is one by itself.
LEMMA ChatAlone == SpecServices => SpecChat
<1>1. InitServices => InitChat
  BY DEF InitServices
<1>2. [NextServices]_serviceVars => [NextChat]_chatVars
  BY DEF NextServices, serviceVars, chatVars
<1> QED BY <1>1, <1>2, PTL DEF SpecServices, SpecChat

\* A page that watches has every remembered line it may hear once its messages are in, each once
\* and in order, through broken and replaced sockets, returns and lines that come twice; a side's
\* talk stays its own; and a talker is refused exactly when it spoke too often within the last
\* window since it was last disconnected.
THEOREM TalkIsAlwaysSound == SpecServices => []TalkIsSound
BY ChatAlone, ChatBegins, ChatStep, TalkSound, PTL DEF SpecChat

---------------------------------------------------------------------------
(* Runs of charted squares.                                                *)

LEMMA ScopeSizes ==
  /\ ChartCols \in Nat \ {0} /\ ChartRows \in Nat \ {0} /\ RUNS_PER_CHUNK \in Nat \ {0}
  /\ SEEN_LIMIT \in Nat \ {0} /\ ALERT_FRAMES \in Nat \ {0}
  /\ MaxShows \in Nat \ {0} /\ MaxPictures \in Nat \ {0}
BY ScopeAssumption

\* A square's column and row.
LEMMA ColumnAndRow ==
  ASSUME NEW c \in Nat \ {0}, NEW r \in Nat, NEW s \in 0 .. c * r - 1
  PROVE  /\ s % c \in 0 .. c - 1 /\ s \div c \in 0 .. r - 1
         /\ (s \div c) * c + (s % c) = s
<1> DEFINE q == s \div c
           m == s % c
<1>1. q \in Int /\ m \in 0 .. c - 1 /\ s = c * q + m
  BY SMT
<1> HIDE DEF q, m
<1>2. c * q \in Int /\ c * r \in Int /\ c * q <= s /\ s < c * r
  BY <1>1
<1>3. q < r
  <2> SUFFICES ASSUME q >= r PROVE FALSE
    BY <1>1
  <2>1. c * (q - r) >= 0
    BY <1>1
  <2>2. c * (q - r) = c * q - c * r
    BY <1>1
  <2> QED BY <1>2, <2>1, <2>2
<1>4. q >= 0
  <2> SUFFICES ASSUME q <= -1 PROVE FALSE
    BY <1>1
  <2>1. c * (-1 - q) >= 0
    BY <1>1
  <2>2. c * (-1 - q) = -c - c * q
    BY <1>1
  <2>3. c * q <= -c
    BY <1>2, <2>1, <2>2
  <2> QED BY <1>1, <1>2, <2>3
<1>5. q * c = c * q
  BY <1>1
<1> QED BY <1>1, <1>3, <1>4, <1>5 DEF q, m

\* A run of one square covers it.
LEMMA ASquareAlone ==
  ASSUME NEW s \in ChartSquare
  PROVE  Run(s) \in ChartRun /\ Run(s).length = 1 /\ Covered(Run(s)) = {s}
         /\ Run(s).row * ChartCols + Run(s).col = s
<1>1. /\ s % ChartCols \in 0 .. ChartCols - 1 /\ s \div ChartCols \in 0 .. ChartRows - 1
      /\ (s \div ChartCols) * ChartCols + (s % ChartCols) = s
  BY ScopeSizes, ColumnAndRow DEF ChartSquare
<1>2. Run(s).row = s \div ChartCols /\ Run(s).col = s % ChartCols /\ Run(s).length = 1
  BY DEF Run
<1>3. Run(s) \in ChartRun
  BY <1>1 DEF Run, ChartRun
<1>4. Run(s).row * ChartCols + Run(s).col = s
  BY <1>1, <1>2
<1>5. Covered(Run(s)) = {s + i : i \in 0 .. 0}
  BY <1>2, <1>4 DEF Covered
<1>6. s \in Int
  BY DEF ChartSquare
<1>7. {s + i : i \in 0 .. 0} = {s}
  BY <1>6
<1> QED BY <1>2, <1>3, <1>4, <1>5, <1>7

\* A family of runs has finitely many.
Family(runs) == IsFiniteSet(DOMAIN runs) /\ \A i \in DOMAIN runs : runs[i] \in ChartRun

LEMMA RunLengths ==
  ASSUME NEW run \in ChartRun
  PROVE  run.length \in Nat
BY DEF ChartRun

LEMMA HowMany ==
  ASSUME NEW f, Family(f)
  PROVE  SquaresOf(f) \in Int
<1> DEFINE F == [i \in DOMAIN f |-> f[i].length]
<1>1. IsFiniteSet(DOMAIN f) /\ \A i \in DOMAIN f : F[i] \in Int
  BY RunLengths DEF Family
<1> HIDE DEF F
<1>2. SumOver(F, DOMAIN f) \in Int
  BY <1>1, SumInt
<1> QED BY <1>2 DEF F, SquaresOf

\* One run more.
LEMMA OneMoreRun ==
  ASSUME NEW f, NEW g, NEW p, Family(f), Family(g), p \notin DOMAIN f,
         DOMAIN g = DOMAIN f \cup {p}, \A i \in DOMAIN f : g[i] = f[i]
  PROVE  /\ CoveredBy(g) = CoveredBy(f) \cup Covered(g[p])
         /\ SquaresOf(g) = SquaresOf(f) + g[p].length
<1>1. CoveredBy(g) = CoveredBy(f) \cup Covered(g[p])
  BY DEF CoveredBy
<1>2. SquaresOf(g) = SquaresOf(f) + g[p].length
  <2> DEFINE D == DOMAIN f
             F == [i \in DOMAIN f |-> f[i].length]
             G == [i \in DOMAIN g |-> g[i].length]
  <2>1. IsFiniteSet(D) /\ \A i \in D : F[i] = G[i] /\ G[i] \in Int
    BY RunLengths DEF Family
  <2>2. G[p] = g[p].length /\ G[p] \in Int
    BY RunLengths DEF Family
  <2>3. SquaresOf(f) = SumOver(F, D) /\ SquaresOf(g) = SumOver(G, D \cup {p}) /\ p \notin D
    BY DEF SquaresOf
  <2> HIDE DEF D, F, G
  <2>4. SumOver(G, D \cup {p}) = G[p] + SumOver(G, D) /\ SumOver(G, D) \in Int
    BY <2>1, <2>2, <2>3, SumGrows, SumInt
  <2>5. SumOver(F, D) = SumOver(G, D)
    BY <2>1, SumSame
  <2> QED BY <2>2, <2>3, <2>4, <2>5
<1> QED BY <1>1, <1>2

\* One run longer.
LEMMA ALongerRun ==
  ASSUME NEW f, NEW g, NEW p, Family(f), Family(g), p \in DOMAIN f, DOMAIN g = DOMAIN f,
         \A i \in DOMAIN f \ {p} : g[i] = f[i],
         NEW X, Covered(g[p]) = Covered(f[p]) \cup X, g[p].length = f[p].length + 1
  PROVE  /\ CoveredBy(g) = CoveredBy(f) \cup X
         /\ SquaresOf(g) = SquaresOf(f) + 1
<1>1. CoveredBy(g) = CoveredBy(f) \cup X
  <2>1. \A x : /\ x \in CoveredBy(g) <=> \E i \in DOMAIN f : x \in Covered(g[i])
               /\ x \in CoveredBy(f) <=> \E i \in DOMAIN f : x \in Covered(f[i])
    BY DEF CoveredBy
  <2>2. ASSUME NEW x, x \in CoveredBy(g)
        PROVE  x \in CoveredBy(f) \cup X
    <3>1. PICK i \in DOMAIN f : x \in Covered(g[i])
      BY <2>1, <2>2
    <3>2. CASE i = p
      BY <2>1, <3>1, <3>2
    <3>3. CASE i # p
      BY <2>1, <3>1, <3>3
    <3> QED BY <3>2, <3>3
  <2>3. X \subseteq CoveredBy(g)
    BY <2>1
  <2>4. ASSUME NEW x, x \in CoveredBy(f)
        PROVE  x \in CoveredBy(g)
    <3>1. PICK i \in DOMAIN f : x \in Covered(f[i])
      BY <2>1, <2>4
    <3>2. x \in Covered(g[i])
      <4>1. CASE i = p
        BY <3>1, <4>1
      <4>2. CASE i # p
        BY <3>1, <4>2
      <4> QED BY <4>1, <4>2
    <3> QED BY <2>1, <3>2
  <2> QED BY <2>2, <2>3, <2>4
<1>2. SquaresOf(g) = SquaresOf(f) + 1
  <2> DEFINE D == DOMAIN f
             R == D \ {p}
             F == [i \in DOMAIN f |-> f[i].length]
             G == [i \in DOMAIN g |-> g[i].length]
  <2>1. IsFiniteSet(D) /\ \A i \in D : F[i] \in Int /\ G[i] \in Int
    BY RunLengths DEF Family
  <2>2. G[p] = F[p] + 1 /\ p \in D /\ \A i \in R : F[i] = G[i]
    OBVIOUS
  <2>3. SquaresOf(f) = SumOver(F, D) /\ SquaresOf(g) = SumOver(G, D)
    BY DEF SquaresOf
  <2>4. IsFiniteSet(R) /\ R = D \ {p} /\ \A i \in R : i \in D
    BY <2>1, FS_Subset
  <2> HIDE DEF D, F, G, R
  <2>5. SumOver(F, D) = F[p] + SumOver(F, R) /\ SumOver(G, D) = G[p] + SumOver(G, R)
    BY <2>1, <2>2, <2>4, SumPeels
  <2>6. SumOver(F, R) = SumOver(G, R) /\ SumOver(F, R) \in Int
    BY <2>1, <2>2, <2>4, SumSame, SumInt
  <2> QED BY <2>1, <2>2, <2>3, <2>5, <2>6
<1> QED BY <1>1, <1>2

LEMMA RunsAreAFamily ==
  ASSUME NEW runs \in Seq(ChartRun)
  PROVE  Family(runs)
<1>1. DOMAIN runs = 1 .. Len(runs) /\ Len(runs) \in Nat /\ \A i \in 1 .. Len(runs) : runs[i] \in ChartRun
  BY LenProperties
<1> QED BY <1>1, SoManyAreCounted DEF Family

\* What a square makes of the runs: it is covered too, and no other is.
LEMMA ASquareCharted ==
  ASSUME NEW runs \in Seq(ChartRun), NEW s \in ChartSquare
  PROVE  /\ chartRun(runs, s) \in Seq(ChartRun)
         /\ CoveredBy(chartRun(runs, s)) = CoveredBy(runs) \cup {s}
         /\ SquaresOf(chartRun(runs, s)) = SquaresOf(runs) + 1
<1> DEFINE next == Run(s)
           n == Len(runs)
           u == chartRun(runs, s)
<1>1. next \in ChartRun /\ next.length = 1 /\ Covered(next) = {s} /\ next.row * ChartCols + next.col = s
  BY ASquareAlone
<1>2. n \in Nat /\ DOMAIN runs = 1 .. n /\ (\A i \in 1 .. n : runs[i] \in ChartRun) /\ Family(runs)
      /\ (runs # <<>> => n >= 1) /\ Last(runs) = runs[n]
  BY LenProperties, EmptySeq, RunsAreAFamily DEF Last
<1>3. CASE runs # <<>> /\ Joins(Last(runs), next)
  <2> DEFINE old == runs[n]
             long == [old EXCEPT !.length = @ + 1]
  <2>1. n >= 1 /\ n \in 1 .. n /\ old \in ChartRun /\ Joins(old, next)
    BY <1>2, <1>3
  <2>2. u = [runs EXCEPT ![n].length = @ + 1]
    BY <1>3 DEF chartRun
  <2> HIDE DEF u, next, n
  <2>3. u = [runs EXCEPT ![n] = long]
    BY <2>2
  <2>4. long \in ChartRun /\ long.length = old.length + 1 /\ long.row = old.row /\ long.col = old.col
        /\ old.length \in Nat \ {0} /\ old.row \in Int /\ old.col \in Int
    <3>1. old \in [col : 0 .. ChartCols - 1, row : 0 .. ChartRows - 1, length : Nat \ {0}]
      BY <2>1 DEF ChartRun
    <3> HIDE DEF old
    <3>2. old.length + 1 \in Nat \ {0}
      BY <3>1
    <3>3. long \in ChartRun
      BY <3>1, <3>2 DEF ChartRun
    <3> QED BY <3>1, <3>3, ScopeSizes
  <2> HIDE DEF long, old
  <2>5. /\ u \in Seq(ChartRun) /\ DOMAIN u = 1 .. n /\ u[n] = long
        /\ \A i \in 1 .. n \ {n} : u[i] = runs[i]
    <3>1. u \in Seq(ChartRun) /\ Len(u) = n
      BY <1>2, <2>1, <2>3, <2>4, ExceptSeq DEF n
    <3>2. DOMAIN u = 1 .. n
      BY <3>1, LenProperties
    <3>3. u[n] = long /\ \A i \in 1 .. n \ {n} : u[i] = runs[i]
      BY <1>2, <2>1, <2>3
    <3> QED BY <3>1, <3>2, <3>3
  <2>6. Covered(long) = Covered(old) \cup {s}
    <3> DEFINE b == old.row * ChartCols + old.col
               k == old.length
    <3>1. b \in Int /\ k \in Nat \ {0}
      BY <2>4, ScopeSizes
    <3>2. Covered(old) = {b + i : i \in 0 .. k - 1} /\ Covered(long) = {b + i : i \in 0 .. (k + 1) - 1}
      BY <2>4 DEF Covered
    <3>3. s = b + k
      <4>1. old.row = next.row /\ old.col + old.length = next.col
        BY <2>1 DEF Joins
      <4>2. old.row * ChartCols \in Int
        BY <2>4, ScopeSizes
      <4> QED BY <1>1, <2>4, <4>1, <4>2
    <3> HIDE DEF b, k
    <3>4. {b + i : i \in 0 .. (k + 1) - 1} = {b + i : i \in 0 .. k - 1} \cup {b + k}
      <4>1. 0 .. (k + 1) - 1 = (0 .. k - 1) \cup {k}
        BY <3>1
      <4> QED BY <4>1
    <3> QED BY <3>2, <3>3, <3>4
  <2>7. Family(u)
    BY <2>5, RunsAreAFamily
  <2>8. CoveredBy(u) = CoveredBy(runs) \cup {s} /\ SquaresOf(u) = SquaresOf(runs) + 1
    <3>1. Family(runs) /\ n \in DOMAIN runs /\ DOMAIN u = DOMAIN runs
      BY <1>2, <2>1, <2>5
    <3>2. \A i \in DOMAIN runs \ {n} : u[i] = runs[i]
      BY <2>5, <3>1
    <3>3. u[n] = long /\ runs[n] = old
      BY <1>2, <2>1, <2>5 DEF old
    <3>4. Covered(u[n]) = Covered(runs[n]) \cup {s} /\ u[n].length = runs[n].length + 1
      BY <2>4, <2>6, <3>3
    <3> QED BY <2>7, <3>1, <3>2, <3>4, ALongerRun
  <2> QED BY <2>5, <2>8 DEF u
<1>4. CASE ~(runs # <<>> /\ Joins(Last(runs), next))
  <2>1. u = Append(runs, next)
    BY <1>4 DEF chartRun
  <2> HIDE DEF u, next, n
  <2>2. /\ u \in Seq(ChartRun) /\ Len(u) = n + 1 /\ u[n + 1] = next
        /\ \A i \in 1 .. n : u[i] = runs[i]
    BY <1>1, <1>2, <2>1, AppendProperties DEF n
  <2>3. DOMAIN u = 1 .. n \cup {n + 1} /\ n + 1 \notin 1 .. n
    <3>1. DOMAIN u = 1 .. n + 1
      BY <2>2, LenProperties
    <3> QED BY <1>2, <3>1
  <2>4. Family(u)
    BY <2>2, RunsAreAFamily
  <2>5. CoveredBy(u) = CoveredBy(runs) \cup Covered(u[n + 1]) /\ SquaresOf(u) = SquaresOf(runs) + u[n + 1].length
    <3> DEFINE k == n + 1
    <3> HIDE DEF k
    <3>1. DOMAIN u = DOMAIN runs \cup {k} /\ k \notin DOMAIN runs /\ \A i \in DOMAIN runs : u[i] = runs[i]
      BY <1>2, <2>2, <2>3 DEF k
    <3>2. CoveredBy(u) = CoveredBy(runs) \cup Covered(u[k]) /\ SquaresOf(u) = SquaresOf(runs) + u[k].length
      BY <1>2, <2>4, <3>1, OneMoreRun
    <3> QED BY <3>2 DEF k
  <2> QED BY <1>1, <2>2, <2>5 DEF u
<1> QED BY <1>3, <1>4

\* What a frame's squares make of them.
LEMMA SquaresCharted ==
  ASSUME NEW runs \in Seq(ChartRun), NEW squares \in Seq(ChartSquare)
  PROVE  /\ chartAll(runs, squares) \in Seq(ChartRun)
         /\ CoveredBy(chartAll(runs, squares)) = CoveredBy(runs) \cup ToSet(squares)
         /\ SquaresOf(chartAll(runs, squares)) = SquaresOf(runs) + Len(squares)
<1> DEFINE step == [p \in Seq(ChartRun) \X ChartSquare |-> chartRun(p[1], p[2])]
           Good == {s \in Seq(ChartSquare) :
                      /\ Folded(step, runs, s) \in Seq(ChartRun)
                      /\ CoveredBy(Folded(step, runs, s)) = CoveredBy(runs) \cup ToSet(s)
                      /\ SquaresOf(Folded(step, runs, s)) = SquaresOf(runs) + Len(s)}
<1>0. \A b \in Seq(ChartRun), x \in ChartSquare : step[<<b, x>>] = chartRun(b, x)
  OBVIOUS
<1> HIDE DEF step
<1>s. SquaresOf(runs) \in Int
  BY HowMany, RunsAreAFamily
<1>1. <<>> \in Good
  BY <1>s, FoldedOfNothing, InASequence, EmptySeq
<1>2. ASSUME NEW s \in Seq(ChartSquare), NEW x \in ChartSquare, s \in Good
      PROVE  Append(s, x) \in Good
  <2> DEFINE b == Folded(step, runs, s)
             c == Folded(step, runs, Append(s, x))
  <2>1. b \in Seq(ChartRun) /\ CoveredBy(b) = CoveredBy(runs) \cup ToSet(s)
        /\ SquaresOf(b) = SquaresOf(runs) + Len(s)
    BY <1>2
  <2>2. c = step[<<b, x>>]
    BY FoldedOfOneMore
  <2>3. Append(s, x) \in Seq(ChartSquare) /\ Len(Append(s, x)) = Len(s) + 1 /\ Len(s) \in Nat
        /\ ToSet(Append(s, x)) = ToSet(s) \cup {x}
    BY AppendProperties, LenProperties, InASequence
  <2> HIDE DEF b, c
  <2>4. c = chartRun(b, x)
    BY <1>0, <2>1, <2>2
  <2>5. c \in Seq(ChartRun) /\ CoveredBy(c) = CoveredBy(b) \cup {x} /\ SquaresOf(c) = SquaresOf(b) + 1
    BY <2>1, <2>4, ASquareCharted
  <2>6. CoveredBy(c) = CoveredBy(runs) \cup ToSet(Append(s, x))
    BY <2>1, <2>3, <2>5
  <2>7. SquaresOf(c) = SquaresOf(runs) + Len(Append(s, x))
    BY <1>s, <2>1, <2>3, <2>5
  <2> QED BY <2>3, <2>5, <2>6, <2>7 DEF c
<1> HIDE DEF Good
<1>3. squares \in Good
  BY <1>1, <1>2, OneLonger
<1> QED BY <1>3 DEF Good, chartAll, step

---------------------------------------------------------------------------
(* Chunks of runs that were drawn.                                         *)

\* Every chunk is filled, and every chunk but the last.
Filled(chunks) ==
  chunks \in Seq(Chunk) /\ \A i \in DOMAIN chunks : chunks[i].filled = Len(chunks[i].rects)
Sealed(chunks) ==
  chunks \in Seq(Chunk) /\ \A i \in 1 .. Len(chunks) - 1 : chunks[i].filled = Len(chunks[i].rects)

LEMMA ChunkParts ==
  ASSUME NEW c \in Chunk
  PROVE  c.rects \in Seq(ChartRun) /\ c.filled \in Nat /\ Len(c.rects) \in Nat
<1>1. c.rects \in Seq(ChartRun) /\ c.filled \in Nat
  BY DEF Chunk
<1> QED BY <1>1, LenProperties

\* The places that are drawn.
DrawnPlaces(chunks) == UNION {{i} \X (1 .. chunks[i].filled) : i \in DOMAIN chunks}

LEMMA WhatIsDrawn ==
  ASSUME NEW chunks
  PROVE  /\ DOMAIN DrawnRuns(chunks) = DrawnPlaces(chunks)
         /\ \A p : p \in DrawnPlaces(chunks) <=>
                     \E i \in DOMAIN chunks : \E j \in 1 .. chunks[i].filled : p = <<i, j>>
         /\ \A i \in DOMAIN chunks : \A j \in 1 .. chunks[i].filled :
              <<i, j>> \in DrawnPlaces(chunks) /\ DrawnRuns(chunks)[<<i, j>>] = chunks[i].rects[j]
<1>1. DOMAIN DrawnRuns(chunks) = DrawnPlaces(chunks)
  BY DEF DrawnRuns, DrawnPlaces
<1>2. ASSUME NEW p
      PROVE  p \in DrawnPlaces(chunks) <=>
               \E i \in DOMAIN chunks : \E j \in 1 .. chunks[i].filled : p = <<i, j>>
  <2>1. p \in DrawnPlaces(chunks) <=> \E i \in DOMAIN chunks : p \in {i} \X (1 .. chunks[i].filled)
    BY DEF DrawnPlaces
  <2>2. \A i : p \in {i} \X (1 .. chunks[i].filled) <=> \E j \in 1 .. chunks[i].filled : p = <<i, j>>
    OBVIOUS
  <2> QED BY <2>1, <2>2
<1>3. ASSUME NEW i \in DOMAIN chunks, NEW j \in 1 .. chunks[i].filled
      PROVE  <<i, j>> \in DrawnPlaces(chunks) /\ DrawnRuns(chunks)[<<i, j>>] = chunks[i].rects[j]
  <2>1. <<i, j>> \in DrawnPlaces(chunks)
    BY <1>2
  <2> QED BY <2>1 DEF DrawnRuns, DrawnPlaces
<1> QED BY <1>1, <1>2, <1>3

LEMMA DrawnIsAFamily ==
  ASSUME NEW chunks, Filled(chunks)
  PROVE  Family(DrawnRuns(chunks))
<1> DEFINE n == Len(chunks)
           place == [i \in 1 .. n |-> {i} \X (1 .. chunks[i].filled)]
           S == {place[i] : i \in 1 .. n}
<1>1. n \in Nat /\ DOMAIN chunks = 1 .. n /\ \A i \in 1 .. n : chunks[i] \in Chunk
  BY LenProperties DEF Filled
<1>2. IsFiniteSet(1 .. n)
  BY <1>1, SoManyAreCounted
<1>3. IsFiniteSet(S)
  <2>1. place \in Surjection(1 .. n, S)
    BY DEF Surjection
  <2> HIDE DEF place, S, n
  <2> QED BY <1>2, <2>1, FS_Surjection
<1>4. \A T \in S : IsFiniteSet(T)
  <2> SUFFICES ASSUME NEW i \in 1 .. n PROVE IsFiniteSet(place[i])
    OBVIOUS
  <2>1. chunks[i].filled \in Nat
    BY <1>1, ChunkParts
  <2>2. IsFiniteSet({i}) /\ IsFiniteSet(1 .. chunks[i].filled)
    BY <2>1, SoManyAreCounted, FS_Singleton
  <2>3. IsFiniteSet({i} \X (1 .. chunks[i].filled))
    BY <2>2, FS_Product
  <2> QED BY <2>3
<1>5. UNION S = DrawnPlaces(chunks)
  BY <1>1 DEF DrawnPlaces
<1>6. IsFiniteSet(DOMAIN DrawnRuns(chunks))
  <2> HIDE DEF S
  <2> QED BY <1>3, <1>4, <1>5, FS_UNION, WhatIsDrawn
<1>7. ASSUME NEW p \in DOMAIN DrawnRuns(chunks)
      PROVE  DrawnRuns(chunks)[p] \in ChartRun
  <2>1. PICK i \in DOMAIN chunks : \E j \in 1 .. chunks[i].filled : p = <<i, j>>
    BY <1>7, WhatIsDrawn
  <2>2. PICK j \in 1 .. chunks[i].filled : p = <<i, j>>
    BY <2>1
  <2>3. DrawnRuns(chunks)[p] = chunks[i].rects[j]
    BY <2>2, WhatIsDrawn
  <2>4. chunks[i].rects \in Seq(ChartRun) /\ chunks[i].filled = Len(chunks[i].rects)
    BY <1>1, ChunkParts DEF Filled
  <2>5. chunks[i].rects[j] \in ChartRun
    BY <2>4, ElementOfSeq
  <2> QED BY <2>3, <2>5
<1> QED BY <1>6, <1>7 DEF Family

\* A fill makes the last one like the others.
LEMMA AFill ==
  ASSUME NEW chunks, Sealed(chunks)
  PROVE  /\ Filled(commit(chunks))
         /\ Len(commit(chunks)) = Len(chunks)
         /\ \A i \in 1 .. Len(chunks) : commit(chunks)[i].rects = chunks[i].rects
         /\ Filled(chunks) => commit(chunks) = chunks
<1> DEFINE n == Len(chunks)
           u == commit(chunks)
<1>1. n \in Nat /\ DOMAIN chunks = 1 .. n /\ (\A i \in 1 .. n : chunks[i] \in Chunk) /\ chunks \in Seq(Chunk)
  BY LenProperties DEF Sealed
<1>2. CASE chunks = <<>>
  <2>1. u = chunks /\ n = 0
    BY <1>2 DEF commit
  <2> QED BY <1>1, <2>1 DEF Filled
<1>3. CASE chunks # <<>>
  <2> DEFINE old == chunks[n]
             new == [old EXCEPT !.filled = Len(old.rects)]
  <2>1. n \in 1 .. n /\ old \in Chunk
    BY <1>1, <1>3, EmptySeq
  <2>2. u = [chunks EXCEPT ![n] = new]
    BY <1>3 DEF commit, Last
  <2>3. old.rects \in Seq(ChartRun) /\ Len(old.rects) \in Nat
    BY <2>1, ChunkParts
  <2>4. new \in Chunk /\ new.rects = old.rects /\ new.filled = Len(old.rects)
    <3> HIDE DEF old
    <3> QED BY <2>1, <2>3 DEF Chunk
  <2>5. old.filled = Len(old.rects) => new = old
    <3> HIDE DEF old
    <3> QED BY <2>1 DEF Chunk
  <2> HIDE DEF new, u, n
  <2>6. u \in Seq(Chunk) /\ Len(u) = n
    BY <1>1, <2>1, <2>2, <2>4, ExceptSeq DEF n
  <2>7. u[n] = new /\ \A i \in 1 .. n \ {n} : u[i] = chunks[i]
    BY <1>1, <2>1, <2>2
  <2>8. \A i \in 1 .. n : u[i].rects = chunks[i].rects /\ u[i].filled = Len(u[i].rects)
    <3> SUFFICES ASSUME NEW i \in 1 .. n
                 PROVE  u[i].rects = chunks[i].rects /\ u[i].filled = Len(u[i].rects)
      OBVIOUS
    <3>1. CASE i = n
      BY <2>4, <2>7, <3>1
    <3>2. CASE i # n
      <4>1. i \in 1 .. n - 1 /\ u[i] = chunks[i]
        BY <1>1, <2>7, <3>2
      <4> QED BY <4>1 DEF Sealed, n
    <3> QED BY <3>1, <3>2
  <2>9. DOMAIN u = 1 .. n
    BY <2>6, LenProperties
  <2>10. Filled(u)
    BY <2>6, <2>8, <2>9 DEF Filled
  <2>11. ASSUME Filled(chunks) PROVE u = chunks
    <3>1. old.filled = Len(old.rects)
      BY <1>1, <2>1, <2>11 DEF Filled
    <3>2. new = old
      BY <2>5, <3>1
    <3>3. \A i \in 1 .. n : u[i] = chunks[i]
      BY <2>7, <3>2
    <3> QED BY <1>1, <2>6, <3>3, SeqEqual
  <2> QED BY <2>6, <2>8, <2>10, <2>11 DEF u, n
<1> QED BY <1>2, <1>3

\* What another run makes of them: once filled, they show that one too.
LEMMA ARunDrawn ==
  ASSUME NEW chunks, Sealed(chunks), NEW run \in ChartRun
  PROVE  LET u == addRun(chunks, run)
         IN /\ Sealed(u)
            /\ CoveredBy(DrawnRuns(commit(u))) = CoveredBy(DrawnRuns(commit(chunks))) \cup Covered(run)
            /\ SquaresOf(DrawnRuns(commit(u))) = SquaresOf(DrawnRuns(commit(chunks))) + run.length
<1> DEFINE n == Len(chunks)
           u == addRun(chunks, run)
           a == commit(chunks)
           b == commit(u)
<1>1. n \in Nat /\ DOMAIN chunks = 1 .. n /\ (\A i \in 1 .. n : chunks[i] \in Chunk) /\ chunks \in Seq(Chunk)
  BY LenProperties DEF Sealed
<1>2. Filled(a) /\ a \in Seq(Chunk) /\ Len(a) = n /\ DOMAIN a = 1 .. n
      /\ \A i \in 1 .. n : a[i].rects = chunks[i].rects /\ a[i].filled = Len(chunks[i].rects)
  <2>1. Filled(a) /\ a \in Seq(Chunk) /\ Len(a) = n /\ \A i \in 1 .. n : a[i].rects = chunks[i].rects
    BY AFill DEF Filled
  <2> HIDE DEF a, n
  <2>2. DOMAIN a = 1 .. n
    BY <2>1, LenProperties
  <2> QED BY <2>1, <2>2 DEF Filled
<1>3. ASSUME NEW k \in Nat, NEW m \in Nat, Sealed(u), Len(u) = k, k >= 1, k >= n,
             \A i \in 1 .. k - 1 : i <= n /\ u[i].rects = chunks[i].rects,
             Len(u[k].rects) = m + 1, u[k].rects[m + 1] = run,
             k > n => m = 0 /\ k = n + 1,
             k <= n => m = Len(chunks[k].rects) /\ \A j \in 1 .. m : u[k].rects[j] = chunks[k].rects[j]
      PROVE  /\ CoveredBy(DrawnRuns(b)) = CoveredBy(DrawnRuns(a)) \cup Covered(run)
             /\ SquaresOf(DrawnRuns(b)) = SquaresOf(DrawnRuns(a)) + run.length
  <2>1. Filled(b) /\ Len(b) = k /\ DOMAIN b = 1 .. k
        /\ \A i \in 1 .. k : b[i].rects = u[i].rects /\ b[i].filled = Len(u[i].rects)
    <3>1. Filled(b) /\ b \in Seq(Chunk) /\ Len(b) = k /\ \A i \in 1 .. k : b[i].rects = u[i].rects
      BY <1>3, AFill DEF Filled
    <3> HIDE DEF b, u
    <3>2. DOMAIN b = 1 .. k
      BY <3>1, LenProperties
    <3> QED BY <3>1, <3>2 DEF Filled
  <2> HIDE DEF a, b, u, n
  <2> DEFINE F == DrawnRuns(a)
             G == DrawnRuns(b)
             new == <<k, m + 1>>
  <2>2. Family(F) /\ Family(G)
    BY <1>2, <2>1, DrawnIsAFamily
  <2>3. DOMAIN F = DrawnPlaces(a) /\ DOMAIN G = DrawnPlaces(b)
    BY WhatIsDrawn
  <2>4. /\ \A p : p \in DrawnPlaces(a) <=> \E i \in 1 .. n : \E j \in 1 .. Len(chunks[i].rects) : p = <<i, j>>
        /\ \A i \in 1 .. n : \A j \in 1 .. Len(chunks[i].rects) : F[<<i, j>>] = chunks[i].rects[j]
    <3>1. \A p : p \in DrawnPlaces(a) <=> \E i \in 1 .. n : \E j \in 1 .. a[i].filled : p = <<i, j>>
      BY <1>2, WhatIsDrawn
    <3>2. \A i \in 1 .. n : \A j \in 1 .. a[i].filled : F[<<i, j>>] = a[i].rects[j]
      <4>1. \A i \in DOMAIN a : \A j \in 1 .. a[i].filled : F[<<i, j>>] = a[i].rects[j]
        BY WhatIsDrawn
      <4> QED BY <1>2, <4>1
    <3> HIDE DEF F
    <3>3. \A i \in 1 .. n : a[i].rects = chunks[i].rects /\ a[i].filled = Len(chunks[i].rects)
      BY <1>2
    <3>4. ASSUME NEW p
          PROVE  p \in DrawnPlaces(a) <=> \E i \in 1 .. n : \E j \in 1 .. Len(chunks[i].rects) : p = <<i, j>>
      BY <3>1, <3>3
    <3>5. ASSUME NEW i \in 1 .. n, NEW j \in 1 .. Len(chunks[i].rects)
          PROVE  F[<<i, j>>] = chunks[i].rects[j]
      BY <3>2, <3>3
    <3> QED BY <3>4, <3>5
  <2>5. /\ \A p : p \in DrawnPlaces(b) <=> \E i \in 1 .. k : \E j \in 1 .. Len(u[i].rects) : p = <<i, j>>
        /\ \A i \in 1 .. k : \A j \in 1 .. Len(u[i].rects) : G[<<i, j>>] = u[i].rects[j]
    <3>1. \A p : p \in DrawnPlaces(b) <=> \E i \in 1 .. k : \E j \in 1 .. b[i].filled : p = <<i, j>>
      BY <2>1, WhatIsDrawn
    <3>2. \A i \in 1 .. k : \A j \in 1 .. b[i].filled : G[<<i, j>>] = b[i].rects[j]
      <4>1. \A i \in DOMAIN b : \A j \in 1 .. b[i].filled : G[<<i, j>>] = b[i].rects[j]
        BY WhatIsDrawn
      <4> QED BY <2>1, <4>1
    <3> HIDE DEF G
    <3>3. \A i \in 1 .. k : b[i].rects = u[i].rects /\ b[i].filled = Len(u[i].rects)
      BY <2>1
    <3>4. ASSUME NEW p
          PROVE  p \in DrawnPlaces(b) <=> \E i \in 1 .. k : \E j \in 1 .. Len(u[i].rects) : p = <<i, j>>
      BY <3>1, <3>3
    <3>5. ASSUME NEW i \in 1 .. k, NEW j \in 1 .. Len(u[i].rects)
          PROVE  G[<<i, j>>] = u[i].rects[j]
      BY <3>2, <3>3
    <3> QED BY <3>4, <3>5
  <2> HIDE DEF F, G
  <2>6. \A i \in 1 .. n : Len(chunks[i].rects) \in Nat
    BY <1>1, ChunkParts
  <2>7. new \notin DrawnPlaces(a) /\ new \in DrawnPlaces(b) /\ G[new] = run
    <3>1. k \in 1 .. k /\ m + 1 \in 1 .. Len(u[k].rects)
      BY <1>3
    <3>2. new \in DrawnPlaces(b) /\ G[new] = run
      BY <1>3, <2>5, <3>1
    <3>3. new \notin DrawnPlaces(a)
      <4> SUFFICES ASSUME NEW i \in 1 .. n, NEW j \in 1 .. Len(chunks[i].rects), new = <<i, j>> PROVE FALSE
        BY <2>4
      <4>1. k = i /\ m + 1 = j
        OBVIOUS
      <4> QED BY <1>1, <1>3, <2>6, <4>1
    <3> QED BY <3>2, <3>3
  <2>8. ASSUME NEW p \in DrawnPlaces(a)
        PROVE  p \in DrawnPlaces(b) /\ G[p] = F[p]
    <3>0. PICK i \in 1 .. n : \E j \in 1 .. Len(chunks[i].rects) : p = <<i, j>>
      BY <2>4, <2>8
    <3>1. PICK j \in 1 .. Len(chunks[i].rects) : p = <<i, j>>
      BY <3>0
    <3>2. i \in 1 .. k /\ j \in 1 .. Len(u[i].rects) /\ u[i].rects[j] = chunks[i].rects[j]
      <4>1. CASE i < k
        <5>1. i \in 1 .. k - 1 /\ i \in 1 .. k
          BY <1>1, <1>3, <4>1
        <5> QED BY <1>3, <5>1
      <4>2. CASE i >= k
        <5>1. i = k /\ k <= n
          BY <1>1, <1>3, <4>2
        <5>2. m = Len(chunks[i].rects) /\ Len(u[i].rects) = m + 1 /\ u[i].rects[j] = chunks[i].rects[j]
          BY <1>3, <5>1
        <5> QED BY <1>3, <5>1, <5>2
      <4> QED BY <1>1, <1>3, <4>1, <4>2
    <3> QED BY <2>4, <2>5, <3>1, <3>2
  <2>9. ASSUME NEW p \in DrawnPlaces(b), p # new
        PROVE  p \in DrawnPlaces(a)
    <3>0. PICK i \in 1 .. k : \E j \in 1 .. Len(u[i].rects) : p = <<i, j>>
      BY <2>5, <2>9
    <3>1. PICK j \in 1 .. Len(u[i].rects) : p = <<i, j>>
      BY <3>0
    <3>2. CASE i < k
      <4>1. i \in 1 .. k - 1
        BY <1>3, <3>2
      <4>2. i <= n /\ u[i].rects = chunks[i].rects
        BY <1>3, <4>1
      <4>3. i \in 1 .. n
        BY <1>1, <4>1, <4>2
      <4> QED BY <2>4, <3>1, <4>2, <4>3
    <3>3. CASE i >= k
      <4>1. i = k
        BY <1>3, <3>3
      <4>2. j \in 1 .. m + 1 /\ j # m + 1
        <5>1. j \in 1 .. m + 1
          BY <1>3, <3>1, <4>1
        <5> QED BY <2>9, <3>1, <4>1, <5>1
      <4>3. j \in 1 .. m /\ m >= 1
        BY <1>3, <4>2
      <4>4. k <= n
        BY <1>1, <1>3, <4>3
      <4>5. i \in 1 .. n /\ j \in 1 .. Len(chunks[i].rects)
        BY <1>1, <1>3, <4>1, <4>3, <4>4
      <4> QED BY <2>4, <3>1, <4>5
    <3> QED BY <1>3, <3>2, <3>3
  <2> HIDE DEF new
  <2>10. DOMAIN G = DOMAIN F \cup {new} /\ new \notin DOMAIN F /\ \A p \in DOMAIN F : G[p] = F[p]
    BY <2>3, <2>7, <2>8, <2>9
  <2>11. CoveredBy(G) = CoveredBy(F) \cup Covered(G[new]) /\ SquaresOf(G) = SquaresOf(F) + G[new].length
    BY <2>2, <2>10, OneMoreRun
  <2> QED BY <2>7, <2>11 DEF F, G
<1>4. CASE chunks = <<>> \/ Len(Last(chunks).rects) >= RUNS_PER_CHUNK
  <2> DEFINE new == [rects |-> <<run>>, filled |-> 0]
  <2>1. u = Append(a, new)
    BY <1>4 DEF addRun
  <2>2. new \in Chunk /\ new.rects = <<run>>
    <3>1. <<run>> \in Seq(ChartRun)
      BY EmptySeq, AppendProperties
    <3> QED BY <3>1 DEF Chunk
  <2> HIDE DEF new, u, a, n
  <2>3. u \in Seq(Chunk) /\ Len(u) = n + 1 /\ u[n + 1] = new /\ \A i \in 1 .. n : u[i] = a[i]
    BY <1>2, <2>1, <2>2, AppendProperties
  <2>4. Sealed(u)
    <3>1. \A i \in 1 .. (n + 1) - 1 : i \in 1 .. n /\ u[i].filled = Len(u[i].rects)
      BY <1>1, <1>2, <2>3
    <3> QED BY <2>3, <3>1 DEF Sealed
  <2>5. /\ 0 \in Nat /\ n + 1 \in Nat /\ n + 1 >= 1 /\ n + 1 >= n /\ n + 1 > n
        /\ \A i \in 1 .. (n + 1) - 1 : i <= n /\ u[i].rects = chunks[i].rects
        /\ Len(u[n + 1].rects) = 0 + 1 /\ u[n + 1].rects[0 + 1] = run
    <3>1. \A i \in 1 .. (n + 1) - 1 : i \in 1 .. n /\ i <= n
      BY <1>1
    <3>2. \A i \in 1 .. (n + 1) - 1 : u[i].rects = chunks[i].rects
      <4>1. \A i \in 1 .. n : u[i] = a[i] /\ a[i].rects = chunks[i].rects
        BY <1>2, <2>3
      <4> QED BY <3>1, <4>1
    <3>3. u[n + 1].rects = <<run>> /\ 0 + 1 = 1
      BY <2>2, <2>3
    <3>4. Len(<<run>>) = 1 /\ <<run>>[1] = run
      OBVIOUS
    <3> QED BY <1>1, <3>1, <3>2, <3>3, <3>4
  <2>6. /\ CoveredBy(DrawnRuns(b)) = CoveredBy(DrawnRuns(a)) \cup Covered(run)
        /\ SquaresOf(DrawnRuns(b)) = SquaresOf(DrawnRuns(a)) + run.length
    <3> DEFINE k == n + 1
               m == 0
    <3>1. k = n + 1 /\ m = 0
      OBVIOUS
    <3> HIDE DEF k, m
    <3>2. /\ m \in Nat /\ k \in Nat /\ k >= 1 /\ k >= n /\ Len(u) = k
          /\ \A i \in 1 .. k - 1 : i <= n /\ u[i].rects = chunks[i].rects
          /\ Len(u[k].rects) = m + 1 /\ u[k].rects[m + 1] = run
          /\ k > n => m = 0 /\ k = n + 1
          /\ ~(k <= n)
      BY <1>1, <2>3, <2>5, <3>1
    <3> HIDE DEF b
    <3> QED BY <1>3, <2>4, <3>2
  <2> QED BY <2>4, <2>6 DEF u, a
<1>5. CASE ~(chunks = <<>> \/ Len(Last(chunks).rects) >= RUNS_PER_CHUNK)
  <2> DEFINE old == chunks[n]
             more == Append(old.rects, run)
             new == [old EXCEPT !.rects = more]
             m == Len(old.rects)
  <2>1. n \in 1 .. n /\ n >= 1 /\ old \in Chunk
    BY <1>1, <1>5, EmptySeq
  <2>2. u = [chunks EXCEPT ![n] = new]
    BY <1>5 DEF addRun
  <2>3. old.rects \in Seq(ChartRun) /\ m \in Nat
    BY <2>1, ChunkParts
  <2>4. more \in Seq(ChartRun) /\ Len(more) = m + 1 /\ more[m + 1] = run
        /\ \A j \in 1 .. m : more[j] = old.rects[j]
    <3> HIDE DEF old
    <3> QED BY <2>3, AppendProperties
  <2>5. new \in Chunk /\ new.rects = more
    <3> HIDE DEF old, more
    <3> QED BY <2>1, <2>4 DEF Chunk
  <2> HIDE DEF new, u, n, more
  <2>6. u \in Seq(Chunk) /\ Len(u) = n
    BY <1>1, <2>1, <2>2, <2>5, ExceptSeq DEF n
  <2>7. u[n] = new /\ \A i \in 1 .. n \ {n} : u[i] = chunks[i]
    BY <1>1, <2>1, <2>2
  <2>8. \A i \in 1 .. n - 1 : i \in 1 .. n \ {n} /\ u[i] = chunks[i]
    BY <1>1, <2>7
  <2>9. Sealed(u)
    <3>1. \A i \in 1 .. n - 1 : u[i].filled = Len(u[i].rects)
      BY <2>8 DEF Sealed, n
    <3> QED BY <2>6, <3>1 DEF Sealed
  <2>10. /\ \A i \in 1 .. n - 1 : i <= n /\ u[i].rects = chunks[i].rects
         /\ Len(u[n].rects) = m + 1 /\ u[n].rects[m + 1] = run
         /\ m = Len(chunks[n].rects) /\ \A j \in 1 .. m : u[n].rects[j] = chunks[n].rects[j]
    BY <1>1, <2>4, <2>5, <2>7, <2>8
  <2>11. /\ CoveredBy(DrawnRuns(b)) = CoveredBy(DrawnRuns(a)) \cup Covered(run)
         /\ SquaresOf(DrawnRuns(b)) = SquaresOf(DrawnRuns(a)) + run.length
    <3> HIDE DEF m, b, a
    <3> QED BY <1>1, <1>3, <2>1, <2>3, <2>6, <2>9, <2>10
  <2> QED BY <2>9, <2>11 DEF u
<1> QED BY <1>4, <1>5

\* What a turn of the ticker makes of them: they show the runs that were handed over too.
LEMMA RunsDrawn ==
  ASSUME NEW chunks, Filled(chunks), NEW runs \in Seq(ChartRun)
  PROVE  LET u == appendChart(chunks, runs)
         IN /\ Filled(u)
            /\ CoveredBy(DrawnRuns(u)) = CoveredBy(DrawnRuns(chunks)) \cup CoveredBy(runs)
            /\ SquaresOf(DrawnRuns(u)) = SquaresOf(DrawnRuns(chunks)) + SquaresOf(runs)
<1> DEFINE step == [p \in Seq(Chunk) \X ChartRun |-> addRun(p[1], p[2])]
           a == DrawnRuns(chunks)
           Good == {s \in Seq(ChartRun) :
                      LET f == Folded(step, chunks, s)
                      IN /\ Sealed(f)
                         /\ CoveredBy(DrawnRuns(commit(f))) = CoveredBy(a) \cup CoveredBy(s)
                         /\ SquaresOf(DrawnRuns(commit(f))) = SquaresOf(a) + SquaresOf(s)}
<1>0. \A b \in Seq(Chunk), x \in ChartRun : step[<<b, x>>] = addRun(b, x)
  OBVIOUS
<1> HIDE DEF step
<1>s. SquaresOf(a) \in Int /\ \A s \in Seq(ChartRun) : SquaresOf(s) \in Int
  BY HowMany, RunsAreAFamily, DrawnIsAFamily
<1>1. <<>> \in Good
  <2>1. Folded(step, chunks, <<>>) = chunks
    BY FoldedOfNothing
  <2>2. Sealed(chunks)
    <3>1. chunks \in Seq(Chunk) /\ DOMAIN chunks = 1 .. Len(chunks) /\ Len(chunks) \in Nat
      BY LenProperties DEF Filled
    <3>2. \A i \in 1 .. Len(chunks) - 1 : i \in DOMAIN chunks
      BY <3>1
    <3> QED BY <3>1, <3>2 DEF Filled, Sealed
  <2>3. commit(chunks) = chunks
    BY <2>2, AFill
  <2>4. CoveredBy(<<>>) = {} /\ SquaresOf(<<>>) = 0
    <3>1. DOMAIN <<>> = {}
      OBVIOUS
    <3>2. \A F : SumOver(F, {}) = 0
      BY SumUnfolds, FS_EmptySet
    <3> QED BY <3>1, <3>2 DEF CoveredBy, SquaresOf
  <2> HIDE DEF a
  <2>5. CoveredBy(a) = CoveredBy(a) \cup CoveredBy(<<>>) /\ SquaresOf(a) = SquaresOf(a) + SquaresOf(<<>>)
    BY <1>s, <2>4
  <2> QED BY <2>1, <2>2, <2>3, <2>5, EmptySeq DEF a
<1> HIDE DEF a
<1>2. ASSUME NEW s \in Seq(ChartRun), NEW x \in ChartRun, s \in Good
      PROVE  Append(s, x) \in Good
  <2> DEFINE t == Append(s, x)
             b == Folded(step, chunks, s)
             c == Folded(step, chunks, t)
  <2>1. Sealed(b) /\ CoveredBy(DrawnRuns(commit(b))) = CoveredBy(a) \cup CoveredBy(s)
        /\ SquaresOf(DrawnRuns(commit(b))) = SquaresOf(a) + SquaresOf(s)
    BY <1>2
  <2>2. c = step[<<b, x>>]
    BY FoldedOfOneMore
  <2>3. t \in Seq(ChartRun) /\ Len(t) = Len(s) + 1 /\ Len(s) \in Nat /\ t[Len(s) + 1] = x
        /\ (\A i \in 1 .. Len(s) : t[i] = s[i]) /\ DOMAIN t = 1 .. Len(s) + 1 /\ DOMAIN s = 1 .. Len(s)
    BY AppendProperties, LenProperties
  <2> HIDE DEF t, b, c
  <2>4. CoveredBy(t) = CoveredBy(s) \cup Covered(x) /\ SquaresOf(t) = SquaresOf(s) + x.length
    <3> DEFINE k == Len(s) + 1
    <3>1. t[k] = x /\ DOMAIN t = DOMAIN s \cup {k} /\ k \notin DOMAIN s /\ \A i \in DOMAIN s : t[i] = s[i]
      BY <2>3
    <3>2. Family(s) /\ Family(t)
      BY <2>3, RunsAreAFamily
    <3> HIDE DEF k
    <3> QED BY <3>1, <3>2, OneMoreRun
  <2>5. c = addRun(b, x)
    BY <1>0, <2>1, <2>2 DEF Sealed
  <2>6. Sealed(c) /\ CoveredBy(DrawnRuns(commit(c))) = CoveredBy(DrawnRuns(commit(b))) \cup Covered(x)
        /\ SquaresOf(DrawnRuns(commit(c))) = SquaresOf(DrawnRuns(commit(b))) + x.length
    BY <2>1, <2>5, ARunDrawn
  <2>7. CoveredBy(DrawnRuns(commit(c))) = CoveredBy(a) \cup CoveredBy(t)
    BY <2>1, <2>4, <2>6
  <2>8. SquaresOf(DrawnRuns(commit(c))) = SquaresOf(a) + SquaresOf(t)
    <3>1. x.length \in Int /\ SquaresOf(s) \in Int
      BY <1>s, RunLengths
    <3> QED BY <1>s, <2>1, <2>4, <2>6, <3>1
  <2> QED BY <2>3, <2>6, <2>7, <2>8 DEF t, c
<1>3. Seq(ChartRun) \subseteq Good
  <2> HIDE DEF Good
  <2> QED BY <1>1, <1>2, OneLonger
<1>4. Filled(commit(Folded(step, chunks, runs)))
  BY <1>3, AFill
<1> QED BY <1>3, <1>4 DEF appendChart, step, a

---------------------------------------------------------------------------
(* Squares in ascending order.                                             *)

\* Of a finite set of numbers there are so many that are below all the others.
LEMMA TheLowest ==
  ASSUME NEW S \in SUBSET Int, IsFiniteSet(S), NEW k \in Nat, k <= Cardinality(S)
  PROVE  \E D \in SUBSET S : Cardinality(D) = k /\ \A d \in D, s \in S \ D : d < s
<1> DEFINE Low(n, D) == Cardinality(D) = n /\ \A d \in D, s \in S \ D : d < s
           Good == {n \in Nat : n <= Cardinality(S) => \E D \in SUBSET S : Low(n, D)}
<1>1. 0 \in Good
  <2>1. {} \in SUBSET S /\ Low(0, {})
    BY FS_EmptySet
  <2> QED BY <2>1
<1>2. ASSUME NEW n \in Nat, n \in Good
      PROVE  n + 1 \in Good
  <2> SUFFICES ASSUME n + 1 <= Cardinality(S)
               PROVE  \E D \in SUBSET S : Low(n + 1, D)
    OBVIOUS
  <2>0. Cardinality(S) \in Nat
    BY FS_CardinalityType
  <2>1. PICK D \in SUBSET S : Low(n, D)
    BY <1>2, <2>0
  <2>2. D # S
    BY <2>0, <2>1
  <2>3. IsFiniteSet(D) /\ IsFiniteSet(S \ D) /\ S \ D # {} /\ S \ D \in SUBSET Int
    BY <2>2, FS_Subset
  <2>4. PICK m \in S \ D : \A s \in S \ D : m <= s
    <3> DEFINE R == S \ D
    <3> HIDE DEF R
    <3>1. \E m \in R : \A s \in R : m <= s
      BY <2>3, LeastAndGreatest DEF R
    <3> QED BY <3>1 DEF R
  <2>5. Cardinality(D \cup {m}) = n + 1
    BY <2>1, <2>3, <2>4, FS_AddElement
  <2>6. ASSUME NEW d \in D \cup {m}, NEW s \in S \ (D \cup {m})
        PROVE  d < s
    <3>1. CASE d = m
      <4>1. m <= s /\ m # s /\ m \in Int /\ s \in Int
        BY <2>4, <2>6
      <4> QED BY <3>1, <4>1
    <3>2. CASE d # m
      BY <2>1, <3>2
    <3> QED BY <3>1, <3>2
  <2> QED BY <2>5, <2>6
<1> HIDE DEF Good
<1>3. k \in Good
  BY <1>1, <1>2, CountingUp
<1> QED BY <1>3 DEF Good

LEMMA InOrderOfPlace ==
  ASSUME NEW squares \in SUBSET ChartSquare
  PROVE  Ascending(squares) \in Seq(ChartSquare)
<1> DEFINE n == Cardinality(squares)
           below(s) == {t \in squares : t < s}
           Here(i, s) == Cardinality(below(s)) = i - 1
<1>1. squares \in SUBSET Int /\ IsFiniteSet(squares)
  <2>1. ChartCols * ChartRows - 1 \in Int
    BY ScopeSizes
  <2> DEFINE z == ChartCols * ChartRows - 1
  <2> HIDE DEF z
  <2>2. z \in Int
    BY <2>1 DEF z
  <2>3. IsFiniteSet(0 .. z)
    BY <2>2, FS_Interval
  <2>4. squares \in SUBSET (0 .. z)
    BY DEF ChartSquare, z
  <2>5. IsFiniteSet(squares)
    BY <2>3, <2>4, FS_Subset
  <2>6. squares \in SUBSET Int
    BY <2>2, <2>4
  <2> QED BY <2>5, <2>6
<1>2. n \in Nat
  BY <1>1, FS_CardinalityType
<1>3. ASSUME NEW i \in 1 .. n
      PROVE  \E s \in squares : Here(i, s)
  <2>1. i - 1 \in Nat /\ i - 1 <= n /\ i - 1 # n
    BY <1>2
  <2>2. PICK D \in SUBSET squares : Cardinality(D) = i - 1 /\ \A d \in D, s \in squares \ D : d < s
    <3> DEFINE k == i - 1
    <3>1. k \in Nat /\ k <= n
      BY <2>1
    <3> HIDE DEF k
    <3>2. \E D \in SUBSET squares : Cardinality(D) = k /\ \A d \in D, s \in squares \ D : d < s
      BY <1>1, <3>1, TheLowest
    <3> QED BY <3>2 DEF k
  <2>3. squares \ D # {}
    <3> SUFFICES ASSUME squares \ D = {} PROVE FALSE
      OBVIOUS
    <3>1. D = squares
      BY <2>2
    <3> QED BY <2>1, <2>2, <3>1
  <2>4. PICK m \in squares \ D : \A s \in squares \ D : m <= s
    <3> DEFINE R == squares \ D
    <3>1. R \in SUBSET Int /\ IsFiniteSet(R) /\ R # {}
      BY <1>1, <2>3, FS_Subset
    <3> HIDE DEF R
    <3>2. \E m \in R : \A s \in R : m <= s
      BY <3>1, LeastAndGreatest
    <3> QED BY <3>2 DEF R
  <2>5. below(m) = D
    <3>1. \A t \in squares : t \in D => t < m
      BY <2>2, <2>4
    <3>2. \A t \in squares : t \notin D => ~(t < m)
      <4> SUFFICES ASSUME NEW t \in squares, t \notin D, t < m PROVE FALSE
        OBVIOUS
      <4>1. m <= t /\ t \in Int /\ m \in Int
        BY <1>1, <2>4
      <4> QED BY <4>1
    <3> QED BY <3>1, <3>2
  <2> QED BY <2>2, <2>4, <2>5
<1>4. ASSUME NEW i \in 1 .. n
      PROVE  (CHOOSE s \in squares : Here(i, s)) \in ChartSquare
  BY <1>3, <1>4
<1> DEFINE u == [i \in 1 .. n |-> CHOOSE s \in squares : Here(i, s)]
<1>5. u \in [1 .. n -> ChartSquare]
  <2> HIDE DEF n
  <2> QED BY <1>4
<1>6. u = Ascending(squares)
  BY DEF Ascending
<1> HIDE DEF u, n
<1>7. u \in Seq(ChartSquare)
  BY <1>2, <1>5, SeqDef
<1> QED BY <1>6, <1>7

---------------------------------------------------------------------------
(* Alarms.                                                                 *)

\* A launch that is never reported again: it was, for as many frames as it is, and is not now.
OutOfReports(l, R, L) == l \in DOMAIN R /\ R[l] = 0 /\ l \notin L

\* A tracker that goes wrong neither way, whatever may still be reported: it remembers those it has
\* raised and could be asked about again.
Knows(t, R, L) ==
  /\ t \in Tracker /\ t.seen \subseteq DOMAIN R /\ Cardinality(t.seen) <= SEEN_LIMIT
  /\ \A l \in Launch : /\ t.raised[l] \in {0, 1}
                       /\ l \in t.seen => t.raised[l] = 1
                       /\ t.raised[l] = 1 /\ l \notin t.seen => OutOfReports(l, R, L)

LEMMA FewLaunches ==
  ASSUME NEW S \in SUBSET Launch
  PROVE  IsFiniteSet(S) /\ Cardinality(S) \in Nat
BY ScopeAssumption, FS_Subset, FS_CardinalityType

LEMMA NewTrackerKnows ==
  ASSUME NEW R, NEW L
  PROVE  Knows(NewTracker, R, L)
<1>1. NewTracker \in Tracker /\ NewTracker.seen = {} /\ NewTracker.raised = Silence
  BY DEF NewTracker, Tracker, Silence
<1>2. Cardinality({}) <= SEEN_LIMIT
  BY FS_EmptySet, ScopeSizes
<1>3. \A l \in Launch : Silence[l] = 0
  BY DEF Silence
<1> QED BY <1>1, <1>2, <1>3 DEF Knows

LEMMA KnowsStill ==
  ASSUME NEW t, NEW R, NEW L, NEW Q, NEW M, Knows(t, R, L), DOMAIN R \subseteq DOMAIN Q,
         \A l \in DOMAIN R : OutOfReports(l, R, L) => OutOfReports(l, Q, M)
  PROVE  Knows(t, Q, M)
BY DEF Knows, OutOfReports

\* It forgets none that may be reported yet: nothing is, or all but those of the frame are over.
TrimsTheOver(t, R, L) == L = {} \/ \A l \in t.seen \ L : R[l] = 0

\* What a tracker makes of the launches that are reported (HostileAlerts.observe).
LEMMA KnowsMore ==
  ASSUME NEW t, NEW R, NEW L, Knows(t, R, L), L \subseteq DOMAIN R, L \subseteq Launch,
         Cardinality(L) <= SEEN_LIMIT,
         TrimsTheOver(t, R, L)
  PROVE  LET u == observeAlerts(t, L)
         IN /\ Knows(u, R, L)
            /\ \A l \in L : u.raised[l] = 1
            /\ (\A l \in t.seen : l \in L \/ R[l] = 0) => \A l \in u.seen : l \in L \/ R[l] = 0
<1> DEFINE u == observeAlerts(t, L)
           all == t.seen \cup L
<1>1. /\ t \in Tracker /\ t.seen \subseteq Launch /\ t.seen \subseteq DOMAIN R
      /\ Cardinality(t.seen) <= SEEN_LIMIT
      /\ \A l \in Launch : t.raised[l] \in {0, 1}
  BY DEF Knows, Tracker
<1>2. u.seen = Trimmed(all, L) /\ u.raised = [l \in Launch |-> t.raised[l] + IF l \in L \ t.seen THEN 1 ELSE 0]
  BY DEF observeAlerts
<1>3. all \in SUBSET Launch /\ IsFiniteSet(all) /\ Cardinality(all) \in Nat
  BY <1>1, FewLaunches
<1>4. u.seen \subseteq all /\ L \subseteq u.seen /\ Cardinality(u.seen) <= SEEN_LIMIT
  <2>1. CASE Cardinality(all) > SEEN_LIMIT
    <3>1. u.seen = all \cap L /\ all \cap L = L
      BY <1>2, <2>1 DEF Trimmed
    <3> QED BY <3>1
  <2>2. CASE ~(Cardinality(all) > SEEN_LIMIT)
    <3>1. u.seen = all
      BY <1>2, <2>2 DEF Trimmed
    <3> QED BY <1>3, <2>2, <3>1, ScopeSizes
  <2> QED BY <2>1, <2>2
<1>5. ASSUME NEW l \in t.seen, l \notin u.seen
      PROVE  OutOfReports(l, R, L)
  <2>1. Cardinality(all) > SEEN_LIMIT /\ l \notin L
    BY <1>2, <1>4, <1>5 DEF Trimmed
  <2>2. L # {}
    <3> SUFFICES ASSUME L = {} PROVE FALSE
      OBVIOUS
    <3>1. all = t.seen
      OBVIOUS
    <3> QED BY <1>1, <1>3, <2>1, <3>1, ScopeSizes
  <2> QED BY <1>1, <2>1, <2>2 DEF OutOfReports, TrimsTheOver
<1> HIDE DEF u
<1>6. ASSUME NEW l \in Launch
      PROVE  /\ u.raised[l] \in {0, 1}
             /\ l \in all => u.raised[l] = 1
             /\ l \notin all => u.raised[l] = t.raised[l]
  <2>1. u.raised[l] = t.raised[l] + IF l \in L \ t.seen THEN 1 ELSE 0
    BY <1>2
  <2>2. CASE l \in t.seen
    BY <1>1, <2>1, <2>2 DEF Knows
  <2>3. CASE l \notin t.seen /\ l \in L
    <3>1. t.raised[l] = 0
      BY <1>1, <2>3 DEF Knows, OutOfReports
    <3> QED BY <2>1, <2>3, <3>1
  <2>4. CASE l \notin all
    <3>1. u.raised[l] = t.raised[l] + 0 /\ t.raised[l] \in {0, 1}
      BY <1>1, <2>1, <2>4
    <3> QED BY <2>4, <3>1
  <2> QED BY <2>2, <2>3, <2>4
<1>7. u \in Tracker
  <2>1. u = [seen |-> u.seen, raised |-> u.raised]
    BY DEF u, observeAlerts
  <2>2. u.raised \in [Launch -> Nat]
    <3>1. u.raised = [l \in Launch |-> u.raised[l]]
      BY <1>2
    <3>2. \A l \in Launch : u.raised[l] \in Nat
      BY <1>6
    <3> QED BY <3>1, <3>2
  <2> QED BY <1>3, <1>4, <2>1, <2>2 DEF Tracker
<1>8. ASSUME NEW l \in Launch, u.raised[l] = 1, l \notin u.seen
      PROVE  OutOfReports(l, R, L)
  <2>1. CASE l \in t.seen
    BY <1>5, <1>8, <2>1
  <2>2. CASE l \notin t.seen
    <3>1. l \notin L
      BY <1>4, <1>8
    <3>2. t.raised[l] = 1
      BY <1>6, <1>8, <2>2, <3>1
    <3> QED BY <2>2, <3>2 DEF Knows
  <2> QED BY <2>1, <2>2
<1>9. u.seen \subseteq DOMAIN R
  BY <1>1, <1>4
<1>10. Knows(u, R, L)
  BY <1>3, <1>4, <1>6, <1>7, <1>8, <1>9 DEF Knows
<1>11. \A l \in L : u.raised[l] = 1
  BY <1>6
<1>12. ASSUME \A l \in t.seen : l \in L \/ R[l] = 0
       PROVE  \A l \in u.seen : l \in L \/ R[l] = 0
  BY <1>4, <1>12
<1> QED BY <1>10, <1>11, <1>12 DEF u

---------------------------------------------------------------------------
(* The surfaces.                                                           *)

ScopeShape == [app : Nat, sonarFor : Nat, chunks : Seq(Chunk), alerts : Tracker]
MapShape == [mounted : BOOLEAN, painted : Nat, layer : Seq(ChartSquare), alerts : Tracker]

\* The page and what is on it.
PageInv ==
  /\ outlook \in Outlooks
  /\ shownScreen \in {"home", "match"} /\ awaiting \in BOOLEAN
  /\ awaiting => shownScreen = "match"
  /\ picture \in 0 .. MaxPictures /\ shows \in Nat
  /\ boots \subseteq 1 .. shows /\ canvases \subseteq 1 .. shows
  /\ scopeHost \in ScopeShape /\ miniMap \in MapShape
  /\ canvases \subseteq {scopeHost.app}
  /\ shownScreen = "home" => scopeHost.app = 0 /\ ~miniMap.mounted
  /\ ~miniMap.mounted => miniMap = NoMap

\* What the surfaces know of the launches, and the scope no less than the last frames told it.
AlarmInv ==
  /\ DOMAIN reports \subseteq Launch /\ \A l \in DOMAIN reports : reports[l] \in Nat
  /\ launched \subseteq DOMAIN reports /\ Cardinality(launched) <= SEEN_LIMIT
  /\ Knows(scopeHost.alerts, reports, launched) /\ Knows(miniMap.alerts, reports, launched)
  /\ \A l \in scopeHost.alerts.seen : l \in launched \/ reports[l] = 0
  /\ miniMap.mounted => \A l \in launched : miniMap.alerts.raised[l] = 1

\* The chart as each of them has it.
ChartInv ==
  /\ charted \in Seq(ChartSquare) /\ pendingRuns \in Seq(ChartRun)
  /\ Filled(scopeHost.chunks)
  /\ ScopeHasTheChart
  /\ miniMap.mounted => miniMap.layer = charted /\ miniMap.painted = Len(charted)

ScopeInv == PageInv /\ AlarmInv /\ ChartInv

LEMMA NoSurfaces ==
  /\ NewTracker \in Tracker /\ NewTracker.seen = {}
  /\ NoScope \in ScopeShape /\ NoScope.app = 0 /\ NoScope.alerts = NewTracker /\ NoScope.chunks = <<>>
  /\ NoMap \in MapShape /\ NoMap.mounted = FALSE /\ NoMap.alerts = NewTracker
  /\ NoMap.layer = <<>> /\ NoMap.painted = 0
  /\ Filled(<<>>)
<1>1. NewTracker \in Tracker /\ NewTracker.seen = {}
  BY DEF NewTracker, Tracker, Silence
<1>2. <<>> \in Seq(Chunk) /\ <<>> \in Seq(ChartSquare) /\ DOMAIN <<>> = {}
  BY EmptySeq
<1>3. /\ NoScope \in ScopeShape /\ NoScope.app = 0 /\ NoScope.alerts = NewTracker /\ NoScope.chunks = <<>>
  BY <1>1, <1>2 DEF NoScope, ScopeShape
<1>4. /\ NoMap \in MapShape /\ NoMap.mounted = FALSE /\ NoMap.alerts = NewTracker
      /\ NoMap.layer = <<>> /\ NoMap.painted = 0
  BY <1>1, <1>2 DEF NoMap, MapShape
<1> QED BY <1>1, <1>2, <1>3, <1>4 DEF Filled

LEMMA ANewScope ==
  ASSUME NEW n \in Nat
  PROVE  /\ NewScope(n) \in ScopeShape /\ NewScope(n).app = n /\ NewScope(n).sonarFor = 0
         /\ NewScope(n).alerts = NewTracker /\ NewScope(n).chunks = <<>>
<1>1. NewScope(n) = [app |-> n, sonarFor |-> 0, chunks |-> <<>>, alerts |-> NewTracker]
  BY DEF NewScope, NoScope
<1>2. NewTracker \in Tracker /\ <<>> \in Seq(Chunk)
  BY NoSurfaces, EmptySeq
<1> QED BY <1>1, <1>2 DEF ScopeShape

\* What a paint makes of the mini-map.
LEMMA APaint ==
  ASSUME NEW held \in MapShape, NEW squares \in Seq(ChartSquare), NEW events,
         observeAlerts(held.alerts, events) \in Tracker, held.painted <= Len(squares)
  PROVE  LET u == painting(held, squares, events)
         IN /\ u \in MapShape /\ u.mounted = held.mounted /\ u.painted = Len(squares)
            /\ u.alerts = observeAlerts(held.alerts, events)
            /\ u.layer = held.layer \o SubSeq(squares, held.painted + 1, Len(squares))
<1> DEFINE more == SubSeq(squares, held.painted + 1, Len(squares))
           told == observeAlerts(held.alerts, events)
           u == painting(held, squares, events)
<1>1. held.layer \in Seq(ChartSquare) /\ held.painted \in Nat /\ held.mounted \in BOOLEAN
      /\ held = [mounted |-> held.mounted, painted |-> held.painted, layer |-> held.layer,
                 alerts |-> held.alerts]
  BY DEF MapShape
<1>2. Len(squares) \in Nat
  BY LenProperties
<1>3. more \in Seq(ChartSquare)
  <2>1. \A i \in held.painted + 1 .. Len(squares) : i \in 1 .. Len(squares)
    BY <1>1, <1>2
  <2> QED BY <1>1, <1>2, <2>1, SubSeqProperties
<1>4. held.layer \o more \in Seq(ChartSquare)
  BY <1>1, <1>3, ConcatProperties
<1>5. u = [mounted |-> held.mounted, painted |-> Len(squares), layer |-> held.layer \o more,
           alerts |-> told]
  <2> HIDE DEF told, more
  <2>1. u = [held EXCEPT !.layer = @ \o more, !.painted = Len(squares), !.alerts = told]
    BY DEF painting, told, more
  <2> QED BY <1>1, <2>1
<1> HIDE DEF u, told, more
<1>6. u \in MapShape
  BY <1>1, <1>2, <1>4, <1>5 DEF MapShape, told
<1>7. u.mounted = held.mounted /\ u.painted = Len(squares) /\ u.alerts = told
      /\ u.layer = held.layer \o more
  BY <1>5
<1> QED BY <1>6, <1>7 DEF u, told, more

\* Painted further from where it was, a layer has it all.
LEMMA PaintedOn ==
  ASSUME NEW s \in Seq(ChartSquare), NEW t \in Seq(ChartSquare)
  PROVE  /\ Len(s) <= Len(s \o t) /\ s \o t \in Seq(ChartSquare)
         /\ s \o SubSeq(s \o t, Len(s) + 1, Len(s \o t)) = s \o t
<1>1. s \o t \in Seq(ChartSquare) /\ Len(s \o t) = Len(s) + Len(t) /\ Len(s) \in Nat /\ Len(t) \in Nat
      /\ \A i \in 1 .. Len(s) + Len(t) : (s \o t)[i] = IF i <= Len(s) THEN s[i] ELSE t[i - Len(s)]
  BY ConcatProperties, LenProperties
<1> DEFINE u == s \o t
           more == SubSeq(u, Len(s) + 1, Len(u))
<1>2. more \in Seq(ChartSquare) /\ Len(more) = Len(t)
      /\ \A i \in 1 .. Len(t) : more[i] = u[Len(s) + i]
  <2> DEFINE m == Len(s) + 1
             n == Len(u)
  <2>1. m \in 1 .. n + 1 /\ n \in m - 1 .. n /\ n - m + 1 = Len(t) /\ n \in Nat /\ u \in Seq(ChartSquare)
        /\ \A i \in 1 .. Len(t) : m + i - 1 = Len(s) + i
    BY <1>1
  <2>2. \A i \in m .. n : i \in 1 .. n
    BY <1>1
  <2> HIDE DEF m, n, u
  <2>3. SubSeq(u, m, n) \in Seq(ChartSquare) /\ Len(SubSeq(u, m, n)) = n - m + 1
        /\ \A i \in 1 .. n - m + 1 : SubSeq(u, m, n)[i] = u[m + i - 1]
    BY <2>1, <2>2, SubSeqProperties DEF n
  <2>4. more = SubSeq(u, m, n)
    BY DEF m, n
  <2> QED BY <2>1, <2>3, <2>4
<1>3. \A i \in 1 .. Len(t) : more[i] = t[i]
  <2> SUFFICES ASSUME NEW i \in 1 .. Len(t) PROVE more[i] = t[i]
    OBVIOUS
  <2>1. Len(s) + i \in 1 .. Len(s) + Len(t) /\ ~(Len(s) + i <= Len(s)) /\ (Len(s) + i) - Len(s) = i
    BY <1>1
  <2> QED BY <1>1, <1>2, <2>1
<1>4. more = t
  <2> HIDE DEF more
  <2> QED BY <1>2, <1>3, SeqEqual
<1> QED BY <1>1, <1>4

\* From nothing, it has it all too.
LEMMA PaintedAfresh ==
  ASSUME NEW t \in Seq(ChartSquare)
  PROVE  <<>> \o SubSeq(t, 0 + 1, Len(t)) = t
<1>1. <<>> \in Seq(ChartSquare) /\ <<>> \o t = t /\ Len(<<>>) = 0
  BY EmptySeq, ConcatEmptySeq
<1> QED BY <1>1, PaintedOn

---------------------------------------------------------------------------
(* Steps.                                                                  *)

LEMMA ScopeBegins == InitScope => ScopeInv
<1> SUFFICES ASSUME InitScope PROVE ScopeInv
  OBVIOUS
<1>1. PageInv
  <2>1. 0 \in 0 .. MaxPictures
    BY ScopeSizes
  <2> QED BY <2>1, NoSurfaces DEF InitScope, PageInv
<1>2. AlarmInv
  <2>1. reports = <<>> /\ DOMAIN reports = {} /\ launched = {} /\ scopeHost = NoScope /\ miniMap = NoMap
    BY DEF InitScope
  <2>2. Cardinality(launched) <= SEEN_LIMIT
    BY <2>1, FS_EmptySet, ScopeSizes
  <2> QED BY <2>1, <2>2, NoSurfaces, NewTrackerKnows DEF AlarmInv
<1>3. ChartInv
  BY NoSurfaces, EmptySeq DEF InitScope, ChartInv, ScopeHasTheChart
<1> QED BY <1>1, <1>2, <1>3 DEF ScopeInv

\* The parts of the invariant that the part of a step leaves alone.
LEMMA SurfacesTyped ==
  ASSUME ScopeInv
  PROVE  /\ scopeHost \in ScopeShape /\ miniMap \in MapShape /\ shows \in Nat /\ picture \in Nat
         /\ scopeHost.alerts \in Tracker /\ miniMap.alerts \in Tracker
         /\ launched \subseteq Launch
         /\ charted \in Seq(ChartSquare) /\ Len(charted) \in Nat
<1>1. scopeHost \in ScopeShape /\ miniMap \in MapShape /\ shows \in Nat /\ picture \in Nat
      /\ launched \subseteq Launch /\ charted \in Seq(ChartSquare) /\ Len(charted) \in Nat
  BY ScopeSizes, LenProperties DEF ScopeInv, PageInv, AlarmInv, ChartInv
<1> QED BY <1>1 DEF ScopeShape, MapShape

\* A scope is set up.
LEMMA SetUpPage ==
  ASSUME ScopeInv, setUp
  PROVE  /\ shows' \in Nat /\ shows' = shows + 1 /\ shows' # 0 /\ boots' \subseteq 1 .. shows'
         /\ canvases' = {} /\ scopeHost' = NewScope(shows')
         /\ scopeHost' \in ScopeShape /\ scopeHost'.app = shows' /\ scopeHost'.sonarFor = 0
         /\ scopeHost'.alerts = NewTracker /\ scopeHost'.chunks = <<>>
<1>1. shows \in Nat /\ shows' = shows + 1 /\ scopeHost' = NewScope(shows')
  BY SurfacesTyped DEF setUp
<1>2. boots' \subseteq 1 .. shows'
  <2>1. boots' = boots \cup {shows'} /\ boots \subseteq 1 .. shows
    BY DEF setUp, ScopeInv, PageInv
  <2> QED BY <1>1, <2>1
<1>3. canvases' = {}
  BY DEF setUp, Torn, ScopeInv, PageInv
<1>4. shows' \in Nat /\ shows' # 0
  BY <1>1
<1>5. scopeHost' \in ScopeShape /\ scopeHost'.app = shows' /\ scopeHost'.sonarFor = 0
      /\ scopeHost'.alerts = NewTracker /\ scopeHost'.chunks = <<>>
  BY <1>1, <1>4, ANewScope
<1> QED BY <1>1, <1>2, <1>3, <1>4, <1>5

LEMMA TakeDownKeeps ==
  ASSUME ScopeInv, takeDown, shownScreen' = "home", awaiting' = FALSE, outlook' = outlook,
         picture' \in 0 .. MaxPictures, charted' \in Seq(ChartSquare), pendingRuns' \in Seq(ChartRun),
         launched' \in {launched, {}}, reports' = reports
  PROVE  ScopeInv'
<1>1. scopeHost' = NoScope /\ miniMap' = NoMap /\ shows' = shows /\ boots' = boots
      /\ canvases' = {}
  BY DEF takeDown, Torn, ScopeInv, PageInv
<1>2. PageInv'
  <2>1. outlook' \in Outlooks /\ shows' \in Nat /\ boots' \subseteq 1 .. shows'
    BY <1>1 DEF ScopeInv, PageInv
  <2> QED BY <1>1, <2>1, NoSurfaces DEF PageInv
<1>3. AlarmInv'
  <2>1. launched' \subseteq DOMAIN reports' /\ Cardinality(launched') <= SEEN_LIMIT
    <3>1. Cardinality({}) <= SEEN_LIMIT
      BY FS_EmptySet, ScopeSizes
    <3> QED BY <3>1 DEF ScopeInv, AlarmInv
  <2>2. DOMAIN reports' \subseteq Launch /\ \A l \in DOMAIN reports' : reports'[l] \in Nat
    BY DEF ScopeInv, AlarmInv
  <2>3. Knows(scopeHost'.alerts, reports', launched') /\ Knows(miniMap'.alerts, reports', launched')
        /\ scopeHost'.alerts.seen = {} /\ ~miniMap'.mounted
    BY <1>1, NoSurfaces, NewTrackerKnows
  <2> QED BY <2>1, <2>2, <2>3 DEF AlarmInv
<1>4. ChartInv'
  BY <1>1, NoSurfaces DEF ChartInv, ScopeHasTheChart
<1> QED BY <1>2, <1>3, <1>4 DEF ScopeInv

LEMMA PutOutKeepsScope ==
  ASSUME ScopeInv, putOut, outlook' = outlook
  PROVE  ScopeInv'
BY TakeDownKeeps DEF putOut, pictureVars, ScopeInv, PageInv, ChartInv

LEMMA ClearMatchKeepsScope ==
  ASSUME ScopeInv, clearMatch, outlook' = outlook
  PROVE  ScopeInv'
<1>1. 0 \in 0 .. MaxPictures /\ <<>> \in Seq(ChartSquare) /\ <<>> \in Seq(ChartRun)
  BY ScopeSizes, EmptySeq
<1> QED BY <1>1, TakeDownKeeps DEF clearMatch

LEMMA BootKeepsScope ==
  ASSUME ScopeInv, boot, outlook' = outlook
  PROVE  ScopeInv'
<1>1. PICK n \in boots : boots' = boots \ {n} /\ booted(n)
  BY DEF boot
<1>2. /\ shownScreen' = shownScreen /\ awaiting' = awaiting /\ reports' = reports
      /\ picture' = picture /\ charted' = charted /\ pendingRuns' = pendingRuns
      /\ launched' = launched /\ shows' = shows /\ scopeHost' = scopeHost /\ miniMap' = miniMap
  BY DEF boot, pictureVars
<1>3. canvases' \subseteq {scopeHost.app} /\ canvases' \subseteq 1 .. shows /\ boots' \subseteq 1 .. shows
  BY <1>1 DEF booted, ScopeInv, PageInv
<1>4. PageInv'
  BY <1>2, <1>3 DEF ScopeInv, PageInv
<1>5. AlarmInv'
  BY <1>2 DEF ScopeInv, AlarmInv
<1>6. ChartInv'
  BY <1>2 DEF ScopeInv, ChartInv, ScopeHasTheChart, LayersFor
<1> QED BY <1>4, <1>5, <1>6 DEF ScopeInv

\* What a frame, had or missed, makes of the reports.
LEMMA AFrameReports ==
  ASSUME ScopeInv, NEW fresh \in Heard
  PROVE  LET Q == Reporting(fresh)
             M == Reported(fresh)
         IN /\ DOMAIN Q = DOMAIN reports \cup fresh /\ DOMAIN Q \subseteq Launch
            /\ \A l \in DOMAIN Q : Q[l] \in Nat
            /\ M \subseteq DOMAIN Q /\ Cardinality(M) <= SEEN_LIMIT
            /\ \A l \in DOMAIN reports : reports[l] = 0 => Q[l] = 0 /\ l \notin M
            /\ \A l \in DOMAIN reports : l \notin M => reports[l] = 0
<1> DEFINE Q == Reporting(fresh)
           M == Reported(fresh)
           R == reports
<1>1. fresh \subseteq Launch \ DOMAIN R /\ Cardinality(M) <= SEEN_LIMIT
  <2>1. outlook.launches \subseteq Launch
    BY OutlooksAssumption DEF ScopeInv, PageInv
  <2> QED BY <2>1 DEF Heard
<1>2. DOMAIN R \subseteq Launch /\ \A l \in DOMAIN R : R[l] \in Nat
  BY DEF ScopeInv, AlarmInv
<1>3. DOMAIN Q = DOMAIN R \cup fresh
      /\ \A l \in DOMAIN R \cup fresh : Q[l] = IF l \in fresh THEN ALERT_FRAMES - 1
                                                ELSE IF R[l] = 0 THEN 0 ELSE R[l] - 1
  BY DEF Reporting
<1>4. M = fresh \cup {l \in DOMAIN R : R[l] > 0}
  BY DEF Reported
<1> HIDE DEF Q, M, R
<1>5. ASSUME NEW l \in DOMAIN Q PROVE Q[l] \in Nat
  <2>1. CASE l \in fresh
    BY <1>3, <2>1, ScopeSizes
  <2>2. CASE l \notin fresh
    <3>1. l \in DOMAIN R /\ R[l] \in Nat /\ Q[l] = IF R[l] = 0 THEN 0 ELSE R[l] - 1
      BY <1>2, <1>3, <1>5, <2>2
    <3> QED BY <3>1
  <2> QED BY <2>1, <2>2
<1>6. ASSUME NEW l \in DOMAIN R, R[l] = 0 PROVE Q[l] = 0 /\ l \notin M
  BY <1>1, <1>3, <1>4, <1>6
<1>7. ASSUME NEW l \in DOMAIN R, l \notin M PROVE R[l] = 0
  BY <1>2, <1>4, <1>7
<1>8. DOMAIN Q \subseteq Launch /\ M \subseteq DOMAIN Q
  BY <1>1, <1>2, <1>3, <1>4
<1> QED BY <1>1, <1>3, <1>5, <1>6, <1>7, <1>8 DEF Q, M, R

LEMMA MissedFrameKeepsScope ==
  ASSUME ScopeInv, missedFrame, outlook' = outlook
  PROVE  ScopeInv'
<1>1. PICK fresh \in Heard : reports' = Reporting(fresh)
  BY DEF missedFrame
<1>2. /\ shownScreen' = shownScreen /\ awaiting' = awaiting
      /\ picture' = picture /\ charted' = charted /\ pendingRuns' = pendingRuns
      /\ launched' = launched /\ shows' = shows /\ scopeHost' = scopeHost /\ miniMap' = miniMap
      /\ boots' = boots /\ canvases' = canvases
  BY DEF missedFrame, pictureVars, surfaceVars
<1>3. PageInv'
  BY <1>2 DEF ScopeInv, PageInv
<1>4. ChartInv'
  BY <1>2 DEF ScopeInv, ChartInv, ScopeHasTheChart, LayersFor
<1>5. AlarmInv'
  <2> DEFINE Q == reports'
  <2>1. /\ DOMAIN Q = DOMAIN reports \cup fresh /\ DOMAIN Q \subseteq Launch
        /\ \A l \in DOMAIN Q : Q[l] \in Nat
        /\ \A l \in DOMAIN reports : reports[l] = 0 => Q[l] = 0
    BY <1>1, AFrameReports
  <2> HIDE DEF Q
  <2>2. \A l \in DOMAIN reports : OutOfReports(l, reports, launched) => OutOfReports(l, Q, launched)
    BY <2>1 DEF OutOfReports
  <2>3. Knows(scopeHost.alerts, Q, launched) /\ Knows(miniMap.alerts, Q, launched)
    <3>1. Knows(scopeHost.alerts, reports, launched) /\ Knows(miniMap.alerts, reports, launched)
      BY DEF ScopeInv, AlarmInv
    <3>2. DOMAIN reports \subseteq DOMAIN Q
      BY <2>1
    <3> QED BY <2>2, <3>1, <3>2, KnowsStill
  <2>4. \A l \in scopeHost.alerts.seen : l \in launched \/ Q[l] = 0
    <3>1. scopeHost.alerts.seen \subseteq DOMAIN reports
          /\ \A l \in scopeHost.alerts.seen : l \in launched \/ reports[l] = 0
      BY DEF ScopeInv, AlarmInv, Knows
    <3> QED BY <2>1, <3>1
  <2>5. launched \subseteq DOMAIN Q /\ Cardinality(launched) <= SEEN_LIMIT
        /\ (miniMap.mounted => \A l \in launched : miniMap.alerts.raised[l] = 1)
    BY <2>1 DEF ScopeInv, AlarmInv
  <2> QED BY <1>2, <2>1, <2>3, <2>4, <2>5 DEF AlarmInv, Q
<1> QED BY <1>3, <1>4, <1>5 DEF ScopeInv

\* A mini-map that shows the chart of now, and knows what of it was reported.
LEMMA MapOpened ==
  ASSUME ScopeInv
  PROVE  LET u == painting([NoMap EXCEPT !.mounted = TRUE], charted, launched)
         IN /\ u \in MapShape /\ u.mounted = TRUE /\ u.layer = charted /\ u.painted = Len(charted)
            /\ Knows(u.alerts, reports, launched)
            /\ \A l \in launched : u.alerts.raised[l] = 1
<1> DEFINE held == [NoMap EXCEPT !.mounted = TRUE]
<1>1. held \in MapShape /\ held.mounted = TRUE /\ held.alerts = NewTracker /\ held.layer = <<>>
      /\ held.painted = 0
  BY NoSurfaces DEF NoMap, MapShape
<1> HIDE DEF held
<1>2. charted \in Seq(ChartSquare) /\ Len(charted) \in Nat /\ launched \subseteq Launch
      /\ launched \subseteq DOMAIN reports /\ Cardinality(launched) <= SEEN_LIMIT
  BY SurfacesTyped DEF ScopeInv, AlarmInv
<1>3. Knows(observeAlerts(held.alerts, launched), reports, launched)
      /\ \A l \in launched : observeAlerts(held.alerts, launched).raised[l] = 1
  <2>1. Knows(NewTracker, reports, launched) /\ \A l \in NewTracker.seen \ launched : reports[l] = 0
    BY NewTrackerKnows, NoSurfaces
  <2>2. Knows(observeAlerts(NewTracker, launched), reports, launched)
        /\ \A l \in launched : observeAlerts(NewTracker, launched).raised[l] = 1
    <3>1. TrimsTheOver(NewTracker, reports, launched)
      BY <2>1 DEF TrimsTheOver
    <3> QED BY <1>2, <2>1, <3>1, KnowsMore
  <2> QED BY <1>1, <2>2
<1>4. observeAlerts(held.alerts, launched) \in Tracker
  BY <1>3 DEF Knows
<1>5. held.painted <= Len(charted)
  BY <1>1, <1>2
<1>6. held.layer \o SubSeq(charted, held.painted + 1, Len(charted)) = charted
  BY <1>1, <1>2, PaintedAfresh
<1> DEFINE u == painting(held, charted, launched)
<1>7. /\ u \in MapShape /\ u.mounted = held.mounted /\ u.painted = Len(charted)
      /\ u.alerts = observeAlerts(held.alerts, launched)
      /\ u.layer = held.layer \o SubSeq(charted, held.painted + 1, Len(charted))
  BY <1>1, <1>2, <1>4, <1>5, APaint
<1> HIDE DEF u
<1>8. /\ u \in MapShape /\ u.mounted = TRUE /\ u.layer = charted /\ u.painted = Len(charted)
      /\ Knows(u.alerts, reports, launched)
      /\ \A l \in launched : u.alerts.raised[l] = 1
  BY <1>1, <1>3, <1>6, <1>7
<1> QED BY <1>8 DEF u, held

LEMMA StartedKeepsScope ==
  ASSUME ScopeInv, startedMatch, outlook' = outlook
  PROVE  ScopeInv'
<1>1. /\ shownScreen = "home" /\ shownScreen' = "match" /\ awaiting' = TRUE
      /\ picture' = picture /\ charted' = charted /\ pendingRuns' = pendingRuns
      /\ launched' = launched /\ reports' = reports
  BY DEF startedMatch, pictureVars
<1>2. CASE picture = 0
  <2>1. /\ shows' = shows /\ boots' = boots /\ canvases' = canvases /\ scopeHost' = scopeHost
        /\ miniMap' = miniMap
    BY <1>2 DEF startedMatch, surfaceVars
  <2>2. PageInv'
    BY <1>1, <2>1 DEF ScopeInv, PageInv
  <2>3. AlarmInv'
    BY <1>1, <2>1 DEF ScopeInv, AlarmInv
  <2>4. ChartInv'
    BY <1>1, <2>1 DEF ScopeInv, ChartInv, ScopeHasTheChart
  <2> QED BY <2>2, <2>3, <2>4 DEF ScopeInv
<1>3. CASE picture # 0
  <2>1. setUp /\ miniMap' = painting([NoMap EXCEPT !.mounted = TRUE], charted, launched)
    BY <1>3 DEF startedMatch
  <2>2. /\ shows' \in Nat /\ shows' = shows + 1 /\ shows' # 0 /\ boots' \subseteq 1 .. shows'
        /\ canvases' = {} /\ scopeHost' \in ScopeShape
        /\ scopeHost'.alerts = NewTracker /\ scopeHost'.chunks = <<>>
    BY <2>1, SetUpPage
  <2>3. /\ miniMap' \in MapShape /\ miniMap'.mounted = TRUE /\ miniMap'.layer = charted
        /\ miniMap'.painted = Len(charted)
        /\ Knows(miniMap'.alerts, reports, launched)
        /\ \A l \in launched : miniMap'.alerts.raised[l] = 1
    BY <2>1, MapOpened
  <2>4. PageInv'
    BY <1>1, <2>2, <2>3 DEF ScopeInv, PageInv
  <2>5. AlarmInv'
    <3>1. Knows(scopeHost'.alerts, reports, launched) /\ scopeHost'.alerts.seen = {}
      BY <2>2, NewTrackerKnows, NoSurfaces
    <3>2. DOMAIN reports \subseteq Launch /\ (\A l \in DOMAIN reports : reports[l] \in Nat)
          /\ launched \subseteq DOMAIN reports /\ Cardinality(launched) <= SEEN_LIMIT
      BY DEF ScopeInv, AlarmInv
    <3> QED BY <1>1, <2>3, <3>1, <3>2 DEF AlarmInv
  <2>6. ChartInv'
    <3>1. Filled(scopeHost'.chunks)
      BY <2>2, NoSurfaces
    <3> QED BY <1>1, <2>3, <3>1 DEF ScopeInv, ChartInv, ScopeHasTheChart
  <2> QED BY <2>4, <2>5, <2>6 DEF ScopeInv
<1> QED BY <1>2, <1>3

\* A layer of no chart, and nothing drawn.
LEMMA NothingCharted ==
  /\ CoveredBy(<<>>) = {} /\ SquaresOf(<<>>) = 0 /\ ToSet(<<>>) = {} /\ Len(<<>>) = 0
  /\ CoveredBy(DrawnRuns(<<>>)) = {} /\ SquaresOf(DrawnRuns(<<>>)) = 0
<1>1. DOMAIN <<>> = {} /\ Len(<<>>) = 0
  OBVIOUS
<1>2. DOMAIN DrawnRuns(<<>>) = {}
  BY <1>1, WhatIsDrawn
<1>3. \A f : DOMAIN f = {} => CoveredBy(f) = {} /\ SquaresOf(f) = 0
  <2>1. \A F : SumOver(F, {}) = 0
    BY SumUnfolds, FS_EmptySet
  <2> QED BY <2>1 DEF CoveredBy, SquaresOf
<1>4. ToSet(<<>>) = {}
  BY InASequence
<1> QED BY <1>1, <1>2, <1>3, <1>4

LEMMA SetupKeepsScope ==
  ASSUME ScopeInv, receivedSetup, outlook' = outlook
  PROVE  ScopeInv'
<1>1. /\ awaiting /\ awaiting' = FALSE /\ shownScreen' = shownScreen /\ reports' = reports
      /\ picture < MaxPictures /\ picture' = picture + 1
      /\ charted' = <<>> /\ pendingRuns' = <<>> /\ launched' = {} /\ setUp
  BY DEF receivedSetup
<1>2. /\ shows' \in Nat /\ shows' = shows + 1 /\ shows' # 0 /\ boots' \subseteq 1 .. shows'
      /\ canvases' = {} /\ scopeHost' \in ScopeShape /\ scopeHost'.sonarFor = 0
      /\ scopeHost'.alerts = NewTracker /\ scopeHost'.chunks = <<>>
  BY <1>1, SetUpPage
<1>3. picture \in 0 .. MaxPictures /\ picture' \in 0 .. MaxPictures /\ picture' # 0
      /\ shownScreen = "match" /\ outlook \in Outlooks
  BY <1>1, ScopeSizes DEF ScopeInv, PageInv
<1>4. Knows(miniMap.alerts, reports, {}) /\ Knows(observeAlerts(miniMap.alerts, {}), reports, {})
  <2>1. Knows(miniMap.alerts, reports, launched)
    BY DEF ScopeInv, AlarmInv
  <2>2. \A l \in DOMAIN reports : OutOfReports(l, reports, launched) => OutOfReports(l, reports, {})
    BY DEF OutOfReports
  <2>3. Knows(miniMap.alerts, reports, {})
    BY <2>1, <2>2, KnowsStill
  <2>4. Cardinality({}) <= SEEN_LIMIT /\ {} \subseteq Launch /\ {} \subseteq DOMAIN reports
    BY FS_EmptySet, ScopeSizes
  <2>5. TrimsTheOver(miniMap.alerts, reports, {})
    BY DEF TrimsTheOver
  <2> QED BY <2>3, <2>4, <2>5, KnowsMore
<1>5. /\ miniMap' \in MapShape /\ miniMap'.mounted = miniMap.mounted
      /\ Knows(miniMap'.alerts, reports, {})
      /\ miniMap'.mounted => miniMap'.layer = <<>> /\ miniMap'.painted = 0
      /\ ~miniMap'.mounted => miniMap' = NoMap
  <2>0. miniMap \in MapShape /\ miniMap.mounted \in BOOLEAN
    BY SurfacesTyped DEF MapShape
  <2>1. CASE ~miniMap.mounted
    <3>1. miniMap' = miniMap
      BY <2>1 DEF receivedSetup
    <3> QED BY <1>4, <2>0, <2>1, <3>1 DEF ScopeInv, PageInv
  <2>2. CASE miniMap.mounted
    <3> DEFINE held == NewLayer(miniMap)
    <3>1. miniMap' = painting(held, <<>>, {})
      BY <2>2 DEF receivedSetup
    <3>2. held \in MapShape /\ held.mounted = miniMap.mounted /\ held.layer = <<>> /\ held.painted = 0
          /\ held.alerts = miniMap.alerts
      <4>1. <<>> \in Seq(ChartSquare)
        BY EmptySeq
      <4> QED BY <2>0, <4>1 DEF NewLayer, MapShape
    <3> HIDE DEF held
    <3>3. observeAlerts(held.alerts, {}) \in Tracker
      BY <1>4, <3>2 DEF Knows
    <3>4. <<>> \in Seq(ChartSquare) /\ Len(<<>>) = 0 /\ held.painted <= Len(<<>>)
      BY <3>2, EmptySeq
    <3>5. /\ miniMap' \in MapShape /\ miniMap'.mounted = held.mounted /\ miniMap'.painted = Len(<<>>)
          /\ miniMap'.alerts = observeAlerts(held.alerts, {})
          /\ miniMap'.layer = held.layer \o SubSeq(<<>>, held.painted + 1, Len(<<>>))
      BY <3>1, <3>2, <3>3, <3>4, APaint
    <3>6. <<>> \o SubSeq(<<>>, 0 + 1, Len(<<>>)) = <<>>
      BY <3>4, PaintedAfresh
    <3>7. miniMap'.layer = <<>>
      BY <3>2, <3>5, <3>6
    <3> QED BY <1>4, <2>2, <3>2, <3>4, <3>5, <3>7
  <2> QED BY <2>0, <2>1, <2>2
<1>6. PageInv'
  BY <1>1, <1>2, <1>3, <1>5 DEF PageInv
<1>7. AlarmInv'
  <2>1. Knows(scopeHost'.alerts, reports, {}) /\ scopeHost'.alerts.seen = {}
    BY <1>2, NewTrackerKnows, NoSurfaces
  <2>2. DOMAIN reports \subseteq Launch /\ (\A l \in DOMAIN reports : reports[l] \in Nat)
        /\ Cardinality({}) <= SEEN_LIMIT
    BY FS_EmptySet, ScopeSizes DEF ScopeInv, AlarmInv
  <2> QED BY <1>1, <1>5, <2>1, <2>2 DEF AlarmInv
<1>8. ChartInv'
  <2>1. charted' \in Seq(ChartSquare) /\ pendingRuns' \in Seq(ChartRun) /\ Filled(scopeHost'.chunks)
    BY <1>1, <1>2, EmptySeq, NoSurfaces
  <2>2. ScopeHasTheChart'
    <3>1. (LayersFor(scopeHost))' = <<>>
      BY <1>2, <1>3 DEF LayersFor
    <3>2. /\ CoveredBy(DrawnRuns(<<>>)) \cup CoveredBy(<<>>) = ToSet(<<>>)
          /\ SquaresOf(DrawnRuns(<<>>)) + SquaresOf(<<>>) = Len(<<>>)
      BY NothingCharted
    <3> QED BY <1>1, <3>1, <3>2 DEF ScopeHasTheChart
  <2>3. miniMap'.mounted => miniMap'.layer = charted' /\ miniMap'.painted = Len(charted')
    BY <1>1, <1>5, NothingCharted
  <2> QED BY <2>1, <2>2, <2>3 DEF ChartInv
<1> QED BY <1>6, <1>7, <1>8 DEF ScopeInv

\* The mini-map as a frame leaves it, when it is on the screen.
LEMMA MapPaintedOn ==
  ASSUME ScopeInv, NEW fresh \in Heard, NEW squares \in Seq(ChartSquare)
  PROVE  LET Q == Reporting(fresh)
             M == Reported(fresh)
             u == painting([miniMap EXCEPT !.mounted = TRUE], charted \o squares, M)
         IN /\ u \in MapShape /\ u.mounted = TRUE /\ u.layer = charted \o squares
            /\ u.painted = Len(charted \o squares)
            /\ Knows(u.alerts, Q, M)
            /\ \A l \in M : u.alerts.raised[l] = 1
<1> DEFINE Q == Reporting(fresh)
           M == Reported(fresh)
           held == [miniMap EXCEPT !.mounted = TRUE]
           u == painting(held, charted \o squares, M)
           now2 == charted \o squares
<1>1. miniMap \in MapShape /\ charted \in Seq(ChartSquare) /\ Len(charted) \in Nat
  BY SurfacesTyped
<1>2. held \in MapShape /\ held.mounted = TRUE /\ held.alerts = miniMap.alerts
      /\ held.layer = miniMap.layer /\ held.painted = miniMap.painted
  BY <1>1 DEF MapShape
<1>3. now2 \in Seq(ChartSquare) /\ Len(charted) <= Len(now2) /\ Len(now2) \in Nat
      /\ charted \o SubSeq(now2, Len(charted) + 1, Len(now2)) = now2
  BY <1>1, PaintedOn, LenProperties
<1>4. <<>> \o SubSeq(now2, 0 + 1, Len(now2)) = now2
  BY <1>3, PaintedAfresh
<1>5. /\ DOMAIN Q = DOMAIN reports \cup fresh /\ DOMAIN Q \subseteq Launch
      /\ M \subseteq DOMAIN Q /\ Cardinality(M) <= SEEN_LIMIT
      /\ \A l \in DOMAIN reports : reports[l] = 0 => Q[l] = 0 /\ l \notin M
      /\ \A l \in DOMAIN reports : l \notin M => reports[l] = 0
  BY AFrameReports
<1>6. Knows(miniMap.alerts, reports, launched)
  BY DEF ScopeInv, AlarmInv
<1> HIDE DEF Q, M, held, now2
<1>7. Knows(miniMap.alerts, Q, M)
  <2>1. \A l \in DOMAIN reports : OutOfReports(l, reports, launched) => OutOfReports(l, Q, M)
    BY <1>5 DEF OutOfReports
  <2>2. DOMAIN reports \subseteq DOMAIN Q
    BY <1>5
  <2> QED BY <1>6, <2>1, <2>2, KnowsStill
<1>8. Knows(observeAlerts(held.alerts, M), Q, M)
      /\ \A l \in M : observeAlerts(held.alerts, M).raised[l] = 1
  <2>1. TrimsTheOver(miniMap.alerts, Q, M)
    <3>1. miniMap.alerts.seen \subseteq DOMAIN reports
      BY <1>6 DEF Knows
    <3>2. \A l \in miniMap.alerts.seen \ M : Q[l] = 0
      BY <1>5, <3>1
    <3> QED BY <3>2 DEF TrimsTheOver
  <2>2. M \subseteq Launch
    BY <1>5
  <2>3. Knows(observeAlerts(miniMap.alerts, M), Q, M)
        /\ \A l \in M : observeAlerts(miniMap.alerts, M).raised[l] = 1
    BY <1>5, <1>7, <2>1, <2>2, KnowsMore
  <2> QED BY <1>2, <2>3
<1>9. observeAlerts(held.alerts, M) \in Tracker
  BY <1>8 DEF Knows
<1>10. held.painted <= Len(now2) /\ held.layer \o SubSeq(now2, held.painted + 1, Len(now2)) = now2
  <2>1. CASE miniMap.mounted
    <3>1. miniMap.layer = charted /\ miniMap.painted = Len(charted)
      BY <2>1 DEF ScopeInv, ChartInv
    <3> QED BY <1>2, <1>3, <3>1
  <2>2. CASE ~miniMap.mounted
    <3>1. miniMap.layer = <<>> /\ miniMap.painted = 0
      BY <2>2, NoSurfaces DEF ScopeInv, PageInv
    <3> QED BY <1>2, <1>3, <1>4, <3>1
  <2> QED BY <2>1, <2>2
<1>11. /\ u \in MapShape /\ u.mounted = held.mounted /\ u.painted = Len(now2)
       /\ u.alerts = observeAlerts(held.alerts, M)
       /\ u.layer = held.layer \o SubSeq(now2, held.painted + 1, Len(now2))
  <2>1. u = painting(held, now2, M)
    BY DEF now2
  <2> HIDE DEF u
  <2> QED BY <1>2, <1>3, <1>9, <1>10, <2>1, APaint
<1> HIDE DEF u
<1>12. /\ u \in MapShape /\ u.mounted = TRUE /\ u.layer = now2 /\ u.painted = Len(now2)
       /\ Knows(u.alerts, Q, M) /\ \A l \in M : u.alerts.raised[l] = 1
  BY <1>2, <1>8, <1>10, <1>11
<1> QED BY <1>12 DEF u, Q, M, held, now2

LEMMA FrameKeepsScope ==
  ASSUME ScopeInv, receivedFrame, outlook' = outlook
  PROVE  ScopeInv'
<1>1. PICK set \in SUBSET (outlook.squares \ ToSet(charted)), fresh \in Heard :
        /\ charted' = charted \o Ascending(set)
        /\ pendingRuns' = chartAll(pendingRuns, Ascending(set))
        /\ launched' = Reported(fresh) /\ reports' = Reporting(fresh)
  BY DEF receivedFrame
<1>2. /\ shownScreen' = shownScreen /\ awaiting' = awaiting /\ picture' = picture
      /\ shows' = shows /\ scopeHost' = scopeHost /\ boots' = boots /\ canvases' = canvases
      /\ miniMap' = IF shownScreen = "match"
                    THEN painting([miniMap EXCEPT !.mounted = TRUE], charted', launched') ELSE miniMap
  BY DEF receivedFrame
<1> DEFINE squares == Ascending(set)
<1>3. squares \in Seq(ChartSquare)
  <2>1. outlook.squares \in SUBSET ChartSquare
    BY OutlooksAssumption DEF ScopeInv, PageInv
  <2>2. set \in SUBSET ChartSquare
    BY <2>1
  <2> QED BY <2>2, InOrderOfPlace
<1> HIDE DEF squares
<1>4. charted' = charted \o squares /\ pendingRuns' = chartAll(pendingRuns, squares)
  BY <1>1 DEF squares
<1>5. /\ DOMAIN reports' = DOMAIN reports \cup fresh /\ DOMAIN reports' \subseteq Launch
      /\ \A l \in DOMAIN reports' : reports'[l] \in Nat
      /\ launched' \subseteq DOMAIN reports' /\ Cardinality(launched') <= SEEN_LIMIT
      /\ \A l \in DOMAIN reports : reports[l] = 0 => reports'[l] = 0 /\ l \notin launched'
      /\ \A l \in DOMAIN reports : l \notin launched' => reports[l] = 0
  BY <1>1, AFrameReports
<1>6. Knows(scopeHost.alerts, reports', launched') /\ Knows(miniMap.alerts, reports', launched')
  <2> DEFINE Q == reports'
             M == launched'
  <2>1. Knows(scopeHost.alerts, reports, launched) /\ Knows(miniMap.alerts, reports, launched)
    BY DEF ScopeInv, AlarmInv
  <2>2. \A l \in DOMAIN reports : OutOfReports(l, reports, launched) => OutOfReports(l, Q, M)
    BY <1>5 DEF OutOfReports
  <2>3. DOMAIN reports \subseteq DOMAIN Q
    BY <1>5
  <2> HIDE DEF Q, M
  <2>4. Knows(scopeHost.alerts, Q, M) /\ Knows(miniMap.alerts, Q, M)
    BY <2>1, <2>2, <2>3, KnowsStill
  <2> QED BY <2>4 DEF Q, M
<1>7. /\ miniMap' \in MapShape /\ Knows(miniMap'.alerts, reports', launched')
      /\ miniMap'.mounted => /\ miniMap'.layer = charted' /\ miniMap'.painted = Len(charted')
                             /\ \A l \in launched' : miniMap'.alerts.raised[l] = 1
      /\ ~miniMap'.mounted => miniMap' = NoMap
      /\ shownScreen = "home" => ~miniMap'.mounted
  <2>1. CASE shownScreen = "match"
    <3>1. miniMap' = painting([miniMap EXCEPT !.mounted = TRUE], charted \o squares, Reported(fresh))
      BY <1>1, <1>2, <1>4, <2>1
    <3>2. /\ miniMap' \in MapShape /\ miniMap'.mounted = TRUE /\ miniMap'.layer = charted \o squares
          /\ miniMap'.painted = Len(charted \o squares)
          /\ Knows(miniMap'.alerts, Reporting(fresh), Reported(fresh))
          /\ \A l \in Reported(fresh) : miniMap'.alerts.raised[l] = 1
      BY <1>3, <3>1, MapPaintedOn
    <3> QED BY <1>1, <1>4, <2>1, <3>2
  <2>2. CASE shownScreen = "home"
    <3>1. miniMap' = miniMap /\ ~miniMap.mounted /\ miniMap \in MapShape /\ miniMap = NoMap
      BY <1>2, <2>2 DEF ScopeInv, PageInv
    <3> QED BY <1>6, <3>1
  <2> QED BY <2>1, <2>2 DEF ScopeInv, PageInv
<1>8. PageInv'
  BY <1>2, <1>7 DEF ScopeInv, PageInv
<1>9. AlarmInv'
  <2>1. \A l \in scopeHost.alerts.seen : l \in launched' \/ reports'[l] = 0
    <3>1. scopeHost.alerts.seen \subseteq DOMAIN reports
      BY DEF ScopeInv, AlarmInv, Knows
    <3> QED BY <1>5, <3>1
  <2> QED BY <1>2, <1>5, <1>6, <1>7, <2>1 DEF AlarmInv
<1>10. ChartInv'
  <2>0. charted \in Seq(ChartSquare) /\ pendingRuns \in Seq(ChartRun) /\ Filled(scopeHost.chunks)
    BY DEF ScopeInv, ChartInv
  <2>1. charted' \in Seq(ChartSquare) /\ Len(charted') = Len(charted) + Len(squares)
        /\ ToSet(charted') = ToSet(charted) \cup ToSet(squares)
    BY <1>3, <1>4, <2>0, ConcatProperties, InASequence
  <2>2. /\ pendingRuns' \in Seq(ChartRun)
        /\ CoveredBy(pendingRuns') = CoveredBy(pendingRuns) \cup ToSet(squares)
        /\ SquaresOf(pendingRuns') = SquaresOf(pendingRuns) + Len(squares)
    BY <1>3, <1>4, <2>0, SquaresCharted
  <2>3. ScopeHasTheChart'
    <3> SUFFICES ASSUME scopeHost.app # 0, ~awaiting
                 PROVE  LET onScreen == DrawnRuns(LayersFor(scopeHost))
                        IN /\ CoveredBy(onScreen) \cup CoveredBy(pendingRuns') = ToSet(charted')
                           /\ SquaresOf(onScreen) + SquaresOf(pendingRuns') = Len(charted')
      BY <1>2 DEF ScopeHasTheChart, LayersFor
    <3> DEFINE onScreen == DrawnRuns(LayersFor(scopeHost))
    <3>1. /\ CoveredBy(onScreen) \cup CoveredBy(pendingRuns) = ToSet(charted)
          /\ SquaresOf(onScreen) + SquaresOf(pendingRuns) = Len(charted)
      BY DEF ScopeInv, ChartInv, ScopeHasTheChart
    <3>2. SquaresOf(onScreen) \in Int
      <4>1. Filled(LayersFor(scopeHost))
        BY <2>0, NoSurfaces DEF LayersFor
      <4> QED BY <4>1, DrawnIsAFamily, HowMany
    <3>3. SquaresOf(pendingRuns) \in Int /\ Len(squares) \in Nat
      BY <1>3, <2>0, RunsAreAFamily, HowMany, LenProperties
    <3> HIDE DEF onScreen
    <3>4. CoveredBy(onScreen) \cup CoveredBy(pendingRuns') = ToSet(charted')
      BY <2>1, <2>2, <3>1
    <3>5. SquaresOf(onScreen) + SquaresOf(pendingRuns') = Len(charted')
      BY <2>1, <2>2, <3>1, <3>2, <3>3
    <3> QED BY <3>4, <3>5 DEF onScreen
  <2> QED BY <1>2, <1>7, <2>0, <2>1, <2>2, <2>3 DEF ChartInv
<1> QED BY <1>8, <1>9, <1>10 DEF ScopeInv

LEMMA TickKeepsScope ==
  ASSUME ScopeInv, tickScope, outlook' = outlook
  PROVE  ScopeInv'
<1> DEFINE told == observeAlerts(scopeHost.alerts, launched)
           before == LayersFor(scopeHost)
           after == appendChart(before, pendingRuns)
<1>1. /\ shownScreen' = shownScreen /\ awaiting' = awaiting /\ reports' = reports
      /\ picture' = picture /\ charted' = charted /\ launched' = launched /\ shows' = shows
      /\ boots' = boots /\ canvases' = canvases /\ miniMap' = miniMap /\ pendingRuns' = <<>>
      /\ scopeHost' = [scopeHost EXCEPT !.alerts = told, !.chunks = after, !.sonarFor = picture]
  BY DEF tickScope
<1>2. scopeHost \in ScopeShape /\ picture \in Nat /\ launched \subseteq Launch
  BY SurfacesTyped
<1>3. Filled(before) /\ pendingRuns \in Seq(ChartRun)
  BY NoSurfaces DEF LayersFor, ScopeInv, ChartInv
<1>4. /\ Filled(after)
      /\ CoveredBy(DrawnRuns(after)) = CoveredBy(DrawnRuns(before)) \cup CoveredBy(pendingRuns)
      /\ SquaresOf(DrawnRuns(after)) = SquaresOf(DrawnRuns(before)) + SquaresOf(pendingRuns)
  <2> HIDE DEF before
  <2> QED BY <1>3, RunsDrawn
<1>5. /\ Knows(told, reports, launched)
      /\ \A l \in told.seen : l \in launched \/ reports[l] = 0
  <2>1. /\ Knows(scopeHost.alerts, reports, launched)
        /\ \A l \in scopeHost.alerts.seen : l \in launched \/ reports[l] = 0
        /\ launched \subseteq DOMAIN reports /\ Cardinality(launched) <= SEEN_LIMIT
    BY DEF ScopeInv, AlarmInv
  <2>2. TrimsTheOver(scopeHost.alerts, reports, launched)
    BY <2>1 DEF TrimsTheOver
  <2> DEFINE t == scopeHost.alerts
  <2> HIDE DEF t
  <2>3. Knows(t, reports, launched) /\ TrimsTheOver(t, reports, launched)
    BY <2>1, <2>2 DEF t
  <2>4. /\ Knows(observeAlerts(t, launched), reports, launched)
        /\ (\A l \in t.seen : l \in launched \/ reports[l] = 0)
             => \A l \in observeAlerts(t, launched).seen : l \in launched \/ reports[l] = 0
    BY <1>2, <2>1, <2>3, KnowsMore
  <2> QED BY <2>1, <2>4 DEF t
<1>6. told \in Tracker /\ after \in Seq(Chunk)
  BY <1>4, <1>5 DEF Knows, Filled
<1> HIDE DEF told, before, after
<1>7. /\ scopeHost' \in ScopeShape /\ scopeHost'.app = scopeHost.app /\ scopeHost'.alerts = told
      /\ scopeHost'.chunks = after /\ scopeHost'.sonarFor = picture
  BY <1>1, <1>2, <1>6 DEF ScopeShape
<1>8. PageInv'
  BY <1>1, <1>7 DEF ScopeInv, PageInv
<1>9. AlarmInv'
  BY <1>1, <1>5, <1>7 DEF ScopeInv, AlarmInv
<1>10. ChartInv'
  <2>1. ScopeHasTheChart'
    <3> SUFFICES ASSUME scopeHost.app # 0, ~awaiting
                 PROVE  /\ CoveredBy(DrawnRuns(after)) \cup CoveredBy(<<>>) = ToSet(charted)
                        /\ SquaresOf(DrawnRuns(after)) + SquaresOf(<<>>) = Len(charted)
      <4>1. (LayersFor(scopeHost))' = after
        BY <1>1, <1>7 DEF LayersFor
      <4> QED BY <1>1, <1>7, <4>1 DEF ScopeHasTheChart
    <3>1. /\ CoveredBy(DrawnRuns(before)) \cup CoveredBy(pendingRuns) = ToSet(charted)
          /\ SquaresOf(DrawnRuns(before)) + SquaresOf(pendingRuns) = Len(charted)
      BY DEF ScopeInv, ChartInv, ScopeHasTheChart, before
    <3>2. Len(charted) \in Nat
      BY SurfacesTyped
    <3> QED BY <1>4, <3>1, <3>2, NothingCharted
  <2>2. <<>> \in Seq(ChartRun)
    BY EmptySeq
  <2> QED BY <1>1, <1>4, <1>7, <2>1, <2>2 DEF ScopeInv, ChartInv
<1> QED BY <1>8, <1>9, <1>10 DEF ScopeInv

LEMMA ScopeStep == ScopeInv /\ [NextScope]_scopeVars => ScopeInv'
<1> SUFFICES ASSUME ScopeInv, [NextScope]_scopeVars
             PROVE  ScopeInv'
  OBVIOUS
<1>1. CASE UNCHANGED scopeVars
  <2>1. /\ outlook' = outlook /\ shownScreen' = shownScreen /\ awaiting' = awaiting /\ reports' = reports
        /\ picture' = picture /\ charted' = charted /\ pendingRuns' = pendingRuns
        /\ launched' = launched /\ shows' = shows /\ boots' = boots /\ canvases' = canvases
        /\ scopeHost' = scopeHost /\ miniMap' = miniMap
    BY <1>1 DEF scopeVars, pictureVars, surfaceVars
  <2>2. PageInv'
    BY <2>1 DEF ScopeInv, PageInv
  <2>3. AlarmInv'
    BY <2>1 DEF ScopeInv, AlarmInv
  <2>4. ChartInv'
    BY <2>1 DEF ScopeInv, ChartInv, ScopeHasTheChart, LayersFor
  <2> QED BY <2>2, <2>3, <2>4 DEF ScopeInv
<1>2. CASE NextScope
  <2>1. outlook' = outlook
    BY <1>2 DEF NextScope
  <2> QED BY <1>2, <2>1, StartedKeepsScope, SetupKeepsScope, FrameKeepsScope, MissedFrameKeepsScope,
             PutOutKeepsScope, ClearMatchKeepsScope, BootKeepsScope, TickKeepsScope DEF NextScope
<1> QED BY <1>1, <1>2

LEMMA SurfacesSound == ScopeInv => SurfacesAgree
<1> SUFFICES ASSUME ScopeInv PROVE SurfacesAgree
  OBVIOUS
<1>1. ScopeHasTheChart /\ MapHasTheChart
  BY DEF ScopeInv, ChartInv, MapHasTheChart
<1>2. AlarmsOnce
  <2>1. \A l \in Launch : scopeHost.alerts.raised[l] \in {0, 1} /\ miniMap.alerts.raised[l] \in {0, 1}
    BY DEF ScopeInv, AlarmInv, Knows
  <2>2. \A l \in Launch : scopeHost.alerts.raised[l] <= 1 /\ miniMap.alerts.raised[l] <= 1
    BY <2>1
  <2> QED BY <2>2 DEF ScopeInv, AlarmInv, AlarmsOnce
<1>3. OneCanvas
  <2>1. canvases \subseteq {scopeHost.app} /\ canvases \subseteq 1 .. shows /\ shows \in Nat
        /\ (shownScreen = "home" => scopeHost.app = 0)
    BY DEF ScopeInv, PageInv
  <2>2. 0 \notin 1 .. shows
    BY <2>1
  <2> QED BY <2>1, <2>2 DEF OneCanvas
<1> QED BY <1>1, <1>2, <1>3 DEF SurfacesAgree

\* A page is one by itself.
LEMMA ScopeAlone == SpecServices => SpecScope
<1>1. InitServices => InitScope
  BY DEF InitServices
<1>2. [NextServices]_serviceVars => [NextScope]_scopeVars
  BY DEF NextServices, serviceVars, scopeVars
<1> QED BY <1>1, <1>2, PTL DEF SpecServices, SpecScope

LEMMA ScopeKeeps == SpecServices => []ScopeInv
BY ScopeAlone, ScopeBegins, ScopeStep, PTL DEF SpecScope

\* The scope has drawn, or will be handed, every charted square once, though squares are handed over
\* once and canvases come and go; the mini-map has them all on its layer; each raises the alarm for a
\* launch once, however many frames report it; and no canvas is up but the present scope's.
THEOREM SurfacesAlwaysAgree == SpecServices => []SurfacesAgree
BY ScopeKeeps, SurfacesSound, PTL

---------------------------------------------------------------------------
(* Well-formed parts.                                                      *)

\* What a hull can take, and that nothing leaves one adrift: a boat that holds is stopped.
Sturdy(s) ==
  /\ s.hp \in 0 .. Hitpoints
  /\ s.destroyed <=> s.hp = 0
  /\ ~s.destroyed /\ s.order = HOLDING => s.speed = 0

\* A boat afloat that is stopped, holds: what putting it back leaves of it.
LEMMA SteppedSturdy ==
  ASSUME NEW s, Shape(s), Sturdy(s)
  PROVE  Sturdy(stepBoat(s))
<1> DEFINE t == stepBoat(s)
<1>1. t.hp = s.hp /\ t.destroyed = s.destroyed
  BY StepKeepsShape
<1>2. ASSUME ~s.destroyed, t.order = HOLDING
      PROVE  t.speed = 0
  <2>1. CASE s.order = HOLDING
    BY <1>2, <2>1 DEF stepBoat, Sturdy
  <2>2. CASE s.order # HOLDING /\ s.facing # Side(Head(s.order) - s.x)
    <3>1. t = flipToward(s)
      BY <1>2, <2>2 DEF stepBoat
    <3>2. flipToward(s).order = s.order
      <4>1. flipToward(s) = [s EXCEPT !.speed = 0, !.facing = -@]
            \/ flipToward(s) = [s EXCEPT !.speed = approach(s.speed, 0), !.x = @ + s.facing * approach(s.speed, 0)]
        BY DEF flipToward
      <4> QED BY <4>1 DEF Shape
    <3> QED BY <1>2, <2>2, <3>1, <3>2
  <2>3. CASE s.order # HOLDING /\ s.facing = Side(Head(s.order) - s.x)
    <3> DEFINE to == Head(s.order)
               speed == approach(s.speed, NotchSpeed[s.throttle])
               on == [s EXCEPT !.speed = speed, !.x = @ + s.facing * speed]
               there == [s EXCEPT !.x = to, !.order = Tail(@), !.speed = IF Len(s.order) = 1 THEN 0 ELSE speed]
    <3>1. t = on \/ t = there
      BY <1>2, <2>3 DEF stepBoat, runToward
    <3>2. on.order = s.order
      BY DEF Shape
    <3>3. there.order = Tail(s.order) /\ there.speed = IF Len(s.order) = 1 THEN 0 ELSE speed
      BY DEF Shape
    <3> HIDE DEF t, on, there, speed
    <3>4. t = there
      BY <1>2, <2>3, <3>1, <3>2
    <3>5. s.order \in Seq(Line)
      BY ShapeOf
    <3>6. Tail(s.order) = <<>> => Len(s.order) = 1
      <4>1. Len(s.order) \in Nat /\ s.order # <<>>
        BY <2>3, <3>5 DEF HOLDING
      <4> DEFINE rest == Tail(s.order)
                 n == Len(s.order)
      <4>2. Len(rest) = n - 1
        BY <3>5, <4>1, HeadTailProperties
      <4> HIDE DEF rest
      <4>3. rest = <<>> => Len(rest) = 0
        OBVIOUS
      <4>4. rest = <<>> => n = 1
        BY <4>1, <4>2, <4>3
      <4> QED BY <4>4 DEF rest
    <3>7. there.order = <<>>
      BY <1>2, <3>4 DEF HOLDING
    <3>8. Len(s.order) = 1
      BY <3>3, <3>6, <3>7
    <3>9. there.speed = 0
      BY <3>3, <3>8
    <3> QED BY <3>4, <3>9
  <2> QED BY <2>1, <2>2, <2>3
<1> HIDE DEF t
<1> QED BY <1>1, <1>2 DEF Sturdy, t

LEMMA HurtSturdy ==
  ASSUME NEW s, Shape(s), NEW amount \in Nat, s.hp \in 0 .. Hitpoints, s.destroyed <=> s.hp = 0, s.speed = 0
  PROVE  Sturdy(hurtBy(s, amount))
<1>0. Hitpoints \in Nat
  BY HelmAssumption
<1>1. CASE amount = 0
  BY <1>1 DEF hurtBy, Sturdy
<1>2. CASE amount # 0
  <2> DEFINE hp == IF s.hp > amount THEN s.hp - amount ELSE 0
             t == [s EXCEPT !.hp = hp, !.destroyed = hp = 0]
  <2>1. hurtBy(s, amount) = t
    BY <1>2 DEF hurtBy
  <2>2. hp \in 0 .. Hitpoints
    BY <1>0
  <2> HIDE DEF hp
  <2>3. t.hp = hp /\ t.destroyed = (hp = 0) /\ t.speed = s.speed
    BY DEF Shape
  <2> HIDE DEF t
  <2> QED BY <2>1, <2>2, <2>3 DEF Sturdy
<1> QED BY <1>1, <1>2

\* What the contacts of a tick cost is a number.
LEMMA HarmIsANumber ==
  ASSUME NEW before, NEW after, Moving(before, after), NEW b \in Boat, NEW met \in SUBSET Boat
  PROVE  Harm(offRock(before, after), b, met) \in Nat
<1> DEFINE there == offRock(before, after)
           f == [c \in Boat |-> collisionDamage(closingSpeed(there[b], there[c]))]
<1>1. \A c \in Boat : there[c].speed \in Int /\ there[c].facing \in {-1, 1}
  BY OffRock, ShapeOf
<1> HIDE DEF there
<1>2. \A c \in Boat : f[c] \in Nat
  <2> TAKE c \in Boat
  <2>1. there[b].facing * there[b].speed \in Int /\ there[c].facing * there[c].speed \in Int
    BY <1>1
  <2>2. \A x, y \in Int : Gap(x, y) \in Nat
    BY DEF Gap
  <2>3. closingSpeed(there[b], there[c]) \in Nat
    BY <2>1, <2>2 DEF closingSpeed
  <2> QED BY <2>3 DEF collisionDamage
<1>3. IsFiniteSet(met)
  BY HelmAssumption, FS_Subset
<1>4. Harm(there, b, met) = SumOver(f, met)
  BY DEF Harm
<1> HIDE DEF f
<1>5. SumOver(f, met) \in Nat
  BY <1>2, <1>3, SumNat
<1> QED BY <1>4, <1>5 DEF there

LEMMA CollidedSturdy ==
  ASSUME NEW before, NEW after, Moving(before, after), NEW b \in Boat,
         Sturdy(before[b]), Sturdy(after[b])
  PROVE  Sturdy(resolveCollisions(before, after)[b])
<1> DEFINE there == offRock(before, after)
           met == Met(before, there)
           r == refuse(before[b], there[b])
           h == Harm(there, b, met[b])
<1>0. Shape(before[b]) /\ Shape(after[b])
  BY DEF Moving
<1>1. Shape(there[b]) /\ Sturdy(there[b])
  <2> DEFINE p == refuse(before[b], after[b])
  <2>1. Shape(p) /\ p.hp = after[b].hp /\ p.destroyed = after[b].destroyed /\ p.speed = 0
    BY <1>0, RefusedShape
  <2>2. there[b] = p \/ there[b] = after[b]
    BY DEF offRock
  <2> HIDE DEF p, there
  <2>3. Sturdy(p)
    BY <2>1 DEF Sturdy
  <2> QED BY <1>0, <2>1, <2>2, <2>3
<1>2. resolveCollisions(before, after)[b] = IF met[b] = {} THEN there[b] ELSE hurtBy(r, h)
  BY DEF resolveCollisions
<1>3. h \in Nat
  <2>1. met[b] \in SUBSET Boat
    BY DEF Met
  <2> HIDE DEF met
  <2> QED BY <2>1, HarmIsANumber
<1> HIDE DEF met, there, h
<1>4. Shape(r) /\ r.hp = there[b].hp /\ r.destroyed = there[b].destroyed /\ r.speed = 0
  BY <1>0, <1>1, RefusedShape
<1> HIDE DEF r
<1>5. Sturdy(hurtBy(r, h))
  BY <1>1, <1>3, <1>4, HurtSturdy DEF Sturdy
<1> QED BY <1>1, <1>2, <1>5

\* How boats are kept, and how far a behaviour goes.
HelmIsTyped ==
  /\ commands \in 0 .. MaxCommands /\ strikes \in 0 .. MaxStrikes
  /\ \A b \in Boat : Sturdy(boats[b])

LEMMA HelmBeginsTyped == ASSUME InitHelm PROVE HelmIsTyped
<1>1. Hitpoints \in Nat \ {0} /\ MaxCommands \in Nat /\ MaxStrikes \in Nat
  BY HelmAssumption
<1>2. ASSUME NEW b \in Boat PROVE Sturdy(boats[b])
  BY <1>1 DEF InitHelm, Sturdy
<1> QED BY <1>1, <1>2 DEF InitHelm, HelmIsTyped

LEMMA OneBoatElse ==
  ASSUME HelmInv, HelmIsTyped, NEW b \in Boat, NEW s, Sturdy(s), boats' = [boats EXCEPT ![b] = s], commanding(b)
  PROVE  HelmIsTyped'
<1>1. commands' \in 0 .. MaxCommands /\ strikes' = strikes
  BY HelmAssumption DEF commanding, HelmIsTyped
<1>2. ASSUME NEW c \in Boat PROVE Sturdy(boats[c])'
  <2>1. boats'[c] = IF c = b THEN s ELSE boats[c]
    BY DEF HelmInv
  <2>2. Sturdy(boats'[c])
    BY <2>1 DEF HelmIsTyped
  <2> QED BY <2>2 DEF Sturdy
<1> QED BY <1>1, <1>2 DEF HelmIsTyped

LEMMA TickStaysTyped ==
  ASSUME HelmInv, HelmIsTyped, NEW struck \in SUBSET Boat, Cardinality(struck) \in Nat, tick(struck)
  PROVE  HelmIsTyped'
<1> DEFINE after == [b \in Boat |-> stepBoat(boats[b])]
           moved == resolveCollisions(boats, after)
<1>1. Moving(boats, after)
  BY TickMoves
<1>2. /\ boats' = [b \in Boat |-> IF b \in struck THEN Struck(moved[b]) ELSE moved[b]]
      /\ commands' = commands /\ strikes' = strikes + Cardinality(struck) /\ strikes' <= MaxStrikes
  BY DEF tick
<1>3. \A b \in Boat : Sturdy(after[b]) /\ Sturdy(boats[b])
  BY SteppedSturdy DEF HelmInv, HelmIsTyped
<1>4. \A b \in Boat : Shape(moved[b])
  BY <1>1, TickOfABoat
<1> HIDE DEF after
<1>5. \A b \in Boat : Sturdy(moved[b])
  BY <1>1, <1>3, CollidedSturdy
<1> HIDE DEF moved
<1>6. ASSUME NEW b \in Boat PROVE Sturdy(boats[b])'
  <2>1. Struck(moved[b]).hp = 0 /\ Struck(moved[b]).destroyed
    BY <1>4 DEF Shape, Struck
  <2>2. Sturdy(Struck(moved[b]))
    BY <2>1, HelmAssumption DEF Sturdy
  <2>3. Sturdy(boats'[b])
    BY <1>2, <1>5, <2>2
  <2> QED BY <2>3 DEF Sturdy
<1>7. strikes' \in 0 .. MaxStrikes
  BY <1>2 DEF HelmIsTyped
<1> QED BY <1>2, <1>6, <1>7 DEF HelmIsTyped

LEMMA HelmStaysTyped ==
  ASSUME HelmInv, HelmIsTyped, [NextHelm]_helmVars
  PROVE  HelmIsTyped'
<1>0. \A b \in Boat : Shape(boats[b]) /\ Sturdy(boats[b])
  BY DEF HelmInv, HelmIsTyped
<1>1. ASSUME NEW b \in Boat, NEW to \in Places, NEW queue \in BOOLEAN, order(b, to, queue)
      PROVE  HelmIsTyped'
  <2> DEFINE route == IF queue THEN Append(boats[b].order, to) ELSE <<to>>
             s == [boats[b] EXCEPT !.order = route]
  <2>1. route # HOLDING
    <3>1. boats[b].order \in Seq(Line) /\ to \in Line
      BY <1>0, ShapeOf, HelmAssumption
    <3>2. Len(Append(boats[b].order, to)) = Len(boats[b].order) + 1 /\ Len(boats[b].order) \in Nat
      BY <3>1, AppendProperties, LenProperties
    <3>3. Append(boats[b].order, to) # <<>>
      BY <3>2
    <3> QED BY <3>3 DEF HOLDING
  <2> HIDE DEF route
  <2>2. s.hp = boats[b].hp /\ s.destroyed = boats[b].destroyed /\ s.order = route
    BY <1>0 DEF Shape
  <2>3. boats' = [boats EXCEPT ![b] = s] /\ commanding(b)
    BY <1>1 DEF order, route
  <2> HIDE DEF s
  <2>4. Sturdy(s)
    BY <1>0, <2>1, <2>2 DEF Sturdy
  <2> QED BY <2>3, <2>4, OneBoatElse
<1>2. ASSUME NEW b \in Boat, cancel(b) PROVE HelmIsTyped'
  <2> DEFINE s == [boats[b] EXCEPT !.order = HOLDING, !.speed = 0]
  <2>2. s.hp = boats[b].hp /\ s.destroyed = boats[b].destroyed /\ s.speed = 0
    BY <1>0 DEF Shape
  <2>3. boats' = [boats EXCEPT ![b] = s] /\ commanding(b)
    BY <1>2 DEF cancel
  <2> HIDE DEF s
  <2>4. Sturdy(s)
    BY <1>0, <2>2 DEF Sturdy
  <2> QED BY <2>3, <2>4, OneBoatElse
<1>3. ASSUME NEW b \in Boat, NEW notch \in DOMAIN NotchSpeed, setThrottle(b, notch) PROVE HelmIsTyped'
  <2> DEFINE s == [boats[b] EXCEPT !.throttle = notch]
  <2>2. s.hp = boats[b].hp /\ s.destroyed = boats[b].destroyed /\ s.speed = boats[b].speed
        /\ s.order = boats[b].order
    BY <1>0 DEF Shape
  <2>3. boats' = [boats EXCEPT ![b] = s] /\ commanding(b)
    BY <1>3 DEF setThrottle
  <2> HIDE DEF s
  <2>4. Sturdy(s)
    BY <1>0, <2>2 DEF Sturdy
  <2> QED BY <2>3, <2>4, OneBoatElse
<1>4. ASSUME tick({}) PROVE HelmIsTyped'
  BY <1>4, TickStaysTyped, FS_EmptySet
<1>5. ASSUME NEW b \in Boat, tick({b}) PROVE HelmIsTyped'
  BY <1>5, TickStaysTyped, FS_Singleton
<1>6. CASE UNCHANGED helmVars
  BY <1>6 DEF helmVars, HelmIsTyped, Sturdy
<1> QED BY <1>1, <1>2, <1>3, <1>4, <1>5, <1>6 DEF NextHelm

LEMMA HelmHasItsType == ASSUME HelmInv, HelmIsTyped PROVE HelmTypeOK
<1>1. ASSUME NEW b \in Boat
      PROVE  /\ boats[b] \in BoatState
             /\ Afloat(b) /\ boats[b].order = HOLDING => boats[b].speed = 0
             /\ boats[b].destroyed <=> boats[b].hp = 0
  <2>1. Shape(boats[b]) /\ Sturdy(boats[b])
    BY DEF HelmInv, HelmIsTyped
  <2>2. boats[b].speed \in Nat
    BY <2>1, ShapeOf, NotchesAreSpeeds
  <2>3. boats[b] \in BoatState
    BY <2>1, <2>2 DEF Shape, Sturdy, BoatState
  <2> QED BY <2>1, <2>3 DEF Sturdy, Afloat
<1>2. boats \in [Boat -> BoatState]
  BY <1>1 DEF HelmInv
<1> QED BY <1>1, <1>2 DEF HelmTypeOK, HelmIsTyped

LEMMA HelmIsWellFormed == SpecHelm => []HelmTypeOK
<1>1. HelmInv /\ HelmIsTyped /\ [NextHelm]_helmVars => (HelmInv /\ HelmIsTyped)'
  BY HelmStep, HelmStaysTyped
<1>2. InitHelm => HelmInv /\ HelmIsTyped
  BY HelmBegins, HelmBeginsTyped
<1> QED BY <1>1, <1>2, HelmHasItsType, PTL DEF SpecHelm

\* Accounts, talk and surfaces are typed by what has been shown of them.
LEMMA AccountsHaveTheirType == ASSUME AccountsInv PROVE AccountsTypeOK
<1>1. \A t \in Live : sessions[t] \in SessionRow /\ \E a \in accounts : a.id = sessions[t].account
  BY DEF AccountsInv, SessionsAreSound
<1>2. ASSUME NEW b \in Browser
      PROVE  /\ pages[b].status \in AuthStatus /\ pages[b].account \in AccountId \cup {Nobody}
             /\ cookies[b] \in Token \cup {NoCookie}
  <2>1. cookies[b] \in 0 .. issued /\ issued \in 0 .. MaxSessions
    BY DEF AccountsInv, RowsAreSound, BrowsersAreSound
  <2>2. cookies[b] \in Token \cup {NoCookie}
    BY <2>1, TimesToLive DEF Token, NoCookie
  <2> QED BY <2>2 DEF AccountsInv, BrowsersAreSound
<1> QED BY <1>1, <1>2 DEF AccountsTypeOK, AccountsInv, RowsAreSound

\* How far a behaviour goes.
ChatInBounds == evening \in Evenings /\ clock \in 0 .. evening.clock /\ nextChatId \in 1 .. MaxLines + 1

LEMMA ChatStaysInBounds ==
  /\ InitChat => ChatInBounds
  /\ ChatInBounds /\ [NextChat]_chatVars => ChatInBounds'
<1>0. MaxLines \in Nat /\ \A e \in Evenings : e.clock \in Nat
  BY ChatAssumption
<1>1. InitChat => ChatInBounds
  BY <1>0 DEF InitChat, ChatInBounds
<1>2. ASSUME ChatInBounds, [NextChat]_chatVars PROVE ChatInBounds'
  <2>1. CASE passes
    BY <1>0, <1>2, <2>1 DEF passes, ChatInBounds
  <2>2. ASSUME NEW p \in Talker, NEW scope \in CHAT_SCOPES, say(p, scope) PROVE ChatInBounds'
    <3>1. UNCHANGED <<clock, evening>> /\ nextChatId <= MaxLines
          /\ (nextChatId' = nextChatId \/ nextChatId' = nextChatId + 1)
      BY <2>2 DEF say
    <3>2. nextChatId' \in 1 .. MaxLines + 1
      BY <1>0, <1>2, <3>1 DEF ChatInBounds
    <3> QED BY <1>2, <3>1, <3>2 DEF ChatInBounds
  <2>3. CASE UNCHANGED <<clock, nextChatId, evening>>
    BY <1>2, <2>3 DEF ChatInBounds
  <2>4. ASSUME NEW p \in Talker, hear(p) \/ break(p) \/ walkOut(p) \/ comeBack(p) \/ replace(p)
        PROVE  UNCHANGED <<clock, nextChatId, evening>>
    BY <2>4 DEF hear, break, breaking, walkOut, comeBack, replace
  <2>5. CASE UNCHANGED chatVars
    BY <2>3, <2>5 DEF chatVars
  <2> QED BY <1>2, <2>1, <2>2, <2>3, <2>4, <2>5 DEF NextChat
<1> QED BY <1>1, <1>2

LEMMA ChatHasItsType == ASSUME ChatInv, ChatInBounds PROVE ChatTypeOK
<1>1. ASSUME NEW p \in Talker
      PROVE  /\ Len(chatTimes[p]) <= CHAT_BURST /\ Len(shown[p]) <= CHAT_HISTORY_LIMIT
             /\ shown[p] \in Seq(ChatEntry) /\ lines[p] \in Seq(ChatEntry)
             /\ seat[p] \in {"watching", "menu", "gone"} /\ sockets[p] \in Nat
  BY DEF ChatInv, TalkHasItsShape
<1> QED BY <1>1 DEF ChatTypeOK, ChatInBounds, ChatInv, TalkHasItsShape

LEMMA ScopeHasItsType == ASSUME ScopeInv PROVE ScopeTypeOK
<1>1. ToSet(charted) \subseteq ChartSquare
  BY DEF ScopeInv, ChartInv, ToSet
<1>2. scopeHost.alerts \in Tracker /\ miniMap.alerts \in Tracker
  BY DEF ScopeInv, PageInv, ScopeShape, MapShape
<1> QED BY <1>1, <1>2 DEF ScopeTypeOK, ScopeInv, PageInv, AlarmInv

\* Every part is well-formed in every behaviour, whichever part it is of: rows, drafts and calls,
\* boats and what they can take, talk and its bounds, and what the surfaces hold.
THEOREM ServicesAreTyped == SpecServices => []ServicesTypeOK
<1>1. SpecServices => []EditorTypeOK
  BY EditorBegins, EditorKeeps, EditorIsTyped, FleetsAlone, PTL DEF SpecEditor
<1>2. SpecServices => []AccountsTypeOK
  BY AccountsKeep, AccountsHaveTheirType, PTL
<1>3. SpecServices => []ChatTypeOK
  BY ChatBegins, ChatStep, ChatStaysInBounds, ChatHasItsType, ChatAlone, PTL DEF SpecChat
<1>4. SpecServices => []HelmTypeOK
  BY HelmIsWellFormed, HelmAlone, PTL
<1>5. SpecServices => []ScopeTypeOK
  BY ScopeBegins, ScopeStep, ScopeHasItsType, ScopeAlone, PTL DEF SpecScope
<1>6. SpecServices => [](topic \in Topics)
  <2>1. InitServices => topic \in Topics
    BY DEF InitServices
  <2>2. topic \in Topics /\ [NextServices]_serviceVars => (topic \in Topics)'
    BY DEF NextServices, serviceVars
  <2> QED BY <2>1, <2>2, PTL DEF SpecServices
<1>7. topic \in Topics /\ EditorTypeOK /\ AccountsTypeOK /\ ChatTypeOK /\ HelmTypeOK /\ ScopeTypeOK
        => ServicesTypeOK
  BY DEF ServicesTypeOK
<1> QED BY <1>1, <1>2, <1>3, <1>4, <1>5, <1>6, <1>7, PTL
===============================================================================
