-------------------------------- MODULE Helm --------------------------------
(***************************************************************************)
(* Driving boats: orders, cancellations and throttle (order, cancelOrders  *)
(* and throttle of server/src/match/handler.ts and runtime.ts), a tick of  *)
(* movement along a route (shared/src/match/movement.ts), and what the     *)
(* collision phase refuses of it (shared/src/sim/collision/phase.ts,       *)
(* hulls.ts, terrain.ts).                                                  *)
(*                                                                         *)
(* The boats share one line of water at one depth.  A bearing is then east *)
(* (1) or west (-1), a boat either travels towards its waypoint or         *)
(* reverses onto it, and no waypoint lies inside a turning circle.         *)
(***************************************************************************)
EXTENDS Series, SequencesExt

CONSTANTS
  Berth,          \* boat -> where it starts
  LineWidth,      \* the line runs from 0 to this
  Rock,           \* the places of it that are stone
  HalfLength,     \* of a hull
  NotchSpeed,     \* notch -> metres a tick
  ACCELERATION, GRAZE_SPEED,
  Hitpoints,
  Places,         \* bound: where an order may send a boat
  MaxCommands,    \* bound: commands of one behaviour
  MaxStrikes      \* bound: boats that a weapon sinks

Boat == DOMAIN Berth
Line == 0 .. LineWidth
Side(n) == IF n < 0 THEN -1 ELSE 1
Gap(a, b) == IF a < b THEN b - a ELSE a - b
FastestNotch == CHOOSE n \in DOMAIN NotchSpeed :
                  \A m \in DOMAIN NotchSpeed : NotchSpeed[m] <= NotchSpeed[n]

ASSUME HelmAssumption ==
  /\ LineWidth \in Nat /\ Rock \subseteq Line /\ Places \subseteq Line
  /\ {HalfLength, ACCELERATION, GRAZE_SPEED, Hitpoints} \subseteq Nat \ {0}
  /\ "slow" \in DOMAIN NotchSpeed
  /\ \A n \in DOMAIN NotchSpeed : NotchSpeed[n] \in Nat \ {0}
  /\ \E n \in DOMAIN NotchSpeed : \A m \in DOMAIN NotchSpeed : NotchSpeed[m] <= NotchSpeed[n]
  /\ MaxCommands \in Nat /\ MaxStrikes \in Nat
  \* Every boat of a finite fleet is put down in open water (Berths).
  /\ IsFiniteSet(Boat)
  /\ \A b \in Boat : /\ Berth[b] \in HalfLength .. LineWidth - HalfLength
                     /\ \A r \in Rock : Gap(Berth[b], r) > HalfLength
  \* Two boats that run at each other meet: neither passes through the other within a tick.
  /\ NotchSpeed[FastestNotch] <= HalfLength

VARIABLES
  boats,      \* boat -> its state
  commands,   \* commands given so far
  bangs,      \* boats hurt by a collision so far, counted once a tick
  spent,      \* boat -> ticks since its first waypoint became its first
  strikes

helmVars == <<boats, commands, bangs, spent, strikes>>

HOLDING == <<>>     \* no order; a route is never empty
BoatState == [x : Int, sunk : Nat, facing : {-1, 1}, speed : Nat, throttle : DOMAIN NotchSpeed,
              hp : 0 .. Hitpoints, order : Seq(Line), destroyed : BOOLEAN]

InitHelm ==
  /\ boats = [b \in Boat |-> [x |-> Berth[b], sunk |-> 0, facing |-> 1, speed |-> 0,
                              throttle |-> "slow", hp |-> Hitpoints, order |-> HOLDING,
                              destroyed |-> FALSE]]
  /\ commands = 0 /\ bangs = 0 /\ strikes = 0
  /\ spent = [b \in Boat |-> 0]

---------------------------------------------------------------------------
(* Commands.                                                               *)

commanding(b) ==
  commands < MaxCommands /\ commands' = commands + 1
  /\ spent' = [spent EXCEPT ![b] = IF boats'[b].order = <<>> \/ boats[b].order = <<>>
                                      \/ Head(boats'[b].order) # Head(boats[b].order)
                                   THEN 0 ELSE @]
  /\ UNCHANGED <<bangs, strikes>>

order(b, to, queue) ==
  /\ ~boats[b].destroyed
  /\ boats' = [boats EXCEPT ![b].order = IF queue THEN Append(@, to) ELSE <<to>>]
  /\ commanding(b)

\* Obeyed by a wreck too: there is nothing left in it to stop.
cancel(b) ==
  /\ boats' = [boats EXCEPT ![b].order = HOLDING, ![b].speed = 0]
  /\ commanding(b)

setThrottle(b, notch) ==
  /\ boats[b].throttle # notch
  /\ boats' = [boats EXCEPT ![b].throttle = notch]
  /\ commanding(b)

---------------------------------------------------------------------------
(* Movement: where a boat would be after the tick.                         *)

LEAVES_MAP == 2     \* ticks a wreck takes to sink out of the map

approach(value, target) ==
  IF value < target THEN IF value + ACCELERATION < target THEN value + ACCELERATION ELSE target
                    ELSE IF value - ACCELERATION > target THEN value - ACCELERATION ELSE target

sinkWreck(s) == IF s.sunk = LEAVES_MAP THEN s ELSE [s EXCEPT !.sunk = @ + 1]

\* The way comes off, and the boat mirrors the moment it is off.
flipToward(s) ==
  LET speed == approach(s.speed, 0)
  IN IF speed = 0 THEN [s EXCEPT !.speed = 0, !.facing = -@]
     ELSE [s EXCEPT !.speed = speed, !.x = @ + s.facing * speed]

\* Mutant: a waypoint is reached by a boat that comes to lie on it, not by one that would pass it.
runPast(s, to) ==
  LET speed == approach(s.speed, NotchSpeed[s.throttle])
  IN IF speed # Gap(s.x, to) THEN [s EXCEPT !.speed = speed, !.x = @ + s.facing * speed]
     ELSE [s EXCEPT !.x = to, !.order = Tail(@), !.speed = IF Len(s.order) = 1 THEN 0 ELSE speed]

runToward(s, to) ==
  LET speed == approach(s.speed, NotchSpeed[s.throttle])
  IN IF speed < Gap(s.x, to) THEN [s EXCEPT !.speed = speed, !.x = @ + s.facing * speed]
     ELSE [s EXCEPT !.x = to, !.order = Tail(@), !.speed = IF Len(s.order) = 1 THEN 0 ELSE speed]

\* A waypoint where the boat is has the bearing east.
stepBoat(s) ==
  IF s.destroyed THEN sinkWreck(s)
  ELSE IF s.order = HOLDING THEN s
  ELSE IF s.facing # Side(Head(s.order) - s.x) THEN flipToward(s)
  ELSE runToward(s, Head(s.order))

---------------------------------------------------------------------------
(* Collision: which of those places stand.                                 *)

hitsBoat(s) == \/ s.x - HalfLength < 0 \/ s.x + HalfLength > LineWidth
               \/ \E r \in Rock : Gap(s.x, r) <= HalfLength

\* Mutant: a wreck is still in the way.
hullsTouchAlways(s, t) == Gap(s.x, t.x) <= 2 * HalfLength

hullsTouch(s, t) ==
  /\ ~s.destroyed /\ ~t.destroyed
  /\ Gap(s.x, t.x) <= 2 * HalfLength

closingSpeed(s, t) == Gap(s.facing * s.speed, t.facing * t.speed)
collisionDamage(closing) == IF closing < GRAZE_SPEED THEN 0 ELSE closing

\* Mutant: the boat is put back, and keeps its route.
refuseOnce(was, now) == [now EXCEPT !.x = was.x, !.sunk = was.sunk, !.speed = 0]

\* Mutant: the boat is put back and holds, and keeps its way.
refuseAdrift(was, now) == [now EXCEPT !.x = was.x, !.sunk = was.sunk, !.order = HOLDING]

\* Put back where it was, stopped and holding; which way it faces now it keeps.
refuse(was, now) == [now EXCEPT !.x = was.x, !.sunk = was.sunk, !.speed = 0, !.order = HOLDING]

hurtBy(s, amount) ==
  LET hp == IF s.hp > amount THEN s.hp - amount ELSE 0
  IN IF amount = 0 THEN s ELSE [s EXCEPT !.hp = hp, !.destroyed = hp = 0]

\* Rock first, then the hulls where that left them.
offRock(before, after) ==
  [b \in Boat |->
     IF /\ ~after[b].destroyed /\ after[b].x # before[b].x
        /\ hitsBoat(after[b]) /\ ~hitsBoat(before[b])
     THEN refuse(before[b], after[b]) ELSE after[b]]

Met(before, now) ==
  [b \in Boat |-> {c \in Boat \ {b} : hullsTouch(now[b], now[c]) /\ ~hullsTouch(before[b], before[c])}]

\* Every contact of the tick counts, and they are all gathered before any is applied.
Harm(now, b, met) ==
  SumOver([c \in Boat |-> collisionDamage(closingSpeed(now[b], now[c]))], met)

\* Mutant: hulls where movement would have them, and rock is forgotten.
withoutRock(before, after) ==
  LET met == Met(before, after)
  IN [b \in Boat |-> IF met[b] = {} THEN after[b]
                     ELSE hurtBy(refuse(before[b], after[b]), Harm(after, b, met[b]))]

resolveCollisions(before, after) ==
  LET now == offRock(before, after)
      met == Met(before, now)
  IN [b \in Boat |-> IF met[b] = {} THEN now[b]
                     ELSE hurtBy(refuse(before[b], now[b]), Harm(now, b, met[b]))]

---------------------------------------------------------------------------
(* A tick: movement, collision, then what weapons do to what is left.      *)

Struck(s) == [s EXCEPT !.hp = 0, !.destroyed = TRUE]

tick(struck) ==
  LET moved == resolveCollisions(boats, [b \in Boat |-> stepBoat(boats[b])])
  IN /\ boats' = [b \in Boat |-> IF b \in struck THEN Struck(moved[b]) ELSE moved[b]]
     /\ strikes' = strikes + Cardinality(struck)
     /\ strikes' <= MaxStrikes
     /\ bangs' = bangs + IF \E b \in Boat : moved[b].hp # boats[b].hp THEN 1 ELSE 0
     /\ spent' = [b \in Boat |->
                    IF moved[b].order = <<>> \/ moved[b].order # boats[b].order \/ moved[b].destroyed
                    THEN 0 ELSE spent[b] + 1]
     /\ UNCHANGED commands

NextHelm ==
  \/ \E b \in Boat :
       \/ \E to \in Places, queue \in BOOLEAN : order(b, to, queue)
       \/ cancel(b)
       \/ \E notch \in DOMAIN NotchSpeed : setThrottle(b, notch)
  \/ tick({})
  \/ \E b \in Boat : ~boats[b].destroyed /\ tick({b})

SpecHelm == InitHelm /\ [][NextHelm]_helmVars

---------------------------------------------------------------------------
(* Properties.                                                             *)

Afloat(b) == ~boats[b].destroyed

HelmTypeOK ==
  /\ boats \in [Boat -> BoatState]
  /\ commands \in 0 .. MaxCommands /\ strikes \in 0 .. MaxStrikes
  \* A boat that holds is stopped: nothing leaves it drifting.
  /\ \A b \in Boat : Afloat(b) /\ boats[b].order = HOLDING => boats[b].speed = 0
  /\ \A b \in Boat : boats[b].destroyed <=> boats[b].hp = 0

\* No boat afloat ends a tick in stone or off the map, wherever it was sent and whatever it was
\* put back from (resolveCollisions: "it cannot put a hull inside stone").
NoHullInStone == \A b \in Boat : Afloat(b) => ~hitsBoat(boats[b])

\* A contact is a single event: there are never more harmful ones than commands that could have
\* set a boat going again (resolveCollisions: "Clearing it makes contact a single event").
ContactIsOneEvent == bangs <= commands

\* An order comes to its end: every waypoint is reached, or the boat is stopped, within the ticks
\* that the way there takes at the slowest notch and a reversal adds.
LEG_TICKS == LineWidth + 2 * NotchSpeed[FastestNotch] + 2
OrdersComeToAnEnd == \A b \in Boat : spent[b] <= LEG_TICKS

\* Any orders are safe to give: they end, in the open, and without grinding on what is in the way.
DrivingIsSafe == NoHullInStone /\ ContactIsOneEvent /\ OrdersComeToAnEnd

\* A wreck goes down where it was sunk: no command and no collision stops it or moves it.
WrecksGoDown ==
  [][\A b \in Boat : boats[b].destroyed =>
       /\ boats'[b].destroyed /\ boats'[b].x = boats[b].x
       /\ commands' = commands => boats'[b].sunk = sinkWreck(boats[b]).sunk]_helmVars
=============================================================================
