------------------------------- MODULE Tubes -------------------------------
(***************************************************************************)
(* The loading gear of a match: the tubes of every boat and its            *)
(* countermeasure launcher (shared/src/match/tubes.ts), with the orders    *)
(* that reach them between ticks (fire, drop and load of                   *)
(* server/src/match/runtime.ts) and the tick that turns them over          *)
(* (stepTubes of shared/src/sim/weapons/phase.ts).                         *)
(*                                                                         *)
(* Time is in units of which a tick has TickSpan, so that an unload or a   *)
(* reload may end between two ticks.                                       *)
(***************************************************************************)
EXTENDS Fleet

CONSTANTS
  TubeCount,          \* boat -> how many tubes its hull has
  Fits,               \* boat -> the loads its tubes may be ordered to take
  TickSpan,           \* units of time in a tick
  UNLOAD_SECONDS,     \* the time to get a load back out, in those units
  ReloadSeconds,      \* boat -> its reload time, in those units
  DropReloadSeconds   \* boat -> its launcher's

ASSUME GearAssumption ==
  /\ TickSpan \in Nat \ {0}
  /\ UNLOAD_SECONDS \in Nat \ {0}
  /\ TubeCount \in [Boat -> Nat]
  /\ Fits \in [Boat -> SUBSET TubeLoad]
  \* reloadSecondsFor and countermeasureReloadSecondsFor: no less than two ticks.
  /\ ReloadSeconds \in [Boat -> Nat] /\ \A b \in Boat : ReloadSeconds[b] >= 2 * TickSpan
  /\ DropReloadSeconds \in [Boat -> Nat] /\ \A b \in Boat : DropReloadSeconds[b] >= 2 * TickSpan

VARIABLES
  tubes,       \* boat -> tube index -> the tube
  launcher     \* boat -> its countermeasure launcher

gearVars == <<tubes, launcher, destroyed>>

Tubes(b) == 1 .. TubeCount[b]
TubeStatus == {"loaded", "reloading", "unloading"}
TubeState == [weapon : TubeLoad, next : TubeLoad, status : TubeStatus, readyIn : Nat]
CountermeasureState == [status : {"ready", "reloading"}, readyIn : Nat]

---------------------------------------------------------------------------
(* One tube.                                                               *)

newTube(w) == [weapon |-> w, next |-> w, status |-> "loaded", readyIn |-> 0]

canFire(t) == t.status = "loaded"

fired(b, t) ==
  [t EXCEPT !.weapon = t.next, !.status = "reloading", !.readyIn = ReloadSeconds[b]]

\* Mutant: a tube that is filling is not told of the change.
chooseForLater(t, w) == [t EXCEPT !.next = w]

\* What goes in next; a tube that is filling has nothing in it yet and takes it now.
chooseNext(t, w) ==
  IF t.next = w THEN t
  ELSE IF t.status = "reloading" THEN [t EXCEPT !.next = w, !.weapon = w]
  ELSE [t EXCEPT !.next = w]

swapTo(t, w) ==
  IF t.status # "loaded" THEN t
  ELSE [t EXCEPT !.next = w, !.status = "unloading", !.readyIn = UNLOAD_SECONDS]

\* Mutant: the leftover of the tick that ends an unload is lost.
stepTubeAfresh(b, t) ==
  IF t.status = "loaded" THEN t
  ELSE IF t.readyIn > TickSpan THEN [t EXCEPT !.readyIn = @ - TickSpan]
  ELSE IF t.status = "unloading" THEN fired(b, t)
  ELSE [t EXCEPT !.status = "loaded", !.readyIn = 0]

stepTube(b, t) ==
  LET remaining == t.readyIn - TickSpan
      carried   == ReloadSeconds[b] + remaining
  IN IF t.status = "loaded" THEN t
     ELSE IF remaining > 0 THEN [t EXCEPT !.readyIn = remaining]
     ELSE IF t.status = "unloading"
     THEN [t EXCEPT !.weapon = t.next, !.status = "reloading",
                    !.readyIn = IF carried > 0 THEN carried ELSE 0]
     ELSE [t EXCEPT !.status = "loaded", !.readyIn = 0]

---------------------------------------------------------------------------
(* The launcher.                                                           *)

newLauncher == [status |-> "ready", readyIn |-> 0]
canDrop(l) == l.status = "ready"
dropped(b) == [status |-> "reloading", readyIn |-> DropReloadSeconds[b]]

stepLauncher(l) ==
  IF l.status = "ready" THEN l
  ELSE IF l.readyIn > TickSpan THEN [l EXCEPT !.readyIn = @ - TickSpan]
  ELSE newLauncher

---------------------------------------------------------------------------
(* The orders, which come between ticks and only from a boat's owner.      *)

\* A boat is deployed with one load in all of its tubes.
InitGear(startingLoad) ==
  /\ tubes = [b \in Boat |-> [i \in Tubes(b) |-> newTube(startingLoad[b])]]
  /\ launcher = [b \in Boat |-> newLauncher]
  /\ destroyed = {}

\* The tubes an order to fire launches from: of those it names the ones that can,
\* and the first that can if it names none.
Launching(b, wanted) ==
  LET able == {i \in Tubes(b) : canFire(tubes[b][i])}
  IN IF wanted # {} THEN wanted \cap able
     ELSE {i \in able : \A j \in able : i <= j}

fireTubes(b, wanted) ==
  /\ b \notin destroyed
  /\ Launching(b, wanted) # {}
  /\ tubes' = [tubes EXCEPT ![b] =
                 [i \in Tubes(b) |-> IF i \in Launching(b, wanted)
                                     THEN fired(b, tubes[b][i]) ELSE tubes[b][i]]]
  /\ UNCHANGED <<launcher, destroyed>>

\* The tube an order to load leaves, ejecting what is in it or not.
Ordered(t, w, swap) == IF swap THEN swapTo(chooseNext(t, w), w) ELSE chooseNext(t, w)

load(b, i, w, swap) ==
  /\ b \notin destroyed
  /\ w \in Fits[b] /\ i \in Tubes(b)
  /\ Ordered(tubes[b][i], w, swap) # tubes[b][i]
  /\ tubes' = [tubes EXCEPT ![b][i] = Ordered(tubes[b][i], w, swap)]
  /\ UNCHANGED <<launcher, destroyed>>

dropGear(b) ==
  /\ b \notin destroyed
  /\ canDrop(launcher[b])
  /\ launcher' = [launcher EXCEPT ![b] = dropped(b)]
  /\ UNCHANGED <<tubes, destroyed>>

\* The tick: every tube and launcher turns over, a wreck's too; which boats become wrecks is
\* settled elsewhere.
stepTubes ==
  /\ tubes' = [b \in Boat |-> [i \in Tubes(b) |-> stepTube(b, tubes[b][i])]]
  /\ launcher' = [b \in Boat |-> stepLauncher(launcher[b])]

GearTick == stepTubes /\ destroyed' \in SUBSET Boat

NextGear ==
  \/ \E b \in Boat :
       \/ \E wanted \in SUBSET Tubes(b) : fireTubes(b, wanted)
       \/ \E i \in Tubes(b), w \in Fits[b], swap \in BOOLEAN : load(b, i, w, swap)
       \/ dropGear(b)
  \/ GearTick

SpecGear ==
  /\ \E start \in [Boat -> TubeLoad] : (\A b \in Boat : start[b] \in Fits[b]) /\ InitGear(start)
  /\ [][NextGear]_gearVars

---------------------------------------------------------------------------
(* Properties.                                                             *)

Gun == UNION {{b} \X Tubes(b) : b \in Boat}

\* Every tube and launcher is well-formed; what is in a tube that is filling is what
\* it will take next, so that choosing that load again has nothing to change.
GearTypeOK ==
  /\ tubes = [b \in Boat |-> tubes[b]]
  /\ \A b \in Boat : tubes[b] \in [Tubes(b) -> TubeState]
  /\ launcher \in [Boat -> CountermeasureState]
  /\ destroyed \subseteq Boat

\* A tube counts down only while it cycles, and a load in a filling tube is the next
\* one: chooseNext returns at once for a load that is `next' already, whatever is
\* in the tube.
TubeInv(b, t) ==
  /\ t.weapon \in Fits[b] /\ t.next \in Fits[b]
  /\ t.status = "loaded" => t.readyIn = 0
  /\ t.status = "reloading" => t.weapon = t.next /\ t.readyIn \in 1 .. ReloadSeconds[b]
  /\ t.status = "unloading" => t.readyIn \in 1 .. UNLOAD_SECONDS

TubesInv == \A b \in Boat : \A i \in Tubes(b) : TubeInv(b, tubes[b][i])

\* The time until a tube can fire, and the load it will fire then.
Remaining(b, t) ==
  CASE t.status = "loaded" -> 0
    [] t.status = "reloading" -> t.readyIn
    [] t.status = "unloading" -> t.readyIn + ReloadSeconds[b]
Promised(b, t) ==
  [left  |-> Remaining(b, t),
   shot  |-> IF t.status = "unloading" THEN t.next ELSE t.weapon,
   after |-> t.next]

\* The tubes keep the promise of Loading: a shot is a reload and a swap an unload and a
\* reload, to the unit, however the ticks fall; and what is fired is what was last asked
\* for while it could still be changed.
Gear == INSTANCE Loading WITH
  Load <- TubeLoad, Span <- TickSpan, Emptying <- UNLOAD_SECONDS,
  Filling <- [g \in Gun |-> ReloadSeconds[g[1]]],
  gear <- [g \in Gun |-> Promised(g[1], tubes[g[1]][g[2]])]

ImplementsLoading == Gear!Spec
=============================================================================
