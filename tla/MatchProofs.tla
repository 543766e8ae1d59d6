----------------------------- MODULE MatchProofs -----------------------------
(***************************************************************************)
(* What the parts of a match keep by themselves, they keep in a match: the *)
(* loading gear its promise and the board its laws (PartsProofs); and with *)
(* every order, every tick and every step of the clock between them, runs  *)
(* end, the outcome and the chart reach every page, and what a team is     *)
(* shown of the other is so.                                               *)
(***************************************************************************)
EXTENDS Match, PartsProofs, SequenceTheorems

---------------------------------------------------------------------------
(* A match is a behaviour of its loading gear and of its zones.            *)

\* The scene of a match is one of the model's, and stays.
LEMMA SceneKept == Spec => [](scene \in Scenes)
<1>1. Init => scene \in Scenes
  BY DEF Init
<1>2. scene \in Scenes /\ [Next]_vars => (scene \in Scenes)'
  <2>1. ASSUME scene \in Scenes, Next PROVE scene' = scene
    BY <2>1 DEF Next, fire, reload, dropNoisemaker, switchSonar, step, playerMoves, playerActs, moving
  <2>2. UNCHANGED vars => scene' = scene
    BY DEF vars
  <2> QED  BY <2>1, <2>2
<1> QED  BY <1>1, <1>2, PTL DEF Spec

\* What is common to everything that is not an order to the gear or a tick.
Idle == UNCHANGED worldVars

\* A step of a match, by what it does to the world.
LEMMA StepsOfTheWorld ==
  ASSUME Next
  PROVE  \/ \E b \in Boat :
              \/ \E wanted \in SUBSET Tubes(b) : fire(b, wanted)
              \/ \E i \in Tubes(b), w \in Fits[b], swap \in BOOLEAN : reload(b, i, w, swap)
              \/ dropNoisemaker(b)
              \/ \E on \in BOOLEAN : switchSonar(b, on)
         \/ ~concluded /\ results = None /\ tick' = tick + 1 /\ UNCHANGED scene
            /\ \E thrown \in BOOLEAN : Ticked(tick + 1, thrown)
         \/ Idle
<1>1. ASSUME step
      PROVE  \/ ~concluded /\ results = None /\ tick' = tick + 1 /\ UNCHANGED scene
                /\ \E thrown \in BOOLEAN : Ticked(tick + 1, thrown)
             \/ Idle
  <2>1. CASE results # None
    BY <1>1, <2>1 DEF step, Idle
  <2>2. CASE results = None
    <3>1. PICK fault : Ticked(tick + 1, fault = "solve")
      BY <1>1, <2>2 DEF step
    <3>2. (fault = "solve") \in BOOLEAN
      OBVIOUS
    <3> QED  BY <1>1, <2>2, <3>1, <3>2 DEF step
  <2> QED  BY <2>1, <2>2
<1>2. ASSUME NEW p \in Player, playerMoves(p) \/ playerActs(p)
      PROVE  Idle
  BY <1>2 DEF playerMoves, playerActs, moving, Idle
<1> QED  BY <1>1, <1>2 DEF Next

\* Every step is a step of the gear: an order, the tick, or nothing to it.
LEMMA StepsOfTheGear ==
  ASSUME Next
  PROVE  [NextGear]_gearVars
<1>1. ASSUME NEW b \in Boat, NEW wanted \in SUBSET Tubes(b), fire(b, wanted)
      PROVE  NextGear
  BY <1>1 DEF fire, NextGear
<1>2. ASSUME NEW b \in Boat, NEW i \in Tubes(b), NEW w \in Fits[b], NEW swap \in BOOLEAN,
             reload(b, i, w, swap)
      PROVE  NextGear
  BY <1>2 DEF reload, NextGear
<1>3. ASSUME NEW b \in Boat, dropNoisemaker(b)
      PROVE  NextGear
  BY <1>3 DEF dropNoisemaker, NextGear
<1>4. ASSUME NEW b \in Boat, NEW on \in BOOLEAN, switchSonar(b, on)
      PROVE  UNCHANGED gearVars
  BY <1>4 DEF switchSonar
<1>5. ASSUME NEW thrown \in BOOLEAN, Ticked(tick + 1, thrown)
      PROVE  NextGear
  <2>1. stepTubes /\ \E ram, fate : stepWeapons(ram, fate)
    BY <1>5 DEF Ticked
  <2>2. destroyed' \in SUBSET Boat
    BY <2>1 DEF stepWeapons
  <2> QED  BY <2>1, <2>2 DEF GearTick, NextGear
<1>6. Idle => UNCHANGED gearVars
  BY DEF Idle, worldVars
<1> QED  BY <1>1, <1>2, <1>3, <1>4, <1>5, <1>6, StepsOfTheWorld

\* Every step is a step of the board: the zones' part of a tick, or nothing to it.
LEMMA StepsOfTheBoard ==
  ASSUME scene \in Scenes, Next
  PROVE  [NextZones]_<<zoneVars, destroyed>>
<1>1. ASSUME NEW b \in Boat, NEW wanted \in SUBSET Tubes(b), fire(b, wanted)
      PROVE  UNCHANGED <<zoneVars, destroyed>>
  BY <1>1 DEF fire, fireTubes
<1>2. ASSUME NEW b \in Boat, NEW i \in Tubes(b), NEW w \in Fits[b], NEW swap \in BOOLEAN,
             reload(b, i, w, swap)
      PROVE  UNCHANGED <<zoneVars, destroyed>>
  BY <1>2 DEF reload, load
<1>3. ASSUME NEW b \in Boat, dropNoisemaker(b)
      PROVE  UNCHANGED <<zoneVars, destroyed>>
  BY <1>3 DEF dropNoisemaker, dropGear
<1>4. ASSUME NEW b \in Boat, NEW on \in BOOLEAN, switchSonar(b, on)
      PROVE  UNCHANGED <<zoneVars, destroyed>>
  BY <1>4 DEF switchSonar, gearVars
<1>5. ASSUME NEW thrown \in BOOLEAN, Ticked(tick + 1, thrown)
      PROVE  NextZones
  <2>1. \E ram, fate : stepWeapons(ram, fate)
    BY <1>5 DEF Ticked
  <2>2. destroyed' \in SUBSET Boat
    BY <2>1 DEF stepWeapons
  <2>3. PICK where \in [Boat -> scene.roam] : ZonesTick(Boat \ destroyed', where)
    BY <1>5 DEF Ticked
  <2>4. scene.roam \subseteq Place
    BY MatchAssumption DEF Scene
  <2>5. where \in [Boat -> Place]
    BY <2>4
  <2> QED  BY <2>2, <2>3, <2>5 DEF NextZones
<1>6. Idle => UNCHANGED <<zoneVars, destroyed>>
  BY DEF Idle, worldVars, gearVars
<1> QED  BY <1>1, <1>2, <1>3, <1>4, <1>5, <1>6, StepsOfTheWorld

\* A shot costs a reload and a change of mind an unload and a reload, to the unit, and what is
\* fired is what was asked for, in a match with everything else going on in it (tick, fire, drop
\* and load of the runtime).
THEOREM MatchKeepsThePromise == Spec => ImplementsLoading
<1>1. Init => \E start \in [Boat -> TubeLoad] : (\A b \in Boat : start[b] \in Fits[b]) /\ InitGear(start)
  <2>1. ASSUME Init
        PROVE  scene.loaded \in [Boat -> TubeLoad] /\ \A b \in Boat : scene.loaded[b] \in Fits[b]
    BY <2>1, MatchAssumption DEF Init, Scene
  <2> QED  BY <2>1 DEF Init
<1>2. [Next]_vars => [NextGear]_gearVars
  <2>1. UNCHANGED vars => UNCHANGED gearVars
    BY DEF vars, worldVars
  <2> QED  BY <2>1, StepsOfTheGear
<1>3. Spec => SpecGear
  BY <1>1, <1>2, PTL DEF Spec, SpecGear
<1> QED  BY <1>3, GearKeepsItsPromise, PTL

\* The board of a match is legal and its progress earned, whatever is fought over it.
THEOREM MatchBoardIsLegal == Spec => [](ProgressIsEarned /\ BoardIsLegal)
<1>1. Init => InitZones
  <2>1. ASSUME Init
        PROVE  destroyed = {} /\ scene.objectives \in BOOLEAN /\ InitBoard(scene.objectives)
    BY <2>1, MatchAssumption DEF Init, InitGear, Scene
  <2> QED  BY <2>1 DEF InitZones
<1>2. scene \in Scenes /\ [Next]_vars => [NextZones]_<<zoneVars, destroyed>>
  <2>1. UNCHANGED vars => UNCHANGED <<zoneVars, destroyed>>
    BY DEF vars, worldVars, gearVars
  <2> QED  BY <2>1, StepsOfTheBoard
<1>3. Spec => SpecZones
  BY <1>1, <1>2, SceneKept, PTL DEF Spec, SpecZones
<1> QED  BY <1>3, ProgressStaysEarned, BoardStaysLegal, PTL

---------------------------------------------------------------------------
(* Runs end.                                                               *)

IsWeapon(t) ==
  t = [load |-> t.load, firedBy |-> t.firedBy, firedTick |-> t.firedTick, phase |-> t.phase,
       alignedTick |-> t.alignedTick, bang |-> t.bang]

\* A weapon in the water, by its clock: one that still runs is younger than its lifetime and has
\* not gone off, and what went off rings for a while.
OnTheClock(t, now) ==
  /\ IsWeapon(t) /\ t.firedTick \in Nat
  /\ IF t.phase # "spent" THEN now - t.firedTick < LIFETIME /\ t.bang = None
     ELSE t.bang # None => t.bang \in Nat /\ now - t.bang < RING

RunsInv == tick \in Nat /\ \A i \in InWater : OnTheClock(torpedoes[i], tick)

\* A weapon goes in on the tick that was the last to complete (newTorpedo).
LEMMA NewOnTheClock ==
  ASSUME NEW now \in Nat, NEW b, NEW w, NEW phase, phase # "spent"
  PROVE  OnTheClock(newTorpedo(b, w, phase, now), now)
<1>1. LIFETIME \in Nat /\ LIFETIME > 0
  BY WeaponsAssumption
<1>2. now - now = 0
  OBVIOUS
<1> QED  BY <1>1, <1>2 DEF OnTheClock, IsWeapon, newTorpedo

\* What a tick makes of a weapon is on the clock of that tick (stepTorpedo: its expiry is asked
\* before it is steered, whatever phase it is in).
LEMMA OutcomeOnTheClock ==
  ASSUME NEW now \in Nat, NEW t, OnTheClock(t, now), NEW afloat, NEW early,
         NEW o \in Outcomes(t, now + 1, afloat, early), o.weapon # None
  PROVE  OnTheClock(o.weapon, now + 1)
<1>0. /\ LIFETIME \in Nat /\ RING \in Nat /\ RING > 0
      /\ IsWeapon(t) /\ t.firedTick \in Nat
      /\ (now + 1) - (now + 1) = 0 /\ now + 1 \in Nat
  BY WeaponsAssumption DEF OnTheClock
<1>1. ASSUME NEW u, IsWeapon(u), u.firedTick = t.firedTick
      PROVE  OnTheClock(finish(u, now + 1), now + 1)
  <2>1. finish(u, now + 1)
          = [load |-> u.load, firedBy |-> u.firedBy, firedTick |-> u.firedTick, phase |-> "spent",
             alignedTick |-> u.alignedTick,
             bang |-> IF u.load \in Warhead THEN now + 1 ELSE None]
    <3> DEFINE bang == IF u.load \in Warhead THEN now + 1 ELSE None
    <3>1. finish(u, now + 1) = [u EXCEPT !.phase = "spent", !.bang = bang]
      BY DEF finish
    <3> HIDE DEF bang
    <3>3. finish(u, now + 1)
            = [load |-> u.load, firedBy |-> u.firedBy, firedTick |-> u.firedTick,
               phase |-> "spent", alignedTick |-> u.alignedTick, bang |-> bang]
      <4>1. finish(u, now + 1)
              = [x \in DOMAIN u |-> IF x = "bang" THEN bang ELSE IF x = "phase" THEN "spent" ELSE u[x]]
        BY <3>1
      <4>2. DOMAIN u = {"load", "firedBy", "firedTick", "phase", "alignedTick", "bang"}
        BY <1>1 DEF IsWeapon
      <4> QED  BY <4>1, <4>2
    <3> QED  BY <3>3 DEF bang
  <2> QED  BY <1>0, <1>1, <2>1 DEF OnTheClock, IsWeapon
<1>2. CASE t.phase = "spent"
  <2>1. isRinging(t, now + 1) /\ o.weapon = t
    BY <1>2 DEF Outcomes, Outcome
  <2> QED  BY <1>0, <1>2, <2>1 DEF isRinging, OnTheClock
<1>3. CASE t.phase # "spent" /\ torpedoExpired(t, now + 1)
  <2>1. o.weapon = finish(t, now + 1)
    BY <1>3 DEF Outcomes, Ends, Outcome
  <2> QED  BY <1>0, <1>1, <2>1
<1>4. CASE t.phase # "spent" /\ ~torpedoExpired(t, now + 1)
  <2>1. PICK aligned \in BOOLEAN, arrived \in BOOLEAN :
          LET moved == steered(t, now + 1, aligned, arrived)
          IN o.weapon = moved \/ o.weapon = finish(moved, now + 1)
    <3>1. PICK aligned \in BOOLEAN, arrived \in BOOLEAN :
            o \in AfterMoving(steered(t, now + 1, aligned, arrived), now + 1, afloat, early)
      BY <1>4 DEF Outcomes
    <3>2. ASSUME NEW m, NEW touched, o \in Ends(m, now + 1, afloat, touched)
          PROVE  o.weapon = finish(m, now + 1)
      BY <3>2 DEF Ends, Outcome
    <3>3. ASSUME NEW m, o = Outcome(m, Unharmed)
          PROVE  o.weapon = m
      BY <3>3 DEF Outcome
    <3>4. ASSUME NEW m, o \in AfterMoving(m, now + 1, afloat, early)
          PROVE  o.weapon = m \/ o.weapon = finish(m, now + 1)
      <4>1. \/ \E touched \in SUBSET Boat :
                 o \in IF Fuzes(m, now + 1, touched) THEN Ends(m, now + 1, afloat, touched)
                       ELSE {Outcome(m, Unharmed)}
            \/ o \in IF early THEN Ends(m, now + 1, afloat, {}) ELSE {}
        BY <3>4 DEF AfterMoving
      <4> QED  BY <3>2, <3>3, <4>1
    <3> QED  BY <3>1, <3>4
  <2> DEFINE moved == steered(t, now + 1, aligned, arrived)
  <2>2. /\ IsWeapon(moved) /\ moved.firedTick = t.firedTick
        /\ moved.phase # "spent" /\ moved.bang = t.bang
    BY <1>0, <1>4 DEF steered, settle, IsWeapon
  <2>3. (now + 1) - t.firedTick < LIFETIME /\ t.bang = None
    BY <1>0, <1>4 DEF torpedoExpired, OnTheClock
  <2> HIDE DEF moved
  <2>4. OnTheClock(moved, now + 1)
    BY <1>0, <2>2, <2>3 DEF OnTheClock
  <2> QED  BY <1>1, <2>1, <2>2, <2>4 DEF moved
<1> QED  BY <1>2, <1>3, <1>4

\* Orders and ticks keep every weapon on the clock (launch, dropCountermeasure, stepWeapons).
LEMMA RunsInvKept ==
  ASSUME RunsInv, [Next]_vars
  PROVE  RunsInv'
<1>0. tick \in Nat
  BY DEF RunsInv
<1>1. ASSUME NEW b, NEW loads, launch(b, loads, tick), tick' = tick
      PROVE  RunsInv'
  <2>1. ASSUME NEW i \in InWater'
        PROVE  OnTheClock(torpedoes'[i], tick')
    <3>1. CASE i \in InWater
      <4>1. torpedoes'[i] = torpedoes[i]
        BY <1>1, <2>1, <3>1 DEF launch, InWater
      <4> QED  BY <1>1, <3>1, <4>1 DEF RunsInv
    <3>2. CASE i \notin InWater
      <4>1. \E w : torpedoes'[i] = newTorpedo(b, w, "launch", tick)
        BY <1>1, <2>1, <3>2 DEF launch, InWater
      <4> QED  BY <1>0, <1>1, <4>1, NewOnTheClock
    <3> QED  BY <3>1, <3>2
  <2> QED  BY <1>0, <1>1, <2>1 DEF RunsInv
<1>2. ASSUME NEW b, dropCountermeasure(b, tick), tick' = tick
      PROVE  RunsInv'
  <2>1. ASSUME NEW i \in InWater'
        PROVE  OnTheClock(torpedoes'[i], tick')
    <3>1. CASE i \in InWater
      <4>1. torpedoes'[i] = torpedoes[i]
        BY <1>2, <2>1, <3>1 DEF dropCountermeasure, InWater
      <4> QED  BY <1>2, <3>1, <4>1 DEF RunsInv
    <3>2. CASE i \notin InWater
      <4>1. torpedoes'[i] = newTorpedo(b, Noisemaker, "enabled", tick)
        BY <1>2, <2>1, <3>2 DEF dropCountermeasure, InWater
      <4> QED  BY <1>0, <1>2, <4>1, NewOnTheClock
    <3> QED  BY <3>1, <3>2
  <2> QED  BY <1>0, <1>2, <2>1 DEF RunsInv
<1>3. ASSUME NEW thrown \in BOOLEAN, Ticked(tick + 1, thrown), tick' = tick + 1
      PROVE  RunsInv'
  <2>0. PICK ram \in Collisions : \E fate \in Fates(tick + 1, ram.harm, scene.early) :
                                    stepWeapons(ram.harm, fate)
    BY <1>3 DEF Ticked
  <2>1. PICK fate \in Fates(tick + 1, ram.harm, scene.early) : stepWeapons(ram.harm, fate)
    BY <2>0
  <2> DEFINE afloat == StillAfloat(Settled(ram.harm))
  <2>2. \A i \in InWater : fate[i] \in Outcomes(torpedoes[i], tick + 1, afloat, scene.early)
    BY <2>1 DEF Fates
  <2>3. /\ InWater' = {j \in InWater : fate[j].weapon # None}
        /\ \A i \in InWater' : torpedoes'[i] = fate[i].weapon
    BY <2>1 DEF stepWeapons, InWater
  <2> HIDE DEF afloat
  <2>4. ASSUME NEW i \in InWater'
        PROVE  OnTheClock(torpedoes'[i], tick')
    <3>1. /\ i \in InWater /\ fate[i].weapon # None /\ torpedoes'[i] = fate[i].weapon
          /\ fate[i] \in Outcomes(torpedoes[i], tick + 1, afloat, scene.early)
          /\ OnTheClock(torpedoes[i], tick)
      BY <2>2, <2>3 DEF RunsInv
    <3> QED  BY <1>0, <1>3, <3>1, OutcomeOnTheClock
  <2> QED  BY <1>0, <1>3, <2>4 DEF RunsInv
<1>4. ASSUME torpedoes' = torpedoes, tick' = tick
      PROVE  RunsInv'
  BY <1>4 DEF RunsInv, InWater
<1>5. ASSUME NEW b \in Boat, NEW wanted \in SUBSET Tubes(b), fire(b, wanted)
      PROVE  RunsInv'
  BY <1>1, <1>5 DEF fire
<1>6. ASSUME NEW b \in Boat, NEW i \in Tubes(b), NEW w \in Fits[b], NEW swap \in BOOLEAN,
             reload(b, i, w, swap)
      PROVE  RunsInv'
  BY <1>4, <1>6 DEF reload, waterVars
<1>7. ASSUME NEW b \in Boat, dropNoisemaker(b)
      PROVE  RunsInv'
  BY <1>2, <1>7 DEF dropNoisemaker
<1>8. ASSUME NEW b \in Boat, NEW on \in BOOLEAN, switchSonar(b, on)
      PROVE  RunsInv'
  BY <1>4, <1>8 DEF switchSonar, waterVars
<1>9. Idle => RunsInv'
  BY <1>4 DEF Idle, worldVars, waterVars
<1>10. UNCHANGED vars => RunsInv'
  BY <1>9 DEF vars, Idle
<1> QED  BY <1>3, <1>5, <1>6, <1>7, <1>8, <1>9, <1>10, StepsOfTheWorld

\* No weapon outlives its clock: not one held in its launch phase by rock or a far aim point, nor
\* one set off on its last tick, nor what is left of it (torpedoExpired, isRinging).
THEOREM RunsEnd == Spec => []NoRunIsEndless
<1>1. Init => RunsInv
  BY DEF Init, InitWater, NoWeapons, RunsInv, InWater
<1>2. RunsInv /\ [Next]_vars => RunsInv'
  BY RunsInvKept
<1>3. RunsInv => NoRunIsEndless
  BY DEF RunsInv, OnTheClock, NoRunIsEndless, EveryRunEnds
<1> QED  BY <1>1, <1>2, <1>3, PTL DEF Spec

---------------------------------------------------------------------------
(* The outcome is told once, and last.                                     *)

Message == [kind : {"setup", "view", "results"}, seq : Nat, cells : SUBSET Nat]

\* Nothing on a wire speaks of the end; or its last message does, and only that one.
NoWord(s) == \A i \in 1 .. Len(s) : s[i].kind # "results"
LastWord(s) ==
  /\ Len(s) > 0 /\ s[Len(s)].kind = "results"
  /\ \A i \in 1 .. Len(s) - 1 : s[i].kind # "results"

\* What a page on line is owed: nothing before the end; after it the word is on its way, or was
\* the last that came.
Owed(s, told) ==
  IF concluded THEN (told = 0 /\ LastWord(s)) \/ (told = 1 /\ s = <<>>)
  ELSE told = 0 /\ NoWord(s)

DeliveryTyped ==
  /\ chart \in [Team -> Nat] /\ chartSeen \in [Player -> Nat] /\ viewSeq \in [Player -> Nat]
  /\ wire \in [Player -> Seq(Message)] /\ pages \in [Player -> Page]

TellInv ==
  /\ DeliveryTyped
  /\ \A p \in Player :
       /\ p \in sockets => Owed(wire[p], pages[p].told)
       /\ p \notin sockets => wire[p] = <<>> /\ (~concluded => pages[p].told = 0)

\* Messages are messages, and only the results speak of the end.
LEMMA Messages ==
  /\ Setup \in Message /\ Setup.kind = "setup"
  /\ ResultsOut \in Message /\ ResultsOut.kind = "results"
  /\ \A n \in Nat, c \in SUBSET Nat : View(n, c) \in Message /\ View(n, c).kind = "view"
BY DEF Setup, ResultsOut, View, Message

\* A frame is a message, and moves the watermark on by what it carries (since, frameFor).
LEMMA FrameIsAMessage ==
  ASSUME DeliveryTyped, NEW p \in Player, NEW seen \in Nat
  PROVE  /\ frameFor(p, seen) \in Message /\ frameFor(p, seen).kind = "view"
         /\ SeenAfter(p, seen) \in Nat
<1> DEFINE cells == since(TeamPlayed[p], seen)
<1>1. /\ TeamPlayed[p] \in Team /\ chart[TeamPlayed[p]] \in Nat /\ maxChartCellsPerFrame \in Nat
      /\ viewSeq[p] + 1 \in Nat
  BY DeliveryAssumption DEF DeliveryTyped
<1>2. Least(chart[TeamPlayed[p]], seen + maxChartCellsPerFrame) \in Nat
  BY <1>1 DEF Least
<1>3. cells \in SUBSET Nat /\ IsFiniteSet(cells) /\ Cardinality(cells) \in Nat
  <2>1. seen + 1 \in Nat
    OBVIOUS
  <2>2. IsFiniteSet(cells) /\ cells \subseteq Nat
    BY <1>2, <2>1, FS_Interval DEF since
  <2> QED  BY <2>2, FS_CardinalityType
<1> HIDE DEF cells
<1>4. View(viewSeq[p] + 1, cells) \in Message /\ View(viewSeq[p] + 1, cells).kind = "view"
  BY <1>1, <1>3, Messages
<1>5. seen + Cardinality(cells) \in Nat
  BY <1>3
<1> QED  BY <1>4, <1>5 DEF frameFor, SeenAfter, cells

\* Wires as they grow and shrink.
LEMMA WiresGrow ==
  ASSUME NEW s \in Seq(Message), NEW m \in Message
  PROVE  /\ Append(s, m) \in Seq(Message)
         /\ NoWord(s) /\ m.kind # "results" => NoWord(Append(s, m))
         /\ NoWord(s) /\ m.kind = "results" => LastWord(Append(s, m))
BY DEF NoWord, LastWord

LEMMA WiresShrink ==
  ASSUME NEW s \in Seq(Message), s # <<>>
  PROVE  /\ Tail(s) \in Seq(Message) /\ Head(s) \in Message
         /\ NoWord(s) => Head(s).kind # "results" /\ NoWord(Tail(s))
         /\ LastWord(s) => \/ Head(s).kind # "results" /\ LastWord(Tail(s))
                           \/ Head(s).kind = "results" /\ Tail(s) = <<>>
<1>1. Len(s) \in Nat /\ Len(s) > 0 /\ Tail(s) \in Seq(Message) /\ Head(s) = s[1] /\ Head(s) \in Message
  OBVIOUS
<1>2. Len(Tail(s)) = Len(s) - 1 /\ \A i \in 1 .. Len(s) - 1 : Tail(s)[i] = s[i + 1]
  OBVIOUS
<1>3. NoWord(s) => Head(s).kind # "results" /\ NoWord(Tail(s))
  BY <1>1, <1>2 DEF NoWord
<1>4. ASSUME LastWord(s), Len(s) > 1
      PROVE  Head(s).kind # "results" /\ LastWord(Tail(s))
  <2>1. Tail(s)[Len(Tail(s))] = s[Len(s)]
    BY <1>1, <1>2, <1>4
  <2> QED  BY <1>1, <1>2, <1>4, <2>1 DEF LastWord
<1>5. ASSUME LastWord(s), Len(s) = 1
      PROVE  Head(s).kind = "results" /\ Tail(s) = <<>>
  <2>1. Len(Tail(s)) = 0 /\ Tail(s) \in Seq(Message)
    BY <1>1, <1>2, <1>5
  <2>2. Tail(s) = <<>>
    BY <2>1, EmptySeq
  <2>3. Head(s) = s[Len(s)] /\ s[Len(s)].kind = "results"
    BY <1>1, <1>5 DEF LastWord
  <2> QED  BY <2>2, <2>3
<1>6. Len(s) > 1 \/ Len(s) = 1
  <2> DEFINE n == Len(s)
  <2>1. n \in Nat /\ n > 0
    BY <1>1
  <2> HIDE DEF n
  <2>2. n > 1 \/ n = 1
    BY <2>1
  <2> QED  BY <2>2 DEF n
<1> QED  BY <1>1, <1>3, <1>4, <1>5, <1>6

\* A picture, alone and with the results after it (sendMatch).
LEMMA Pictures ==
  ASSUME NEW m \in Message, m.kind = "view"
  PROVE  /\ <<Setup, m>> \in Seq(Message) /\ NoWord(<<Setup, m>>)
         /\ <<Setup, m, ResultsOut>> \in Seq(Message) /\ LastWord(<<Setup, m, ResultsOut>>)
         /\ \A s \in Seq(Message) : s \o <<Setup, m>> = Append(Append(s, Setup), m)
         /\ <<Setup, m>> \o <<ResultsOut>> = <<Setup, m, ResultsOut>>
<1>0. Setup \in Message /\ ResultsOut \in Message /\ Setup.kind # "results" /\ ResultsOut.kind = "results"
  BY Messages
<1> HIDE DEF Setup, ResultsOut, Message
<1>1. /\ <<Setup, m>> \in Seq(Message) /\ NoWord(<<Setup, m>>)
      /\ <<Setup, m, ResultsOut>> \in Seq(Message) /\ LastWord(<<Setup, m, ResultsOut>>)
  BY <1>0 DEF NoWord, LastWord
<1>2. \A s \in Seq(Message) : s \o <<Setup, m>> = Append(Append(s, Setup), m)
  BY <1>0
<1>3. <<Setup, m>> \o <<ResultsOut>> = <<Setup, m, ResultsOut>>
  <2>1. <<Setup, m>> \o <<ResultsOut>> = Append(<<Setup, m>>, ResultsOut)
    BY <1>0, <1>1, AppendIsConcat
  <2>2. Append(<<Setup, m>>, ResultsOut) = <<Setup, m, ResultsOut>>
    <3> DEFINE s == Append(<<Setup, m>>, ResultsOut)
               t == <<Setup, m, ResultsOut>>
    <3>1. s \in Seq(Message) /\ t \in Seq(Message) /\ Len(s) = 3 /\ Len(t) = 3
      BY <1>0, <1>1
    <3>2. s[1] = t[1] /\ s[2] = t[2] /\ s[3] = t[3]
      BY <1>0, <1>1
    <3>3. \A i \in 1 .. Len(s) : s[i] = t[i]
      <4>1. \A i \in 1 .. 3 : i = 1 \/ i = 2 \/ i = 3
        OBVIOUS
      <4> HIDE DEF s, t
      <4> QED  BY <3>1, <3>2, <4>1
    <3> HIDE DEF s, t
    <3>4. s = t
      BY <3>1, <3>3, SeqEqual
    <3> QED  BY <3>4 DEF s, t
  <2> QED  BY <2>1, <2>2
<1> QED  BY <1>1, <1>2, <1>3

\* A page counts the results and nothing else.
LEMMA TakenTells ==
  ASSUME NEW page \in Page, NEW m \in Message
  PROVE  /\ Taken(page, m) \in Page
         /\ Taken(page, m).told = IF m.kind = "results" THEN page.told + 1 ELSE page.told
<1>1. page.told \in Nat /\ m.kind \in {"setup", "view", "results"} /\ m.seq \in Nat
  BY DEF Page, Message
<1>2. CASE m.kind = "setup"
  BY <1>1, <1>2 DEF Taken, Page
<1>3. CASE m.kind = "view" /\ page.seq >= m.seq
  BY <1>1, <1>3 DEF Taken, Page
<1>4. CASE m.kind = "view" /\ ~(page.seq >= m.seq)
  <2> DEFINE sq == IF page.picture THEN page.squares \cup m.cells ELSE page.squares
  <2>1. Taken(page, m) = [page EXCEPT !.seq = m.seq, !.squares = sq]
    BY <1>4 DEF Taken
  <2>2. sq \in SUBSET Nat
    BY DEF Page, Message
  <2> HIDE DEF sq
  <2> QED  BY <1>1, <1>4, <2>1, <2>2 DEF Page
<1>5. CASE m.kind = "results"
  <2>1. Taken(page, m) = [page EXCEPT !.told = page.told + 1]
    BY <1>5 DEF Taken
  <2> QED  BY <1>1, <1>5, <2>1 DEF Page
<1> QED  BY <1>1, <1>2, <1>3, <1>4, <1>5

\* What happens to one player's wire and page leaves everybody owed what they were owed.
LEMMA OneWire ==
  ASSUME TellInv, NEW p \in Player, NEW s \in Seq(Message), NEW page \in Page,
         wire' = [wire EXCEPT ![p] = s], pages' = [pages EXCEPT ![p] = page],
         UNCHANGED <<chart, concluded>>,
         chartSeen' \in [Player -> Nat], viewSeq' \in [Player -> Nat],
         sockets' \ {p} = sockets \ {p},
         p \in sockets' => Owed(s, page.told),
         p \notin sockets' => s = <<>> /\ (~concluded => page.told = 0)
  PROVE  TellInv'
<1>1. DeliveryTyped'
  BY DEF TellInv, DeliveryTyped
<1>2. ASSUME NEW q \in Player
      PROVE  /\ q \in sockets' => Owed(wire'[q], pages'[q].told)
             /\ q \notin sockets' => wire'[q] = <<>> /\ (~concluded => pages'[q].told = 0)
  <2>1. CASE q = p
    <3>1. wire'[q] = s /\ pages'[q] = page
      BY <2>1 DEF TellInv, DeliveryTyped
    <3> QED  BY <2>1, <3>1
  <2>2. CASE q # p
    <3>1. wire'[q] = wire[q] /\ pages'[q] = pages[q] /\ (q \in sockets' <=> q \in sockets)
      BY <2>2 DEF TellInv, DeliveryTyped
    <3> QED  BY <3>1 DEF TellInv
  <2> QED  BY <2>1, <2>2
<1>3. \A q \in Player : Owed(wire'[q], pages'[q].told) => Owed(wire[q], pages[q].told)'
  BY DEF Owed
<1> QED  BY <1>1, <1>2, <1>3 DEF TellInv

\* A new socket is sent what its player is owed, and its page starts the count again.
LEMMA AttachTells ==
  ASSUME TellInv, NEW p \in Player, NEW fresh \in BOOLEAN, attach(p, fresh)
  PROVE  TellInv'
<1> DEFINE m == frameFor(p, resetVision(p))
           s == IF concluded \/ p \in connected THEN <<Setup, m>> \o lastWord ELSE <<>>
           page == IF fresh THEN BlankPage ELSE [pages[p] EXCEPT !.told = 0]
<1>0. /\ DeliveryTyped /\ pages[p] \in Page /\ wire[p] \in Seq(Message)
      /\ viewSeq \in [Player -> Nat] /\ chartSeen \in [Player -> Nat]
  BY DEF TellInv, DeliveryTyped
<1>1. m \in Message /\ m.kind = "view" /\ SeenAfter(p, resetVision(p)) \in Nat
  BY <1>0, FrameIsAMessage DEF resetVision
<1>2. page \in Page /\ page.told = 0
  BY <1>0 DEF Page, BlankPage
<1>3. pages' = [pages EXCEPT ![p] = page]
  BY DEF attach
<1>4. wire' = [wire EXCEPT ![p] = s]
  <2>1. CASE concluded \/ p \in connected
    <3>1. wire' = [[wire EXCEPT ![p] = <<>>] EXCEPT ![p] = <<Setup, m>> \o lastWord]
      BY <2>1 DEF attach
    <3> DEFINE w == <<Setup, m>> \o lastWord
    <3> HIDE DEF w
    <3>2. [[wire EXCEPT ![p] = <<>>] EXCEPT ![p] = w] = [wire EXCEPT ![p] = w]
      BY DEF TellInv, DeliveryTyped
    <3> QED  BY <2>1, <3>1, <3>2 DEF w
  <2>2. CASE ~(concluded \/ p \in connected)
    BY <2>2 DEF attach
  <2> QED  BY <2>1, <2>2
<1>5. /\ UNCHANGED <<chart, concluded>> /\ sockets' = sockets \cup {p}
      /\ chartSeen' \in [Player -> Nat] /\ viewSeq' \in [Player -> Nat]
  <2>1. UNCHANGED <<chart, concluded>> /\ sockets' = sockets \cup {p}
    BY Zenon DEF attach
  <2>2. \/ UNCHANGED <<viewSeq, chartSeen>>
        \/ /\ viewSeq' = [viewSeq EXCEPT ![p] = @ + 1]
           /\ chartSeen' = [chartSeen EXCEPT ![p] = SeenAfter(p, resetVision(p))]
    BY Zenon DEF attach
  <2> HIDE DEF m
  <2>3. CASE UNCHANGED <<viewSeq, chartSeen>>
    BY <1>0, <2>1, <2>3
  <2>4. CASE /\ viewSeq' = [viewSeq EXCEPT ![p] = @ + 1]
             /\ chartSeen' = [chartSeen EXCEPT ![p] = SeenAfter(p, resetVision(p))]
    BY <1>0, <1>1, <2>1, <2>4
  <2> QED  BY <2>2, <2>3, <2>4
<1> HIDE DEF m, page
<1>6. s \in Seq(Message) /\ Owed(s, 0)
  <2>1. CASE concluded
    <3>1. s = <<Setup, m, ResultsOut>>
      <4>1. s = <<Setup, m>> \o <<ResultsOut>>
        BY <2>1 DEF lastWord
      <4> QED  BY <1>1, <4>1, Pictures
    <3> QED  BY <1>1, <2>1, <3>1, Pictures DEF Owed
  <2>2. CASE ~concluded /\ p \in connected
    <3>1. s = <<Setup, m>>
      BY <2>2 DEF lastWord
    <3> QED  BY <1>1, <2>2, <3>1, Pictures DEF Owed
  <2>3. CASE ~concluded /\ p \notin connected
    BY <2>3 DEF Owed, NoWord
  <2> QED  BY <2>1, <2>2, <2>3
<1> HIDE DEF s
<1> QED  BY <1>2, <1>3, <1>4, <1>5, <1>6, OneWire

\* The other things a player does: a socket that closes takes its wire with it; a page that leaves
\* keeps its count; a rejoin is answered before the end only; and a page takes what comes.
LEMMA PlayerTells ==
  ASSUME TellInv, NEW p \in Player,
         detach(p) \/ pressLeave(p) \/ pressRejoin(p) \/ departed(p) \/ rejoin(p) \/ receive(p)
  PROVE  TellInv'
<1>0. /\ DeliveryTyped /\ pages[p] \in Page /\ wire[p] \in Seq(Message)
      /\ viewSeq \in [Player -> Nat] /\ chartSeen \in [Player -> Nat]
      /\ wire = [wire EXCEPT ![p] = wire[p]] /\ pages = [pages EXCEPT ![p] = pages[p]]
      /\ p \in sockets => Owed(wire[p], pages[p].told)
      /\ p \notin sockets => wire[p] = <<>> /\ (~concluded => pages[p].told = 0)
  BY DEF TellInv, DeliveryTyped
<1>1. CASE detach(p)
  <2>1. ~concluded => pages[p].told = 0
    BY <1>0, <1>1 DEF detach, Owed
  <2>2. /\ wire' = [wire EXCEPT ![p] = <<>>] /\ pages' = [pages EXCEPT ![p] = pages[p]]
        /\ UNCHANGED <<chart, concluded>>
        /\ chartSeen' \in [Player -> Nat] /\ viewSeq' \in [Player -> Nat]
        /\ sockets' \ {p} = sockets \ {p} /\ p \notin sockets'
    BY <1>0, <1>1 DEF detach
  <2>3. <<>> \in Seq(Message)
    OBVIOUS
  <2> QED  BY <1>0, <2>1, <2>2, <2>3, OneWire
<1>2. CASE pressLeave(p)
  <2> DEFINE page == [BlankPage EXCEPT !.told = pages[p].told]
  <2>1. page \in Page /\ page.told = pages[p].told
    BY <1>0 DEF Page, BlankPage
  <2>2. /\ wire' = [wire EXCEPT ![p] = wire[p]] /\ pages' = [pages EXCEPT ![p] = page]
        /\ UNCHANGED <<chart, concluded>>
        /\ chartSeen' \in [Player -> Nat] /\ viewSeq' \in [Player -> Nat]
        /\ sockets' = sockets
    BY <1>0, <1>2 DEF pressLeave
  <2> HIDE DEF page
  <2> QED  BY <1>0, <2>1, <2>2, OneWire
<1>3. CASE pressRejoin(p) \/ departed(p) \/ (rejoin(p) /\ concluded)
  <2>1. UNCHANGED <<chart, concluded, chartSeen, viewSeq, wire, pages, sockets>>
    BY <1>3 DEF pressRejoin, departed, rejoin, Request
  <2> QED  BY <2>1 DEF TellInv, DeliveryTyped, Owed
<1>4. CASE rejoin(p) /\ ~concluded
  <2> DEFINE m == frameFor(p, resetVision(p))
             s == wire[p] \o <<Setup, m>> \o <<>>
             t == Append(Append(wire[p], Setup), m)
  <2>1. p \in sockets /\ ~concluded /\ NoWord(wire[p]) /\ pages[p].told = 0
    BY <1>0, <1>4 DEF rejoin, Request, Owed
  <2>2. m \in Message /\ m.kind = "view" /\ SeenAfter(p, resetVision(p)) \in Nat
    BY <1>0, FrameIsAMessage DEF resetVision
  <2>3. s = t
    <3> HIDE DEF m
    <3>1. wire[p] \o <<Setup, m>> = t
      BY <1>0, <2>2, Pictures
    <3>2. t \in Seq(Message)
      BY <1>0, <2>2, Messages, WiresGrow
    <3> HIDE DEF t
    <3> QED  BY <3>1, <3>2
  <2>4. t \in Seq(Message) /\ NoWord(t)
    <3> HIDE DEF m
    <3>1. Append(wire[p], Setup) \in Seq(Message) /\ NoWord(Append(wire[p], Setup))
      BY <1>0, <2>1, Messages, WiresGrow
    <3> QED  BY <2>2, <3>1, WiresGrow
  <2>5. /\ wire' = [wire EXCEPT ![p] = s] /\ pages' = [pages EXCEPT ![p] = pages[p]]
        /\ UNCHANGED <<chart, concluded, sockets>>
        /\ chartSeen' \in [Player -> Nat] /\ viewSeq' \in [Player -> Nat]
    <3>1. /\ wire' = [wire EXCEPT ![p] = s] /\ UNCHANGED <<chart, concluded, sockets, pages>>
          /\ viewSeq' = [viewSeq EXCEPT ![p] = @ + 1]
          /\ chartSeen' = [chartSeen EXCEPT ![p] = SeenAfter(p, resetVision(p))]
      BY <1>4 DEF rejoin, Request, sendMatch
    <3> HIDE DEF s
    <3> QED  BY <1>0, <2>2, <3>1
  <2> HIDE DEF s, t
  <2>6. Owed(t, pages[p].told)
    BY <2>1, <2>4 DEF Owed
  <2> QED  BY <1>0, <2>1, <2>3, <2>4, <2>5, <2>6, OneWire
<1>5. CASE receive(p)
  <2> DEFINE page == Taken(pages[p], Head(wire[p]))
  <2>1. wire[p] # <<>> /\ p \in sockets
    BY <1>0, <1>5 DEF receive
  <2>2. /\ Tail(wire[p]) \in Seq(Message) /\ Head(wire[p]) \in Message
        /\ NoWord(wire[p]) => Head(wire[p]).kind # "results" /\ NoWord(Tail(wire[p]))
        /\ LastWord(wire[p]) => \/ Head(wire[p]).kind # "results" /\ LastWord(Tail(wire[p]))
                                \/ Head(wire[p]).kind = "results" /\ Tail(wire[p]) = <<>>
    BY <1>0, <2>1, WiresShrink
  <2>3. /\ page \in Page
        /\ page.told = IF Head(wire[p]).kind = "results" THEN pages[p].told + 1 ELSE pages[p].told
    BY <1>0, <2>2, TakenTells
  <2> HIDE DEF page
  <2>4. Owed(Tail(wire[p]), page.told)
    BY <1>0, <2>1, <2>2, <2>3 DEF Owed
  <2>5. /\ wire' = [wire EXCEPT ![p] = Tail(wire[p])] /\ pages' = [pages EXCEPT ![p] = page]
        /\ UNCHANGED <<chart, concluded, sockets>>
        /\ chartSeen' \in [Player -> Nat] /\ viewSeq' \in [Player -> Nat]
    BY <1>0, <1>5 DEF receive, page
  <2> QED  BY <2>1, <2>2, <2>3, <2>4, <2>5, OneWire
<1> QED  BY <1>1, <1>2, <1>3, <1>4, <1>5

\* A step of the clock sends frames before the end and with it the word, to every socket there is,
\* or nothing where it threw (announce, ClockSends).
LEMMA ClockTells ==
  ASSUME TellInv, ~concluded, NEW due \in BOOLEAN, NEW thrown \in BOOLEAN, NEW over \in BOOLEAN,
         chart' \in [Team -> Nat], ClockSends(due, thrown, over)
  PROVE  TellInv'
<1> DEFINE to == IF due /\ ~thrown THEN connected \cap sockets ELSE {}
           ends == over /\ ~thrown
           sent == Published(to)
<1>0. /\ DeliveryTyped /\ to \subseteq sockets
      /\ wire \in [Player -> Seq(Message)] /\ chartSeen \in [Player -> Nat]
      /\ viewSeq \in [Player -> Nat]
      /\ \A p \in Player : p \in sockets => NoWord(wire[p]) /\ pages[p].told = 0
      /\ \A p \in Player : p \notin sockets => wire[p] = <<>> /\ pages[p].told = 0
  BY DEF TellInv, DeliveryTyped, Owed
<1>1. /\ wire' = announce(to, ends) /\ publish(to)
      /\ concluded' = ends
      /\ UNCHANGED <<connected, sockets, requests, pages>>
  BY Zenon DEF ClockSends
<1> HIDE DEF to, ends
<1>2. ASSUME NEW p \in Player
      PROVE  /\ sent[p] \in Seq(Message)
             /\ p \in sockets => NoWord(sent[p])
             /\ p \notin sockets => sent[p] = <<>>
  <2> DEFINE m == frameFor(p, chartSeen[p])
  <2>1. m \in Message /\ m.kind = "view"
    BY <1>0, FrameIsAMessage
  <2>2. sent[p] = IF p \in to THEN Append(wire[p], m) ELSE wire[p]
    BY DEF Published
  <2> HIDE DEF m, sent
  <2>3. CASE p \in to
    BY <1>0, <2>1, <2>2, <2>3, WiresGrow
  <2>4. CASE p \notin to
    BY <1>0, <2>2, <2>4
  <2> QED  BY <2>3, <2>4
<1>3. ASSUME NEW p \in Player
      PROVE  /\ wire'[p] \in Seq(Message)
             /\ p \in sockets => IF ends THEN LastWord(wire'[p]) ELSE NoWord(wire'[p])
             /\ p \notin sockets => wire'[p] = <<>>
  <2>1. wire'[p] = IF ends /\ p \in sockets THEN Append(sent[p], ResultsOut) ELSE sent[p]
    BY <1>1 DEF announce, Told, Published
  <2> HIDE DEF sent
  <2>2. Append(sent[p], ResultsOut) \in Seq(Message)
    BY <1>2, Messages, WiresGrow
  <2>3. p \in sockets => LastWord(Append(sent[p], ResultsOut))
    BY <1>2, Messages, WiresGrow
  <2> QED  BY <1>2, <2>1, <2>2, <2>3
<1>4. DeliveryTyped'
  <2>1. wire' = [p \in Player |-> wire'[p]]
    BY <1>1 DEF announce, Told, Published
  <2>2. wire' \in [Player -> Seq(Message)]
    BY <1>3, <2>1
  <2>3. \A p \in Player : SeenAfter(p, chartSeen[p]) \in Nat
    BY <1>0, FrameIsAMessage
  <2>4. viewSeq' \in [Player -> Nat] /\ chartSeen' \in [Player -> Nat]
    BY <1>0, <1>1, <2>3 DEF publish
  <2> QED  BY <1>0, <1>1, <2>2, <2>4 DEF DeliveryTyped
<1>5. \A p \in Player : /\ p \in sockets' => Owed(wire[p], pages[p].told)'
                        /\ p \notin sockets' => wire'[p] = <<>> /\ pages'[p].told = 0
  BY <1>0, <1>1, <1>3 DEF Owed
<1> QED  BY <1>4, <1>5 DEF TellInv

\* Every step of a match keeps every page owed what it is owed.
LEMMA TellInvKept ==
  ASSUME TellInv, scene \in Scenes, [Next]_vars
  PROVE  TellInv'
<1>1. UNCHANGED deliveryVars => TellInv'
  BY DEF deliveryVars, TellInv, DeliveryTyped, Owed
<1>2. ASSUME NEW b \in Boat
      PROVE  /\ \A wanted \in SUBSET Tubes(b) : fire(b, wanted) => TellInv'
             /\ \A i \in Tubes(b), w \in Fits[b], swap \in BOOLEAN : reload(b, i, w, swap) => TellInv'
             /\ dropNoisemaker(b) => TellInv'
             /\ \A on \in BOOLEAN : switchSonar(b, on) => TellInv'
  BY <1>1 DEF fire, reload, dropNoisemaker, switchSonar
<1>3. ASSUME step
      PROVE  TellInv'
  <2>1. CASE results # None
    <3>1. ~concluded /\ chart' = chart /\ ClockSends(FALSE, FALSE, TRUE)
      BY <1>3, <2>1 DEF step
    <3>2. chart' \in [Team -> Nat]
      BY <3>1 DEF TellInv, DeliveryTyped
    <3> QED  BY <3>1, <3>2, ClockTells
  <2>2. CASE results = None
    <3> DEFINE solves == (tick + 1) % TICKS_PER_SOLVE = 0
    <3>1. PICK fault : /\ Ticked(tick + 1, fault = "solve")
                       /\ ClockSends(solves \/ results' # None, fault # "none", results' # None)
      BY <1>3, <2>2, Zenon DEF step
    <3>2. chart' \in [Team -> Nat]
      <4>1. PICK grown \in 0 .. Least(2, scene.chart) :
              chart' = [t \in Team |-> IF chart[t] + grown <= scene.chart THEN chart[t] + grown
                                       ELSE chart[t]]
        BY <3>1 DEF Ticked
      <4>2. scene.chart \in Nat
        BY MatchAssumption DEF Scene
      <4>3. grown \in Nat
        BY <4>2 DEF Least
      <4>4. \A t \in Team : chart[t] \in Nat
        BY DEF TellInv, DeliveryTyped
      <4> QED  BY <4>1, <4>3, <4>4
    <3>3. ~concluded
      BY <1>3 DEF step
    <3> DEFINE d == solves \/ results' # None
               f == fault # "none"
               o == results' # None
    <3>4. d \in BOOLEAN /\ f \in BOOLEAN /\ o \in BOOLEAN /\ ClockSends(d, f, o)
      BY <3>1
    <3> HIDE DEF d, f, o
    <3> QED  BY <3>2, <3>3, <3>4, ClockTells
  <2> QED  BY <2>1, <2>2
<1>4. ASSUME NEW p \in Player, playerMoves(p) \/ playerActs(p)
      PROVE  TellInv'
  <2>1. \/ \E fresh \in BOOLEAN : attach(p, fresh)
        \/ detach(p) \/ pressLeave(p) \/ pressRejoin(p) \/ departed(p) \/ rejoin(p) \/ receive(p)
    BY <1>4 DEF playerMoves, playerActs
  <2> QED  BY <2>1, AttachTells, PlayerTells
<1>5. UNCHANGED vars => TellInv'
  BY <1>1 DEF vars
<1> QED  BY <1>2, <1>3, <1>4, <1>5 DEF Next

\* Everybody is owed what they are owed throughout.
LEMMA TellInvAlways == Spec => []TellInv
<1>1. Init => TellInv
  <2>1. ASSUME NEW there \in SUBSET Player, InitDelivery(there)
        PROVE  TellInv
    <3>1. View(1, {}) \in Message /\ View(1, {}).kind = "view"
      <4>1. 1 \in Nat /\ {} \in SUBSET Nat
        OBVIOUS
      <4> QED  BY <4>1, Messages
    <3>2. <<Setup, View(1, {})>> \in Seq(Message) /\ NoWord(<<Setup, View(1, {})>>)
      BY <3>1, Pictures
    <3>3. BlankPage \in Page /\ BlankPage.told = 0 /\ <<>> \in Seq(Message)
      BY DEF BlankPage, Page
    <3> QED  BY <2>1, <3>2, <3>3 DEF InitDelivery, TellInv, DeliveryTyped, Owed
  <2>2. Init => scene.movers \subseteq Player
    BY MatchAssumption DEF Init, Scene
  <2> QED  BY <2>1, <2>2 DEF Init
<1>2. TellInv /\ scene \in Scenes /\ [Next]_vars => TellInv'
  BY TellInvKept
<1> QED  BY <1>1, <1>2, SceneKept, PTL DEF Spec

\* The end of a match reaches every page that is on line, once over whichever socket it has by
\* then, and it is the last thing they hear of it: whatever the clock throws, and whoever leaves,
\* comes back or replaces a tab around the end (concludeMatch, attach, runMatchEvents).
THEOREM TheOutcomeIsTold == Spec => []OutcomeIsTold
<1>1. TellInv => OutcomeIsTold
  <2>1. ASSUME TellInv, concluded, NEW p \in Player, p \in sockets, wire[p] = <<>>
        PROVE  pages[p].told = 1
    <3>1. ~LastWord(<<>>)
      BY DEF LastWord
    <3> QED  BY <2>1, <3>1 DEF TellInv, Owed
  <2>2. ASSUME TellInv, NEW p \in Player, pages[p].told > 0
        PROVE  wire[p] = <<>>
    BY <2>2 DEF TellInv, Owed
  <2>3. ASSUME TellInv, NEW p \in Player, NEW i \in DOMAIN wire[p], wire[p][i].kind = "results"
        PROVE  i = Len(wire[p])
    <3>1. /\ DOMAIN wire[p] = 1 .. Len(wire[p]) /\ Len(wire[p]) \in Nat
      BY <2>3 DEF TellInv, DeliveryTyped
    <3>2. NoWord(wire[p]) \/ LastWord(wire[p]) \/ wire[p] = <<>>
      BY <2>3 DEF TellInv, Owed
    <3> QED  BY <2>3, <3>1, <3>2 DEF NoWord, LastWord
  <2>4. TellInv => EveryPageIsTold
    BY <2>1 DEF EveryPageIsTold
  <2>5. TellInv => ResultsComeLast
    BY <2>2, <2>3 DEF ResultsComeLast
  <2> QED  BY <2>4, <2>5 DEF OutcomeIsTold
<1> QED  BY <1>1, TellInvAlways, PTL
---------------------------------------------------------------------------
(* The chart a page has.                                                   *)

\* The squares a wire brings after its k-th message, and whether no setup is among them.
From(s, k) == UNION {s[i].cells : i \in (k + 1) .. Len(s)}
NoSetupAfter(s, k) == \A i \in (k + 1) .. Len(s) : s[i].kind # "setup"

\* The last picture a wire starts, or the page's own if it starts none, comes to the chart up to
\* the watermark once everything after it has been taken.
Starts(s, page, k) == IF k = 0 THEN page.picture ELSE s[k].kind = "setup"
Charted(s, page, seen) ==
  \A k \in 0 .. Len(s) :
    NoSetupAfter(s, k) /\ Starts(s, page, k) =>
      (IF k = 0 THEN page.squares ELSE {}) \cup From(s, k) = 1 .. seen

\* The frames on a wire are ahead of the page, in the order they were built; only frames bring
\* squares.
Abreast(s, page, built) ==
  /\ page.seq <= built
  /\ \A i \in 1 .. Len(s) :
       IF s[i].kind = "view"
       THEN /\ page.seq < s[i].seq /\ s[i].seq <= built
            /\ \A j \in 1 .. Len(s) : j < i /\ s[j].kind = "view" => s[j].seq < s[i].seq
       ELSE s[i].cells = {}

ChartInv ==
  \A p \in Player :
    /\ Abreast(wire[p], pages[p], viewSeq[p])
    /\ p \in connected /\ p \in sockets => Charted(wire[p], pages[p], chartSeen[p])

\* A frame carries exactly the squares between two watermarks (since).
LEMMA FrameBringsTheDifference ==
  ASSUME DeliveryTyped, NEW p \in Player, NEW seen \in Nat
  PROVE  (1 .. seen) \cup since(TeamPlayed[p], seen) = 1 .. SeenAfter(p, seen)
<1> DEFINE top == Least(chart[TeamPlayed[p]], seen + maxChartCellsPerFrame)
<1>1. /\ TeamPlayed[p] \in Team /\ chart[TeamPlayed[p]] \in Nat /\ maxChartCellsPerFrame \in Nat
  BY DeliveryAssumption DEF DeliveryTyped
<1>2. top \in Nat
  BY <1>1 DEF Least
<1> HIDE DEF top
<1>3. Cardinality((seen + 1) .. top) = IF seen + 1 > top THEN 0 ELSE top - (seen + 1) + 1
  BY <1>2, FS_Interval
<1>4. since(TeamPlayed[p], seen) = (seen + 1) .. top
  BY DEF since, top
<1>5. SeenAfter(p, seen) = IF seen + 1 > top THEN seen ELSE top
  BY <1>2, <1>3, <1>4 DEF SeenAfter
<1> HIDE DEF since
<1>6. CASE seen + 1 > top
  <2>1. (seen + 1) .. top = {}
    BY <1>2, <1>6
  <2> QED  BY <1>4, <1>5, <1>6, <2>1
<1>7. CASE ~(seen + 1 > top)
  <2>1. (1 .. seen) \cup ((seen + 1) .. top) = 1 .. top
    BY <1>2, <1>7
  <2> QED  BY <1>4, <1>5, <1>7, <2>1
<1> QED  BY <1>6, <1>7

\* What one more message makes of a wire.
LEMMA OneMore ==
  ASSUME NEW s \in Seq(Message), NEW m \in Message
  PROVE  LET t == Append(s, m)
         IN /\ t \in Seq(Message) /\ Len(s) \in Nat /\ Len(t) = Len(s) + 1
            /\ \A i \in 1 .. Len(s) : t[i] = s[i]
            /\ t[Len(s) + 1] = m
            /\ \A k \in 0 .. Len(s) : From(t, k) = From(s, k) \cup m.cells
            /\ From(t, Len(s) + 1) = {}
            /\ \A k \in 0 .. Len(s) :
                 NoSetupAfter(t, k) <=> NoSetupAfter(s, k) /\ m.kind # "setup"
            /\ NoSetupAfter(t, Len(s) + 1)
            /\ \A page : \A k \in 0 .. Len(s) : Starts(t, page, k) <=> Starts(s, page, k)
            /\ \A page : Starts(t, page, Len(s) + 1) <=> m.kind = "setup"
<1> DEFINE t == Append(s, m)
           n == Len(s)
<1>1. /\ t \in Seq(Message) /\ n \in Nat /\ Len(t) = n + 1
      /\ \A i \in 1 .. n : t[i] = s[i]
      /\ t[n + 1] = m
  OBVIOUS
<1> HIDE DEF t
<1>2. ASSUME NEW k \in 0 .. n
      PROVE  /\ From(t, k) = From(s, k) \cup m.cells
             /\ NoSetupAfter(t, k) <=> NoSetupAfter(s, k) /\ m.kind # "setup"
             /\ \A page : Starts(t, page, k) <=> Starts(s, page, k)
  <2>1. (k + 1) .. (n + 1) = ((k + 1) .. n) \cup {n + 1}
    BY <1>1
  <2>2. \A i \in (k + 1) .. n : i \in 1 .. n
    BY <1>1
  <2>3. k # 0 => k \in 1 .. n
    BY <1>1
  <2> HIDE DEF n
  <2>4. From(t, k) = From(s, k) \cup m.cells
    <3>1. From(t, k) = UNION {t[i].cells : i \in ((k + 1) .. n) \cup {n + 1}}
      BY <1>1, <2>1 DEF From
    <3>2. From(s, k) = UNION {s[i].cells : i \in (k + 1) .. n}
      BY DEF From, n
    <3>3. \A i \in (k + 1) .. n : t[i] = s[i]
      BY <1>1, <2>2
    <3> QED  BY <1>1, <3>1, <3>2, <3>3, Zenon
  <2>5. NoSetupAfter(t, k) <=> NoSetupAfter(s, k) /\ m.kind # "setup"
    <3>1. NoSetupAfter(t, k) <=> \A i \in ((k + 1) .. n) \cup {n + 1} : t[i].kind # "setup"
      BY <1>1, <2>1 DEF NoSetupAfter
    <3>2. NoSetupAfter(s, k) <=> \A i \in (k + 1) .. n : s[i].kind # "setup"
      BY DEF NoSetupAfter, n
    <3>3. \A i \in (k + 1) .. n : t[i] = s[i]
      BY <1>1, <2>2
    <3> QED  BY <1>1, <3>1, <3>2, <3>3, Zenon
  <2>6. \A page : Starts(t, page, k) <=> Starts(s, page, k)
    BY <1>1, <2>3 DEF Starts
  <2> QED  BY <2>4, <2>5, <2>6
<1>3. From(t, n + 1) = {} /\ NoSetupAfter(t, n + 1)
  <2>1. (n + 1 + 1) .. (n + 1) = {}
    BY <1>1
  <2>2. From(t, n + 1) = UNION {t[i].cells : i \in {}}
    BY <1>1, <2>1 DEF From
  <2> QED  BY <1>1, <2>1, <2>2 DEF NoSetupAfter
<1>4. \A page : Starts(t, page, n + 1) <=> m.kind = "setup"
  <2>1. n + 1 # 0
    BY <1>1
  <2> QED  BY <1>1, <2>1 DEF Starts
<1> QED  BY <1>1, <1>2, <1>3, <1>4 DEF t

\* A setup starts a picture with nothing in it, and puts off what the page had.
LEMMA SetupStarts ==
  ASSUME NEW s \in Seq(Message), NEW page \in Page, NEW built \in Nat, Abreast(s, page, built)
  PROVE  Abreast(Append(s, Setup), page, built) /\ Charted(Append(s, Setup), page, 0)
<1> DEFINE t == Append(s, Setup)
           n == Len(s)
<1>1. Setup \in Message /\ Setup.kind = "setup" /\ Setup.cells = {}
  BY Messages DEF Setup
<1> HIDE DEF Setup
<1>2. /\ n \in Nat /\ Len(t) = n + 1 /\ \A i \in 1 .. n : t[i] = s[i]
      /\ t[n + 1] = Setup
      /\ From(t, n + 1) = {}
      /\ \A k \in 0 .. n : ~NoSetupAfter(t, k)
  BY <1>1, OneMore
<1> HIDE DEF t, n
<1>3. Abreast(t, page, built)
  <2>1. \A i \in 1 .. n + 1 : i \in 1 .. n \/ i = n + 1
    BY <1>2
  <2>2. \A i \in 1 .. n : \/ s[i].kind = "view" /\ t[i].kind = "view"
                          \/ s[i].kind # "view" /\ t[i].kind # "view"
    BY <1>2
  <2>3. t[n + 1].kind # "view" /\ t[n + 1].cells = {}
    BY <1>1, <1>2
  <2> QED  BY <1>2, <2>1, <2>3 DEF Abreast, n
<1>4. Charted(t, page, 0)
  <2>1. \A k \in 0 .. n + 1 : k \in 0 .. n \/ k = n + 1
    BY <1>2
  <2>2. n + 1 # 0 /\ 1 .. 0 = {}
    BY <1>2
  <2> QED  BY <1>2, <2>1, <2>2 DEF Charted
<1> QED  BY <1>3, <1>4 DEF t

\* A frame brings the picture it belongs to up to its watermark, and is the newest.
LEMMA FrameContinues ==
  ASSUME DeliveryTyped, NEW p \in Player, NEW seen \in Nat,
         NEW s \in Seq(Message), NEW page \in Page, Abreast(s, page, viewSeq[p])
  PROVE  LET t == Append(s, frameFor(p, seen))
         IN /\ Abreast(t, page, viewSeq[p] + 1)
            /\ Charted(s, page, seen) => Charted(t, page, SeenAfter(p, seen))
<1> DEFINE m == frameFor(p, seen)
           t == Append(s, m)
           n == Len(s)
<1>1. /\ m \in Message /\ m.kind = "view" /\ m.seq = viewSeq[p] + 1
      /\ m.cells = since(TeamPlayed[p], seen)
      /\ viewSeq[p] \in Nat /\ page.seq \in Nat
  BY FrameIsAMessage DEF frameFor, View, DeliveryTyped, Page
<1> HIDE DEF m
<1>2. /\ n \in Nat /\ Len(t) = n + 1 /\ \A i \in 1 .. n : t[i] = s[i]
      /\ t[n + 1] = m
      /\ \A k \in 0 .. n : /\ From(t, k) = From(s, k) \cup m.cells
                           /\ NoSetupAfter(t, k) => NoSetupAfter(s, k)
                           /\ Starts(t, page, k) => Starts(s, page, k)
      /\ ~Starts(t, page, n + 1)
  BY <1>1, OneMore
<1>3. \A i \in 1 .. n : s[i].kind \in {"setup", "view", "results"} /\ s[i].seq \in Nat
  <2>1. \A i \in 1 .. n : s[i] \in Message
    OBVIOUS
  <2> QED  BY <2>1 DEF Message
<1> HIDE DEF t, n
<1>4. Abreast(t, page, viewSeq[p] + 1)
  <2>1. \A i \in 1 .. n + 1 : i \in 1 .. n \/ i = n + 1
    BY <1>2
  <2>2. \A i \in 1 .. n : s[i].kind = "view" =>
           /\ page.seq < s[i].seq /\ s[i].seq <= viewSeq[p]
           /\ \A j \in 1 .. n : j < i /\ s[j].kind = "view" => s[j].seq < s[i].seq
    BY DEF Abreast, n
  <2>3. \A i \in 1 .. n : s[i].kind # "view" => s[i].cells = {}
    BY DEF Abreast, n
  <2>4. page.seq <= viewSeq[p]
    BY DEF Abreast
  <2>5. ASSUME NEW i \in 1 .. n + 1, t[i].kind = "view"
        PROVE  /\ page.seq < t[i].seq /\ t[i].seq <= viewSeq[p] + 1
               /\ \A j \in 1 .. n + 1 : j < i /\ t[j].kind = "view" => t[j].seq < t[i].seq
    <3>1. CASE i \in 1 .. n
      <4>1. \A j \in 1 .. n + 1 : j < i => j \in 1 .. n
        BY <1>2, <3>1
      <4> QED  BY <1>1, <1>2, <1>3, <2>2, <2>5, <3>1, <4>1
    <3>2. CASE i = n + 1
      <4>1. \A j \in 1 .. n + 1 : j < i => j \in 1 .. n
        BY <1>2, <3>2
      <4> QED  BY <1>1, <1>2, <1>3, <2>2, <2>4, <2>5, <3>2, <4>1
    <3> QED  BY <2>1, <3>1, <3>2
  <2>6. ASSUME NEW i \in 1 .. n + 1, t[i].kind # "view"
        PROVE  t[i].cells = {}
    BY <1>1, <1>2, <2>1, <2>3, <2>6
  <2>7. page.seq <= viewSeq[p] + 1
    BY <1>1, <2>4
  <2> QED  BY <1>2, <2>5, <2>6, <2>7 DEF Abreast
<1>5. ASSUME Charted(s, page, seen)
      PROVE  Charted(t, page, SeenAfter(p, seen))
  <2> SUFFICES ASSUME NEW k \in 0 .. n + 1, NoSetupAfter(t, k), Starts(t, page, k)
               PROVE  (IF k = 0 THEN page.squares ELSE {}) \cup From(t, k)
                        = 1 .. SeenAfter(p, seen)
    BY <1>2 DEF Charted
  <2>1. k \in 0 .. n
    <3>1. k # n + 1
      BY <1>2
    <3> QED  BY <1>2, <3>1
  <2>2. (IF k = 0 THEN page.squares ELSE {}) \cup From(s, k) = 1 .. seen
    BY <1>2, <1>5, <2>1 DEF Charted, n
  <2>3. From(t, k) = From(s, k) \cup since(TeamPlayed[p], seen)
    BY <1>1, <1>2, <2>1
  <2>4. (1 .. seen) \cup since(TeamPlayed[p], seen) = 1 .. SeenAfter(p, seen)
    BY FrameBringsTheDifference
  <2> DEFINE held == IF k = 0 THEN page.squares ELSE {}
             more == since(TeamPlayed[p], seen)
  <2>5. held \cup From(t, k) = (held \cup From(s, k)) \cup more
    BY <2>3
  <2> QED  BY <2>2, <2>4, <2>5
<1> QED  BY <1>4, <1>5 DEF t, m

\* The results bring nothing.
LEMMA ResultsBringNothing ==
  ASSUME NEW s \in Seq(Message), NEW page \in Page, NEW built \in Nat, NEW seen \in Nat,
         Abreast(s, page, built)
  PROVE  LET t == Append(s, ResultsOut)
         IN Abreast(t, page, built) /\ (Charted(s, page, seen) => Charted(t, page, seen))
<1> DEFINE m == ResultsOut
           t == Append(s, m)
           n == Len(s)
<1>0. m \in Message
  BY Messages
<1>1. m.kind = "results" /\ m.cells = {}
  BY Messages DEF ResultsOut
<1> HIDE DEF m
<1>2. /\ n \in Nat /\ Len(t) = n + 1 /\ \A i \in 1 .. n : t[i] = s[i]
      /\ t[n + 1] = m
      /\ \A k \in 0 .. n : /\ From(t, k) = From(s, k) \cup m.cells
                           /\ NoSetupAfter(t, k) => NoSetupAfter(s, k)
                           /\ Starts(t, page, k) => Starts(s, page, k)
      /\ ~Starts(t, page, n + 1)
  <2>1. /\ n \in Nat /\ Len(t) = n + 1 /\ \A i \in 1 .. n : t[i] = s[i]
        /\ t[n + 1] = m
        /\ \A k \in 0 .. n : From(t, k) = From(s, k) \cup m.cells
        /\ \A k \in 0 .. n : NoSetupAfter(t, k) => NoSetupAfter(s, k)
    BY <1>0, OneMore
  <2>2. /\ \A k \in 0 .. n : Starts(t, page, k) <=> Starts(s, page, k)
        /\ Starts(t, page, n + 1) <=> m.kind = "setup"
    <3>1. /\ \A any : \A k \in 0 .. n : Starts(t, any, k) <=> Starts(s, any, k)
          /\ \A any : Starts(t, any, n + 1) <=> m.kind = "setup"
      BY <1>0, OneMore, Zenon
    <3> HIDE DEF t, n
    <3> QED  BY <3>1
  <2>3. m.kind # "setup"
    BY <1>1
  <2> HIDE DEF t, n
  <2> QED  BY <2>1, <2>2, <2>3
<1> HIDE DEF t, n
<1>3. \A i \in 1 .. n + 1 : i \in 1 .. n \/ i = n + 1
  BY <1>2
<1>4. Abreast(t, page, built)
  <2>1. t[n + 1].kind # "view" /\ t[n + 1].cells = {}
    BY <1>1, <1>2
  <2> QED  BY <1>2, <1>3, <2>1 DEF Abreast, n
<1>5. ASSUME Charted(s, page, seen)
      PROVE  Charted(t, page, seen)
  <2>1. \A k \in 0 .. n + 1 : k \in 0 .. n \/ k = n + 1
    BY <1>2
  <2>2. \A k \in 0 .. n : From(t, k) = From(s, k)
    BY <1>1, <1>2
  <2> QED  BY <1>2, <1>5, <2>1, <2>2 DEF Charted, n
<1> QED  BY <1>4, <1>5 DEF t, m

\* A page that takes a message has what the wire and the page had between them.
LEMMA TakenKeepsTheChart ==
  ASSUME NEW s \in Seq(Message), s # <<>>, NEW page \in Page, NEW built \in Nat, NEW seen \in Nat,
         Abreast(s, page, built)
  PROVE  LET after == Taken(page, Head(s))
         IN /\ Abreast(Tail(s), after, built)
            /\ Charted(s, page, seen) => Charted(Tail(s), after, seen)
<1> DEFINE m == Head(s)
           t == Tail(s)
           n == Len(t)
           after == Taken(page, m)
<1>1. /\ m \in Message /\ m = s[1] /\ t \in Seq(Message) /\ n \in Nat /\ Len(s) = n + 1
      /\ \A i \in 1 .. n : t[i] = s[i + 1]
  OBVIOUS
<1>2. after \in Page
  BY <1>1, TakenTells
<1> HIDE DEF m, t, n
<1>3. /\ m.kind = "setup" => /\ after.picture /\ after.squares = {} /\ after.seq = page.seq
      /\ m.kind = "results" => /\ after.picture = page.picture /\ after.squares = page.squares
                               /\ after.seq = page.seq
      /\ m.kind = "view" /\ page.seq < m.seq =>
           /\ after.picture = page.picture /\ after.seq = m.seq
           /\ page.picture => after.squares = page.squares \cup m.cells
  <2>1. page.seq \in Nat /\ m.seq \in Nat
    BY <1>1 DEF Page, Message
  <2>2. m.kind = "setup" => after = [page EXCEPT !.picture = TRUE, !.squares = {}]
    BY DEF Taken
  <2>3. m.kind = "results" => after = [page EXCEPT !.told = page.told + 1]
    BY DEF Taken
  <2>4. m.kind = "view" /\ page.seq < m.seq =>
          after = [page EXCEPT !.seq = m.seq,
                               !.squares = IF page.picture THEN page.squares \cup m.cells
                                           ELSE page.squares]
    BY <2>1 DEF Taken
  <2> HIDE DEF after
  <2> QED  BY <2>2, <2>3, <2>4 DEF Page
<1>4. /\ 1 \in 1 .. Len(s)
      /\ \A i \in 1 .. n : i + 1 \in 1 .. Len(s) /\ 1 < i + 1
  BY <1>1
<1> HIDE DEF after
<1>5. Abreast(t, after, built)
  <2>1. /\ \A i \in 1 .. Len(s) : s[i].kind = "view" =>
             /\ page.seq < s[i].seq /\ s[i].seq <= built
             /\ \A j \in 1 .. Len(s) : j < i /\ s[j].kind = "view" => s[j].seq < s[i].seq
        /\ \A i \in 1 .. Len(s) : s[i].kind # "view" => s[i].cells = {}
        /\ page.seq <= built
    BY DEF Abreast
  <2>2. m.kind \in {"setup", "view", "results"}
    BY <1>1 DEF Message
  <2>3. after.seq = IF m.kind = "view" THEN m.seq ELSE page.seq
    BY <1>1, <1>3, <1>4, <2>1, <2>2
  <2>4. after.seq <= built
    BY <1>1, <1>4, <2>1, <2>3
  <2>5. ASSUME NEW i \in 1 .. n, t[i].kind = "view"
        PROVE  /\ after.seq < t[i].seq /\ t[i].seq <= built
               /\ \A j \in 1 .. n : j < i /\ t[j].kind = "view" => t[j].seq < t[i].seq
    <3>1. s[i + 1].kind = "view" /\ t[i] = s[i + 1] /\ i + 1 \in 1 .. Len(s) /\ 1 < i + 1
      BY <1>1, <1>4, <2>5
    <3>2. after.seq < t[i].seq /\ t[i].seq <= built
      BY <1>1, <1>4, <2>1, <2>3, <3>1
    <3>3. ASSUME NEW j \in 1 .. n, j < i, t[j].kind = "view"
          PROVE  t[j].seq < t[i].seq
      <4>1. s[j + 1].kind = "view" /\ t[j] = s[j + 1] /\ j + 1 \in 1 .. Len(s) /\ j + 1 < i + 1
        BY <1>1, <1>4, <3>3
      <4> QED  BY <2>1, <3>1, <4>1
    <3> QED  BY <3>2, <3>3
  <2>6. \A i \in 1 .. n : t[i].kind # "view" => t[i].cells = {}
    BY <1>1, <1>4, <2>1
  <2> QED  BY <2>4, <2>5, <2>6 DEF Abreast, n
<1>6. ASSUME Charted(s, page, seen)
      PROVE  Charted(t, after, seen)
  <2> SUFFICES ASSUME NEW k \in 0 .. n, NoSetupAfter(t, k), Starts(t, after, k)
               PROVE  (IF k = 0 THEN after.squares ELSE {}) \cup From(t, k) = 1 .. seen
    BY DEF Charted, n
  <2>0. k + 1 \in 1 .. Len(s) /\ k + 1 \in 0 .. Len(s) /\ k + 1 # 0 /\ 0 \in 0 .. Len(s) /\ k \in Nat
    BY <1>1
  <2>1. \A i \in (k + 1 + 1) .. Len(s) : i - 1 \in (k + 1) .. n /\ i - 1 \in 1 .. n /\ i = (i - 1) + 1
    BY <1>1
  <2>2. \A i \in (k + 1) .. n : i \in 1 .. n /\ i + 1 \in (k + 1 + 1) .. Len(s)
    BY <1>1
  <2>3. From(t, k) = From(s, k + 1)
    <3>1. \A x : x \in From(t, k) <=> \E i \in (k + 1) .. n : x \in t[i].cells
      BY DEF From, n
    <3>2. \A x : x \in From(s, k + 1) <=> \E i \in (k + 1 + 1) .. Len(s) : x \in s[i].cells
      BY DEF From
    <3>3. \A x : x \in From(t, k) => x \in From(s, k + 1)
      <4> SUFFICES ASSUME NEW x, NEW i \in (k + 1) .. n, x \in t[i].cells
                   PROVE  \E j \in (k + 1 + 1) .. Len(s) : x \in s[j].cells
        BY <3>1, <3>2, Zenon
      <4>1. i + 1 \in (k + 1 + 1) .. Len(s) /\ t[i] = s[i + 1]
        BY <1>1, <2>2
      <4> QED  BY <4>1
    <3>4. \A x : x \in From(s, k + 1) => x \in From(t, k)
      <4> SUFFICES ASSUME NEW x, NEW i \in (k + 1 + 1) .. Len(s), x \in s[i].cells
                   PROVE  \E j \in (k + 1) .. n : x \in t[j].cells
        BY <3>1, <3>2, Zenon
      <4>1. i - 1 \in (k + 1) .. n /\ t[i - 1] = s[i]
        BY <1>1, <2>1
      <4> QED  BY <4>1
    <3> QED  BY <3>3, <3>4
  <2>4. NoSetupAfter(s, k + 1)
    <3> SUFFICES ASSUME NEW i \in (k + 1 + 1) .. Len(s)
                 PROVE  s[i].kind # "setup"
      BY DEF NoSetupAfter
    <3>1. i - 1 \in (k + 1) .. n /\ t[i - 1] = s[i]
      BY <1>1, <2>1
    <3> QED  BY <3>1 DEF NoSetupAfter, n
  <2>5. CASE k # 0
    <3>1. k \in 1 .. n /\ t[k].kind = "setup"
      BY <2>5 DEF Starts
    <3>2. s[k + 1].kind = "setup"
      BY <1>1, <3>1
    <3>3. Starts(s, page, k + 1)
      BY <2>0, <3>2 DEF Starts
    <3> QED  BY <1>6, <2>0, <2>3, <2>4, <2>5, <3>3 DEF Charted
  <2>6. CASE k = 0 /\ m.kind = "setup"
    <3>1. Starts(s, page, k + 1)
      BY <1>1, <2>0, <2>6 DEF Starts
    <3>2. {} \cup From(s, k + 1) = 1 .. seen
      BY <1>6, <2>0, <2>4, <3>1 DEF Charted
    <3> QED  BY <1>3, <2>3, <2>6, <3>2
  <2>7. CASE k = 0 /\ m.kind # "setup"
    <3>1. \A i \in 1 .. Len(s) : i = 1 \/ i \in 2 .. Len(s)
      BY <1>1
    <3>2. NoSetupAfter(s, 0)
      <4>1. \A i \in 2 .. Len(s) : s[i].kind # "setup"
        BY <2>4, <2>7 DEF NoSetupAfter
      <4> QED  BY <1>1, <2>7, <3>1, <4>1 DEF NoSetupAfter
    <3>3. From(s, 0) = m.cells \cup From(s, 1)
      <4>1. 1 .. Len(s) = {1} \cup 2 .. Len(s)
        BY <1>1
      <4>2. From(s, 0) = UNION {s[i].cells : i \in {1} \cup 2 .. Len(s)}
        BY <4>1 DEF From
      <4>3. From(s, 1) = UNION {s[i].cells : i \in 2 .. Len(s)}
        BY DEF From
      <4> QED  BY <1>1, <4>2, <4>3, Zenon
    <3>4. after.picture /\ k + 1 = 1
      BY <2>7 DEF Starts
    <3>5. page.picture /\ after.squares \cup From(s, 1) = page.squares \cup From(s, 0)
      <4>1. CASE m.kind = "view"
        <5>1. page.seq < m.seq
          BY <1>1, <1>4, <4>1 DEF Abreast
        <5> QED  BY <1>3, <3>3, <3>4, <4>1, <5>1
      <4>2. CASE m.kind = "results"
        <5>1. m.cells = {}
          BY <1>1, <1>4, <4>2 DEF Abreast
        <5> QED  BY <1>3, <3>3, <3>4, <4>2, <5>1
      <4>3. m.kind \in {"setup", "view", "results"}
        BY <1>1 DEF Message
      <4> QED  BY <2>7, <4>1, <4>2, <4>3
    <3>6. page.squares \cup From(s, 0) = 1 .. seen
      BY <1>6, <2>0, <3>2, <3>5 DEF Charted, Starts
    <3> QED  BY <2>3, <2>7, <3>4, <3>5, <3>6
  <2> QED  BY <2>5, <2>6, <2>7
<1> QED  BY <1>5, <1>6 DEF t, m, after

\* What happens to one player's wire and page leaves the other pages their charts.
LEMMA OnePage ==
  ASSUME DeliveryTyped, ChartInv, NEW p \in Player, NEW s, NEW page,
         wire' = [wire EXCEPT ![p] = s], pages' = [pages EXCEPT ![p] = page],
         \A q \in Player \ {p} : /\ viewSeq'[q] = viewSeq[q] /\ chartSeen'[q] = chartSeen[q]
                                 /\ q \in connected' /\ q \in sockets' => q \in connected /\ q \in sockets,
         Abreast(s, page, viewSeq'[p]),
         p \in connected' /\ p \in sockets' => Charted(s, page, chartSeen'[p])
  PROVE  ChartInv'
<1>1. wire'[p] = s /\ pages'[p] = page
  BY DEF DeliveryTyped
<1>2. \A q \in Player \ {p} : wire'[q] = wire[q] /\ pages'[q] = pages[q]
  BY DEF DeliveryTyped
<1>3. ASSUME NEW q \in Player
      PROVE  /\ Abreast(wire'[q], pages'[q], viewSeq'[q])
             /\ q \in connected' /\ q \in sockets' => Charted(wire'[q], pages'[q], chartSeen'[q])
  <2>1. CASE q = p
    BY <1>1, <2>1
  <2>2. CASE q # p
    <3>1. q \in Player \ {p}
      BY <2>2
    <3> QED  BY <1>2, <3>1 DEF ChartInv
  <2> QED  BY <2>1, <2>2
<1> QED  BY <1>3 DEF ChartInv, Abreast, Charted, NoSetupAfter, Starts, From

\* A picture and its first frame, put behind whatever is on the wire, bring a page up to date.
LEMMA PictureCharts ==
  ASSUME DeliveryTyped, NEW p \in Player, NEW s \in Seq(Message), NEW page \in Page,
         Abreast(s, page, viewSeq[p])
  PROVE  LET t == Append(Append(s, Setup), frameFor(p, 0))
         IN /\ t \in Seq(Message)
            /\ Abreast(t, page, viewSeq[p] + 1)
            /\ Charted(t, page, SeenAfter(p, 0))
            /\ Abreast(Append(t, ResultsOut), page, viewSeq[p] + 1)
            /\ Charted(Append(t, ResultsOut), page, SeenAfter(p, 0))
<1> DEFINE u == Append(s, Setup)
           m == frameFor(p, 0)
           t == Append(u, m)
<1>1. 0 \in Nat /\ viewSeq[p] \in Nat /\ viewSeq[p] + 1 \in Nat
  BY DEF DeliveryTyped
<1>2. u \in Seq(Message) /\ Abreast(u, page, viewSeq[p]) /\ Charted(u, page, 0)
  BY <1>1, SetupStarts, Messages, OneMore
<1>3. m \in Message /\ SeenAfter(p, 0) \in Nat
  BY <1>1, FrameIsAMessage
<1> HIDE DEF u
<1>4. Abreast(t, page, viewSeq[p] + 1) /\ Charted(t, page, SeenAfter(p, 0))
  BY <1>1, <1>2, FrameContinues
<1>5. t \in Seq(Message)
  BY <1>2, <1>3, OneMore
<1> HIDE DEF t
<1>6. /\ Abreast(Append(t, ResultsOut), page, viewSeq[p] + 1)
      /\ Charted(Append(t, ResultsOut), page, SeenAfter(p, 0))
  BY <1>1, <1>3, <1>4, <1>5, ResultsBringNothing
<1> QED  BY <1>4, <1>5, <1>6 DEF t, u

\* A new socket: its page is sent the chart from the start, or nothing while the seat is only
\* offered the match.
LEMMA AttachCharts ==
  ASSUME DeliveryTyped, ChartInv, NEW p \in Player, NEW fresh \in BOOLEAN, attach(p, fresh)
  PROVE  ChartInv'
<1> DEFINE m == frameFor(p, 0)
           resumes == concluded \/ p \in connected
           t == Append(Append(<<>>, Setup), m)
           s == IF resumes THEN <<Setup, m>> \o lastWord ELSE <<>>
           page == IF fresh THEN BlankPage ELSE [pages[p] EXCEPT !.told = 0]
<1>0. /\ pages[p] \in Page /\ wire[p] \in Seq(Message) /\ 0 \in Nat
      /\ viewSeq \in [Player -> Nat] /\ chartSeen \in [Player -> Nat] /\ wire \in [Player -> Seq(Message)]
      /\ <<>> \in Seq(Message) /\ pages[p].seq <= viewSeq[p]
  BY DEF DeliveryTyped, ChartInv, Abreast
<1>1. m \in Message /\ m.kind = "view" /\ SeenAfter(p, 0) \in Nat
  BY <1>0, FrameIsAMessage
<1>2. page \in Page /\ page.seq <= viewSeq[p]
  <2>1. CASE fresh
    BY <1>0, <2>1 DEF BlankPage, Page
  <2>2. CASE ~fresh
    BY <1>0, <2>2 DEF Page
  <2> QED  BY <2>1, <2>2
<1>3. pages' = [pages EXCEPT ![p] = page]
  BY DEF attach
<1>4. wire' = [wire EXCEPT ![p] = s]
  <2>1. CASE resumes
    <3> DEFINE w == <<Setup, m>> \o lastWord
    <3>1. wire' = [[wire EXCEPT ![p] = <<>>] EXCEPT ![p] = w]
      BY <2>1 DEF attach, resetVision
    <3> HIDE DEF w
    <3>2. [[wire EXCEPT ![p] = <<>>] EXCEPT ![p] = w] = [wire EXCEPT ![p] = w]
      BY <1>0
    <3> QED  BY <2>1, <3>1, <3>2 DEF w
  <2>2. CASE ~resumes
    BY <2>2 DEF attach
  <2> QED  BY <2>1, <2>2
<1>5. /\ sockets' = sockets \cup {p}
      /\ connected' = IF resumes THEN connected \cup {p} ELSE connected
      /\ IF resumes THEN /\ viewSeq' = [viewSeq EXCEPT ![p] = @ + 1]
                         /\ chartSeen' = [chartSeen EXCEPT ![p] = SeenAfter(p, resetVision(p))]
         ELSE UNCHANGED <<viewSeq, chartSeen>>
  BY Zenon DEF attach
<1> HIDE DEF m, page
<1>6. Abreast(<<>>, page, viewSeq[p])
  BY <1>2 DEF Abreast
<1>7. /\ Abreast(s, page, viewSeq'[p])
      /\ p \in connected' /\ p \in sockets' => Charted(s, page, chartSeen'[p])
  <2>1. CASE resumes
    <3>1. viewSeq'[p] = viewSeq[p] + 1 /\ chartSeen'[p] = SeenAfter(p, 0)
      BY <1>0, <1>5, <2>1 DEF resetVision
    <3>2. /\ Abreast(t, page, viewSeq[p] + 1) /\ Charted(t, page, SeenAfter(p, 0))
          /\ Abreast(Append(t, ResultsOut), page, viewSeq[p] + 1)
          /\ Charted(Append(t, ResultsOut), page, SeenAfter(p, 0))
      BY <1>0, <1>2, <1>6, PictureCharts DEF m
    <3>3. t = <<Setup, m>>
      <4>1. <<>> \o <<Setup, m>> = t
        BY <1>0, <1>1, Pictures
      <4>2. <<Setup, m>> \in Seq(Message)
        BY <1>1, Pictures
      <4> HIDE DEF t
      <4> QED  BY <4>1, <4>2, ConcatEmptySeq
    <3>4. s = t \/ s = Append(t, ResultsOut)
      <4>1. CASE concluded
        <5>1. s = t \o <<ResultsOut>>
          BY <2>1, <3>3, <4>1 DEF lastWord
        <5>2. t \in Seq(Message) /\ ResultsOut \in Message
          BY <1>0, <1>1, Messages
        <5> HIDE DEF s, t
        <5>3. t \o <<ResultsOut>> = Append(t, ResultsOut)
          BY <5>2, AppendIsConcat
        <5> QED  BY <5>1, <5>3
      <4>2. CASE ~concluded
        <5>1. s = t \o <<>>
          BY <2>1, <3>3, <4>2 DEF lastWord
        <5>2. t \in Seq(Message)
          BY <1>0, <1>1, Messages
        <5> HIDE DEF s, t
        <5> QED  BY <5>1, <5>2
      <4> QED  BY <4>1, <4>2
    <3> HIDE DEF s, t
    <3> QED  BY <3>1, <3>2, <3>4
  <2>2. CASE ~resumes
    <3>1. s = <<>> /\ viewSeq'[p] = viewSeq[p] /\ p \notin connected'
      BY <1>5, <2>2
    <3> QED  BY <1>6, <3>1
  <2> QED  BY <2>1, <2>2
<1>8. \A q \in Player \ {p} :
        /\ viewSeq'[q] = viewSeq[q] /\ chartSeen'[q] = chartSeen[q]
        /\ q \in connected' /\ q \in sockets' => q \in connected /\ q \in sockets
  <2>1. \A q \in Player \ {p} : viewSeq'[q] = viewSeq[q] /\ chartSeen'[q] = chartSeen[q]
    BY <1>0, <1>5
  <2>2. \A q \in Player \ {p} :
          q \in connected' /\ q \in sockets' => q \in connected /\ q \in sockets
    BY <1>5
  <2> QED  BY <2>1, <2>2
<1> HIDE DEF s
<1> QED  BY <1>3, <1>4, <1>7, <1>8, OnePage

\* The other things a player does.
LEMMA PlayerCharts ==
  ASSUME DeliveryTyped, ChartInv, NEW p \in Player,
         detach(p) \/ pressLeave(p) \/ pressRejoin(p) \/ departed(p) \/ rejoin(p) \/ receive(p)
  PROVE  ChartInv'
<1>0. /\ pages[p] \in Page /\ wire[p] \in Seq(Message)
      /\ viewSeq \in [Player -> Nat] /\ chartSeen \in [Player -> Nat]
      /\ wire = [wire EXCEPT ![p] = wire[p]] /\ pages = [pages EXCEPT ![p] = pages[p]]
      /\ Abreast(wire[p], pages[p], viewSeq[p])
      /\ p \in connected /\ p \in sockets => Charted(wire[p], pages[p], chartSeen[p])
  BY DEF ChartInv, DeliveryTyped
<1>1. CASE detach(p)
  <2>1. /\ wire' = [wire EXCEPT ![p] = <<>>] /\ pages' = [pages EXCEPT ![p] = pages[p]]
        /\ viewSeq' = viewSeq /\ chartSeen' = chartSeen
        /\ connected' = connected \ {p} /\ sockets' = sockets \ {p}
    BY <1>0, <1>1 DEF detach
  <2>2. Abreast(<<>>, pages[p], viewSeq'[p])
    BY <1>0, <2>1 DEF Abreast
  <2> QED  BY <2>1, <2>2, OnePage
<1>2. CASE pressLeave(p)
  <2> DEFINE page == [BlankPage EXCEPT !.told = pages[p].told]
  <2>1. /\ wire' = [wire EXCEPT ![p] = wire[p]] /\ pages' = [pages EXCEPT ![p] = page]
        /\ UNCHANGED <<viewSeq, chartSeen, connected, sockets>>
    BY <1>0, <1>2 DEF pressLeave
  <2>2. page.seq = 0 /\ ~page.picture
    BY DEF BlankPage
  <2> HIDE DEF page
  <2>3. Abreast(wire[p], page, viewSeq[p])
    <3>1. pages[p].seq \in Nat /\ viewSeq[p] \in Nat
      BY <1>0 DEF Page
    <3>2. \A i \in 1 .. Len(wire[p]) : wire[p][i].seq \in Nat
      <4>1. \A i \in 1 .. Len(wire[p]) : wire[p][i] \in Message
        BY <1>0
      <4> QED  BY <4>1 DEF Message
    <3> QED  BY <1>0, <2>2, <3>1, <3>2 DEF Abreast
  <2>4. ASSUME Charted(wire[p], pages[p], chartSeen[p])
        PROVE  Charted(wire[p], page, chartSeen[p])
    BY <2>2, <2>4 DEF Charted, Starts
  <2> QED  BY <1>0, <2>1, <2>3, <2>4, OnePage
<1>3. CASE pressRejoin(p) \/ departed(p) \/ (rejoin(p) /\ concluded)
  <2>1. UNCHANGED <<chartSeen, viewSeq, wire, pages, sockets>> /\ connected' \subseteq connected
    BY <1>3 DEF pressRejoin, departed, rejoin, Request
  <2>2. ASSUME NEW q \in Player
        PROVE  /\ Abreast(wire'[q], pages'[q], viewSeq'[q])
               /\ q \in connected' /\ q \in sockets' => Charted(wire'[q], pages'[q], chartSeen'[q])
    BY <2>1 DEF ChartInv
  <2> QED  BY <2>2 DEF ChartInv, Abreast, Charted, NoSetupAfter, Starts, From
<1>4. CASE rejoin(p) /\ ~concluded
  <2> DEFINE m == frameFor(p, 0)
             s == wire[p] \o <<Setup, m>> \o <<>>
             t == Append(Append(wire[p], Setup), m)
  <2>1. m \in Message /\ m.kind = "view" /\ SeenAfter(p, 0) \in Nat /\ 0 \in Nat
    BY <1>0, FrameIsAMessage
  <2>2. t \in Seq(Message) /\ Abreast(t, pages[p], viewSeq[p] + 1)
        /\ Charted(t, pages[p], SeenAfter(p, 0))
    BY <1>0, PictureCharts
  <2>3. s = t
    <3> HIDE DEF m
    <3>1. wire[p] \o <<Setup, m>> = t
      BY <1>0, <2>1, Pictures
    <3>2. t \in Seq(Message)
      BY <2>2 DEF m
    <3> HIDE DEF t
    <3>3. t \o <<>> = t
      BY <3>2, ConcatEmptySeq
    <3> QED  BY <3>1, <3>3
  <2>4. /\ wire' = [wire EXCEPT ![p] = s] /\ pages' = pages /\ sockets' = sockets
        /\ connected' = connected \cup {p}
        /\ viewSeq' = [viewSeq EXCEPT ![p] = @ + 1]
        /\ chartSeen' = [chartSeen EXCEPT ![p] = SeenAfter(p, resetVision(p))]
    BY <1>4 DEF rejoin, Request, sendMatch, resetVision
  <2>5. /\ wire' = [wire EXCEPT ![p] = t] /\ pages' = [pages EXCEPT ![p] = pages[p]]
    BY <1>0, <2>3, <2>4
  <2> HIDE DEF s, t, m
  <2>6. viewSeq'[p] = viewSeq[p] + 1 /\ chartSeen'[p] = SeenAfter(p, 0)
    BY <1>0, <2>4 DEF resetVision
  <2>7. \A q \in Player \ {p} :
          /\ viewSeq'[q] = viewSeq[q] /\ chartSeen'[q] = chartSeen[q]
          /\ q \in connected' /\ q \in sockets' => q \in connected /\ q \in sockets
    BY <1>0, <2>4
  <2>8. Abreast(t, pages[p], viewSeq'[p]) /\ Charted(t, pages[p], chartSeen'[p])
    BY <2>2, <2>6
  <2> QED  BY <2>5, <2>7, <2>8, OnePage
<1>5. CASE receive(p)
  <2> DEFINE page == Taken(pages[p], Head(wire[p]))
             s == Tail(wire[p])
  <2>1. /\ wire[p] # <<>>
        /\ wire' = [wire EXCEPT ![p] = s] /\ pages' = [pages EXCEPT ![p] = page]
        /\ UNCHANGED <<viewSeq, chartSeen, connected, sockets>>
    BY <1>5 DEF receive
  <2>2. viewSeq[p] \in Nat /\ chartSeen[p] \in Nat
    BY <1>0
  <2>3. /\ Abreast(s, page, viewSeq[p])
        /\ Charted(wire[p], pages[p], chartSeen[p]) => Charted(s, page, chartSeen[p])
    BY <1>0, <2>1, <2>2, TakenKeepsTheChart
  <2> HIDE DEF page, s
  <2> QED  BY <1>0, <2>1, <2>3, OnePage
<1> QED  BY <1>1, <1>2, <1>3, <1>4, <1>5

\* A step of the clock: a frame to whoever is in the match and on line, from where its watermark is.
LEMMA ClockCharts ==
  ASSUME DeliveryTyped, ChartInv, NEW due, NEW thrown, NEW over, ClockSends(due, thrown, over)
  PROVE  ChartInv'
<1> DEFINE to == IF due /\ ~thrown THEN connected \cap sockets ELSE {}
           ends == over /\ ~thrown
           sent == Published(to)
<1>1. /\ wire' = announce(to, ends) /\ publish(to)
      /\ UNCHANGED <<connected, sockets, pages>>
  BY Zenon DEF ClockSends
<1>2. to = {} \/ to = connected \cap sockets
  BY Zenon
<1> HIDE DEF to, ends
<1>3. ASSUME NEW p \in Player
      PROVE  /\ Abreast(wire'[p], pages'[p], viewSeq'[p])
             /\ p \in connected' /\ p \in sockets' => Charted(wire'[p], pages'[p], chartSeen'[p])
  <2> DEFINE m == frameFor(p, chartSeen[p])
  <2>0. /\ pages[p] \in Page /\ wire[p] \in Seq(Message) /\ viewSeq[p] \in Nat /\ chartSeen[p] \in Nat
        /\ Abreast(wire[p], pages[p], viewSeq[p])
        /\ p \in connected /\ p \in sockets => Charted(wire[p], pages[p], chartSeen[p])
    BY DEF ChartInv, DeliveryTyped
  <2>1. m \in Message /\ m.kind = "view" /\ SeenAfter(p, chartSeen[p]) \in Nat
    BY <2>0, FrameIsAMessage
  <2>2. /\ viewSeq'[p] = IF p \in to THEN viewSeq[p] + 1 ELSE viewSeq[p]
        /\ chartSeen'[p] = IF p \in to THEN SeenAfter(p, chartSeen[p]) ELSE chartSeen[p]
    BY <1>1, <2>0 DEF publish
  <2>3. sent[p] = IF p \in to THEN Append(wire[p], m) ELSE wire[p]
    BY DEF Published
  <2>4. wire'[p] = IF ends /\ p \in sockets THEN Append(sent[p], ResultsOut) ELSE sent[p]
    BY <1>1 DEF announce, Told, Published
  <2>5. /\ viewSeq'[p] \in Nat /\ chartSeen'[p] \in Nat /\ sent[p] \in Seq(Message)
    <3> HIDE DEF m, sent
    <3>1. Append(wire[p], m) \in Seq(Message)
      BY <2>0, <2>1, OneMore
    <3> QED  BY <2>0, <2>1, <2>2, <2>3, <3>1
  <2>6. /\ Abreast(sent[p], pages[p], viewSeq'[p])
        /\ p \in connected /\ p \in sockets => Charted(sent[p], pages[p], chartSeen'[p])
    <3> HIDE DEF sent
    <3>1. CASE p \in to
      <4>1. /\ Abreast(Append(wire[p], m), pages[p], viewSeq[p] + 1)
            /\ Charted(wire[p], pages[p], chartSeen[p])
                 => Charted(Append(wire[p], m), pages[p], SeenAfter(p, chartSeen[p]))
        BY <2>0, FrameContinues
      <4> HIDE DEF m
      <4> QED  BY <2>0, <2>2, <2>3, <3>1, <4>1
    <3>2. CASE p \notin to
      BY <2>0, <2>2, <2>3, <3>2
    <3> QED  BY <3>1, <3>2
  <2> HIDE DEF sent, m
  <2>7. /\ Abreast(Append(sent[p], ResultsOut), pages[p], viewSeq'[p])
        /\ Charted(sent[p], pages[p], chartSeen'[p])
             => Charted(Append(sent[p], ResultsOut), pages[p], chartSeen'[p])
    BY <2>0, <2>5, <2>6, ResultsBringNothing
  <2> QED  BY <1>1, <2>4, <2>6, <2>7
<1> QED  BY <1>3 DEF ChartInv, Abreast, Charted, NoSetupAfter, Starts, From

\* Every step of a match leaves every page the chart it is owed.
LEMMA ChartInvKept ==
  ASSUME DeliveryTyped, ChartInv, [Next]_vars
  PROVE  ChartInv'
<1>1. UNCHANGED deliveryVars => ChartInv'
  BY DEF deliveryVars, ChartInv, Abreast, Charted, NoSetupAfter, Starts, From
<1>2. ASSUME NEW b \in Boat
      PROVE  /\ \A wanted \in SUBSET Tubes(b) : fire(b, wanted) => ChartInv'
             /\ \A i \in Tubes(b), w \in Fits[b], swap \in BOOLEAN : reload(b, i, w, swap) => ChartInv'
             /\ dropNoisemaker(b) => ChartInv'
             /\ \A on \in BOOLEAN : switchSonar(b, on) => ChartInv'
  BY <1>1 DEF fire, reload, dropNoisemaker, switchSonar
<1>3. ASSUME step
      PROVE  ChartInv'
  <2>1. \E due, thrown, over : ClockSends(due, thrown, over)
    BY <1>3, Zenon DEF step
  <2> QED  BY <2>1, ClockCharts
<1>4. ASSUME NEW p \in Player, playerMoves(p) \/ playerActs(p)
      PROVE  ChartInv'
  <2>1. \/ \E fresh \in BOOLEAN : attach(p, fresh)
        \/ detach(p) \/ pressLeave(p) \/ pressRejoin(p) \/ departed(p) \/ rejoin(p) \/ receive(p)
    BY <1>4 DEF playerMoves, playerActs
  <2> QED  BY <2>1, AttachCharts, PlayerCharts
<1>5. UNCHANGED vars => ChartInv'
  BY <1>1 DEF vars
<1> QED  BY <1>2, <1>3, <1>4, <1>5 DEF Next

\* Only players are in the match.
LEMMA PlayersOnly == Spec => [](connected \subseteq Player)
<1>1. Init => connected \subseteq Player
  BY DEF Init, InitDelivery
<1>2. connected \subseteq Player /\ [Next]_vars => (connected \subseteq Player)'
  <2> SUFFICES ASSUME connected \subseteq Player, [Next]_vars
               PROVE  connected' \subseteq Player
    OBVIOUS
  <2>1. UNCHANGED connected => connected' \subseteq Player
    OBVIOUS
  <2>2. ASSUME NEW b \in Boat
        PROVE  /\ \A wanted \in SUBSET Tubes(b) : fire(b, wanted) => UNCHANGED connected
               /\ \A i \in Tubes(b), w \in Fits[b], swap \in BOOLEAN :
                    reload(b, i, w, swap) => UNCHANGED connected
               /\ dropNoisemaker(b) => UNCHANGED connected
               /\ \A on \in BOOLEAN : switchSonar(b, on) => UNCHANGED connected
    BY DEF fire, reload, dropNoisemaker, switchSonar, deliveryVars
  <2>3. step => UNCHANGED connected
    <3>1. \A due, thrown, over : ClockSends(due, thrown, over) => UNCHANGED connected
      BY Zenon DEF ClockSends
    <3> QED  BY <3>1, Zenon DEF step
  <2>4. ASSUME NEW p \in Player, playerMoves(p) \/ playerActs(p)
        PROVE  connected' \subseteq Player
    <3>1. \/ \E fresh \in BOOLEAN : attach(p, fresh)
          \/ detach(p) \/ pressLeave(p) \/ pressRejoin(p) \/ departed(p) \/ rejoin(p) \/ receive(p)
      BY <2>4 DEF playerMoves, playerActs
    <3>2. connected' \subseteq connected \cup {p}
      BY <3>1 DEF attach, detach, pressLeave, pressRejoin, departed, rejoin, receive, Request
    <3> QED  BY <3>2
  <2>5. UNCHANGED vars => UNCHANGED connected
    BY DEF vars, deliveryVars
  <2> QED  BY <2>1, <2>2, <2>3, <2>4, <2>5 DEF Next
<1> QED  BY <1>1, <1>2, PTL DEF Spec

\* A page in the match that has taken what it was sent has its team's whole chart up to its
\* watermark, though the watermark moves when a frame is built and not when it arrives: however
\* often the player leaves, rejoins, or is replaced by another tab with frames under way
\* (frameFor, resetVision, applyView).
THEOREM PagesHaveTheChart == Spec => []PageHasTheChart
<1>1. Init => ChartInv
  <2>1. ASSUME NEW there \in SUBSET Player, InitDelivery(there), NEW p \in Player
        PROVE  /\ Abreast(wire[p], pages[p], viewSeq[p])
               /\ p \in connected /\ p \in sockets => Charted(wire[p], pages[p], chartSeen[p])
    <3>1. pages[p] = BlankPage /\ chartSeen[p] = 0 /\ sockets = there
      BY <2>1 DEF InitDelivery
    <3>2. CASE p \notin there
      <4>1. wire[p] = <<>> /\ viewSeq[p] = 0
        BY <2>1, <3>2 DEF InitDelivery
      <4> QED  BY <3>1, <3>2, <4>1 DEF Abreast, BlankPage
    <3>3. CASE p \in there
      <4>1. wire[p] = <<Setup, View(1, {})>> /\ viewSeq[p] = 1
        BY <2>1, <3>3 DEF InitDelivery
      <4> DEFINE s == wire[p]
      <4>2. /\ Len(s) = 2 /\ s[1].kind = "setup" /\ s[2].kind = "view" /\ s[2].seq = 1
            /\ s[1].cells = {} /\ s[2].cells = {}
        BY <4>1 DEF Setup, View
      <4> HIDE DEF s
      <4>3. \A i \in 1 .. 2 : i = 1 \/ i = 2
        OBVIOUS
      <4>4. Abreast(s, BlankPage, 1)
        BY <4>2, <4>3 DEF Abreast, BlankPage
      <4>5. Charted(s, BlankPage, 0)
        <5> SUFFICES ASSUME NEW k \in 0 .. 2, NoSetupAfter(s, k), Starts(s, BlankPage, k)
                     PROVE  (IF k = 0 THEN BlankPage.squares ELSE {}) \cup From(s, k) = 1 .. 0
          BY <4>2 DEF Charted
        <5>1. k = 0 \/ k = 1 \/ k = 2
          OBVIOUS
        <5>2. \A i \in (k + 1) .. 2 : s[i].cells = {}
          BY <4>2, <4>3, <5>1
        <5>3. From(s, k) = {}
          BY <4>2, <5>2 DEF From
        <5> QED  BY <5>3 DEF BlankPage
      <4> QED  BY <3>1, <4>1, <4>4, <4>5 DEF s
    <3> QED  BY <3>2, <3>3
  <2>2. Init => scene.movers \subseteq Player
    BY MatchAssumption DEF Init, Scene
  <2> QED  BY <2>1, <2>2 DEF Init, ChartInv
<1>2. TellInv /\ ChartInv /\ [Next]_vars => ChartInv'
  BY ChartInvKept DEF TellInv
<1>3. ChartInv /\ connected \subseteq Player => PageHasTheChart
  <2> SUFFICES ASSUME ChartInv, NEW p \in Player, p \in connected, p \in sockets,
                      pages[p].picture, wire[p] = <<>>
               PROVE  pages[p].squares = 1 .. chartSeen[p]
    BY DEF PageHasTheChart
  <2>1. Charted(<<>>, pages[p], chartSeen[p]) /\ 0 \in 0 .. Len(<<>>)
    BY DEF ChartInv
  <2>2. NoSetupAfter(<<>>, 0) /\ From(<<>>, 0) = {} /\ Starts(<<>>, pages[p], 0)
    BY DEF NoSetupAfter, From, Starts
  <2> QED  BY <2>1, <2>2 DEF Charted
<1> QED  BY <1>1, <1>2, <1>3, TellInvAlways, PlayersOnly, PTL DEF Spec
---------------------------------------------------------------------------
(* What a team is shown.                                                   *)

\* What a tick leaves of a weapon is of the same load and was fired by the same boat.
LEMMA WeaponsStayTheirs ==
  ASSUME NEW now, NEW t, IsWeapon(t), NEW afloat, NEW early,
         NEW o \in Outcomes(t, now, afloat, early), o.weapon # None
  PROVE  o.weapon.load = t.load /\ o.weapon.firedBy = t.firedBy
<1>1. \A m : IsWeapon(m) =>
        finish(m, now).load = m.load /\ finish(m, now).firedBy = m.firedBy
  BY DEF finish, IsWeapon
<1>2. \A aligned \in BOOLEAN, arrived \in BOOLEAN :
        LET m == steered(t, now, aligned, arrived)
        IN IsWeapon(m) /\ m.load = t.load /\ m.firedBy = t.firedBy
  <2> SUFFICES ASSUME NEW aligned \in BOOLEAN, NEW arrived \in BOOLEAN
               PROVE  LET m == steered(t, now, aligned, arrived)
                      IN IsWeapon(m) /\ m.load = t.load /\ m.firedBy = t.firedBy
    OBVIOUS
  <2> DEFINE s == settle(t, now, aligned, arrived)
  <2>1. IsWeapon(s) /\ s.load = t.load /\ s.firedBy = t.firedBy
    <3>1. PICK stamp, phase : s = [t EXCEPT !.alignedTick = stamp, !.phase = phase]
      BY DEF settle
    <3>2. s = [x \in DOMAIN t |-> IF x = "phase" THEN phase
                                 ELSE IF x = "alignedTick" THEN stamp ELSE t[x]]
      BY <3>1
    <3>3. DOMAIN t = {"load", "firedBy", "firedTick", "phase", "alignedTick", "bang"}
      BY DEF IsWeapon
    <3> HIDE DEF s
    <3> QED  BY <3>2, <3>3 DEF IsWeapon
  <2>2. \A m : IsWeapon(m) => LET e == [m EXCEPT !.phase = "enabled"]
                              IN IsWeapon(e) /\ e.load = m.load /\ e.firedBy = m.firedBy
    BY DEF IsWeapon
  <2> QED BY <2>1, <2>2 DEF steered, s
<1>3. \A m, h : Outcome(m, h).weapon = m
  BY DEF Outcome
<1>4. \A m, touched : \A e \in Ends(m, now, afloat, touched) : e.weapon = finish(m, now)
  BY <1>3 DEF Ends
<1>5. \A m : \A e \in AfterMoving(m, now, afloat, early) : e.weapon \in {m, finish(m, now)}
  <2> TAKE m
  <2> SUFFICES ASSUME NEW e \in AfterMoving(m, now, afloat, early)
               PROVE  e.weapon \in {m, finish(m, now)}
    OBVIOUS
  <2>1. \/ \E touched \in SUBSET Boat :
             e \in IF Fuzes(m, now, touched) THEN Ends(m, now, afloat, touched)
                   ELSE {Outcome(m, Unharmed)}
        \/ e \in IF early THEN Ends(m, now, afloat, {}) ELSE {}
    BY DEF AfterMoving
  <2> QED BY <1>3, <1>4, <2>1
<1>6. CASE t.phase = "spent"
  BY <1>3, <1>6 DEF Outcomes
<1>7. CASE t.phase # "spent" /\ torpedoExpired(t, now)
  BY <1>1, <1>4, <1>7 DEF Outcomes
<1>8. CASE t.phase # "spent" /\ ~torpedoExpired(t, now)
  <2>1. PICK aligned \in BOOLEAN, arrived \in BOOLEAN :
          o \in AfterMoving(steered(t, now, aligned, arrived), now, afloat, early)
    BY <1>8 DEF Outcomes
  <2> DEFINE m == steered(t, now, aligned, arrived)
  <2>2. IsWeapon(m) /\ m.load = t.load /\ m.firedBy = t.firedBy
    BY <1>2
  <2>3. o.weapon \in {m, finish(m, now)}
    BY <1>5, <2>1
  <2> HIDE DEF m
  <2> QED BY <1>1, <2>2, <2>3
<1> QED BY <1>6, <1>7, <1>8

\* What is a multiple of a number is that many times a number.
LEMMA Divided ==
  ASSUME NEW n \in Int, n > 0, NEW a \in Int
  PROVE  a = n * (a \div n) + (a % n)
BY SMT

LEMMA StepsOfMultiples ==
  ASSUME NEW n \in Nat \ {0}, NEW p \in Nat, NEW q \in Nat, n * p < n * q
  PROVE  n * p + n <= n * q
OBVIOUS

\* Two solves are a whole interval apart.
LEMMA SolvesApart ==
  ASSUME NEW a \in Nat, NEW b \in Nat, a % TICKS_PER_SOLVE = 0, b % TICKS_PER_SOLVE = 0, a < b
  PROVE  a + TICKS_PER_SOLVE <= b
<1> DEFINE n == TICKS_PER_SOLVE
<1>1. n \in Nat \ {0} /\ n \in Int /\ n > 0
  BY VisionAssumption
<1> HIDE DEF n
<1>2. a \div n \in Nat /\ b \div n \in Nat
  BY <1>1
<1>3. a = n * (a \div n) + (a % n) /\ b = n * (b \div n) + (b % n)
  BY <1>1, Divided
<1>4. n * (a \div n) \in Nat /\ n * (b \div n) \in Nat
  BY <1>1, <1>2
<1>5. a = n * (a \div n) /\ b = n * (b \div n)
  BY <1>3, <1>4 DEF n
<1> QED BY <1>1, <1>2, <1>5, StepsOfMultiples DEF n

\* What the marker of a weapon or of a boat may be.
MarkerIsHonest(t, e) ==
  /\ e \in Active \cup Live(torpedoes) /\ Enemy(t, e)
  /\ e \notin Boat /\ IsDecoy(e)
        => /\ contacts[t][e].kind = "torpedo" => e \in exposed[t]
           /\ contacts[t][e].named <=> contacts[t][e].kind = "torpedo"

\* An alert bears the tick of a solve, and that of a pulse which was over by then.
IsDated(a) ==
  /\ a.tick \in Nat /\ a.at \in Nat
  /\ a.tick <= a.at /\ a.at <= tick
  /\ a.at % TICKS_PER_SOLVE = 0

ScopeInv ==
  /\ RunsInv
  /\ nextEntityId \in Nat /\ InWater \subseteq Nat
  /\ \A t \in Team : \A e \in DOMAIN contacts[t] : MarkerIsHonest(t, e)
  /\ lastPing \in [Boat -> Nat] /\ \A b \in Boat : lastPing[b] <= tick
  /\ \A t \in Team : \A a \in alerts[t] : IsDated(a)
  /\ OnePulseOneAlert

LEMMA ScopeInvIsEnough == ScopeInv => ScopeIsHonest
BY DEF ScopeInv, ScopeIsHonest, ContactsAreLive, DisguiseHolds, MarkerIsHonest

\* What goes into the water is new, and leaves what is there alone (launch, dropCountermeasure).
LEMMA IntoTheWater ==
  ASSUME nextEntityId \in Nat, InWater \subseteq Nat, NEW b \in Boat,
         \/ \E wanted \in SUBSET Tubes(b) :
              launch(b, [i \in Launching(b, wanted) |-> tubes[b][i].weapon], tick)
         \/ dropCountermeasure(b, tick)
  PROVE  /\ nextEntityId' \in Nat /\ InWater' \subseteq Nat /\ InWater \subseteq InWater'
         /\ \A i \in InWater : torpedoes'[i] = torpedoes[i]
<1>1. ASSUME NEW wanted \in SUBSET Tubes(b),
             launch(b, [i \in Launching(b, wanted) |-> tubes[b][i].weapon], tick)
      PROVE  /\ nextEntityId' \in Nat /\ InWater' \subseteq Nat /\ InWater \subseteq InWater'
             /\ \A i \in InWater : torpedoes'[i] = torpedoes[i]
  <2> DEFINE loads == [i \in Launching(b, wanted) |-> tubes[b][i].weapon]
             D == DOMAIN loads
  <2>1. \A S \in SUBSET D : Cardinality(S) \in Nat
    <3>1. IsFiniteSet(Tubes(b))
      BY GearAssumption, FS_Interval DEF Tubes
    <3>2. D \subseteq Tubes(b)
      BY DEF Launching
    <3> QED  BY <3>1, <3>2, FS_Subset, FS_CardinalityType
  <2> HIDE DEF loads
  <2> DEFINE Below(k) == Cardinality({j \in D : j < k})
             ids == {nextEntityId + Below(k) : k \in D}
  <2>2. \A k \in D : Below(k) \in Nat
    <3>1. ASSUME NEW k \in D PROVE {j \in D : j < k} \in SUBSET D
      OBVIOUS
    <3> QED  BY <2>1, <3>1
  <2>3. Cardinality(D) \in Nat
    BY <2>1
  <2>4. launch(b, loads, tick)
    BY <1>1 DEF loads
  <2>5. nextEntityId' = nextEntityId + Cardinality(D) /\ InWater' = InWater \cup ids
    BY <2>4 DEF launch, InWater
  <2>6. \A i \in InWater : torpedoes'[i] = torpedoes[i]
    BY <2>4 DEF launch, InWater
  <2> HIDE DEF D, Below
  <2>7. ids \subseteq Nat
    BY <2>2
  <2> HIDE DEF ids
  <2> QED  BY <2>3, <2>5, <2>6, <2>7
<1>2. ASSUME dropCountermeasure(b, tick)
      PROVE  /\ nextEntityId' \in Nat /\ InWater' \subseteq Nat /\ InWater \subseteq InWater'
             /\ \A i \in InWater : torpedoes'[i] = torpedoes[i]
  BY <1>2 DEF dropCountermeasure, InWater
<1> QED  BY <1>1, <1>2

\* An order is no news of anything: what was marked is still there.
LEMMA OrdersTellNothing ==
  ASSUME ScopeInv, RunsInv', tick' = tick,
         nextEntityId' \in Nat, InWater' \subseteq Nat, InWater \subseteq InWater',
         \A i \in InWater : torpedoes'[i] = torpedoes[i],
         UNCHANGED <<destroyed, lastPing, exposed, contacts, alerts>>
  PROVE  ScopeInv'
<1>1. ASSUME NEW t \in Team, NEW e \in DOMAIN contacts'[t]
      PROVE  MarkerIsHonest(t, e)'
  <2>1. MarkerIsHonest(t, e)
    BY <1>1 DEF ScopeInv
  <2>2. CASE e \in Boat
    <3>1. e \notin Live(torpedoes)
      BY <2>2, VisionAssumption DEF ScopeInv, Live, InWater
    <3> QED  BY <2>1, <2>2, <3>1 DEF MarkerIsHonest, Active, Enemy
  <2>3. CASE e \notin Boat
    <3>1. e \in Live(torpedoes) /\ e \in InWater
      BY <2>1, <2>3 DEF MarkerIsHonest, Active, Live, InWater
    <3>2. torpedoes'[e] = torpedoes[e] /\ e \in Live(torpedoes')
      BY <3>1 DEF Live, InWater
    <3> QED  BY <2>1, <2>3, <3>2 DEF MarkerIsHonest, Enemy, IsDecoy
  <2> QED  BY <2>2, <2>3
<1>2. /\ lastPing' \in [Boat -> Nat] /\ \A b \in Boat : lastPing'[b] <= tick'
      /\ \A t \in Team : \A a \in alerts'[t] : IsDated(a)'
      /\ OnePulseOneAlert'
  BY DEF ScopeInv, IsDated, OnePulseOneAlert
<1> QED  BY <1>1, <1>2 DEF ScopeInv

\* A tick takes things out of the water and sinks boats, and what is left is what it was.
LEMMA WhatIsLeft ==
  ASSUME RunsInv, NEW thrown \in BOOLEAN, Ticked(tick + 1, thrown)
  PROVE  /\ nextEntityId' = nextEntityId /\ InWater' \subseteq InWater
         /\ \A i \in InWater' : /\ torpedoes'[i].load = torpedoes[i].load
                                /\ torpedoes'[i].firedBy = torpedoes[i].firedBy
         /\ VisionTick(tick + 1, scene.sonar, thrown)
<1>1. PICK ram \in Collisions : \E fate \in Fates(tick + 1, ram.harm, scene.early) :
                                  stepWeapons(ram.harm, fate)
  BY DEF Ticked
<1>2. PICK fate \in Fates(tick + 1, ram.harm, scene.early) : stepWeapons(ram.harm, fate)
  BY <1>1
<1> DEFINE afloat == StillAfloat(Settled(ram.harm))
<1>3. \A i \in InWater : fate[i] \in Outcomes(torpedoes[i], tick + 1, afloat, scene.early)
  BY <1>2 DEF Fates
<1>4. /\ InWater' = {j \in InWater : fate[j].weapon # None}
      /\ \A i \in InWater' : torpedoes'[i] = fate[i].weapon
      /\ nextEntityId' = nextEntityId
  BY <1>2 DEF stepWeapons, InWater
<1> HIDE DEF afloat
<1>5. \A i \in InWater : IsWeapon(torpedoes[i])
  BY DEF RunsInv, OnTheClock
<1>6. VisionTick(tick + 1, scene.sonar, thrown)
  BY DEF Ticked
<1> QED  BY <1>3, <1>4, <1>5, <1>6, WeaponsStayTheirs

\* The markers a team has after a tick: what ended is off its book, what it hears is on it as
\* what it takes it for, and a disguise that is off stays off (drop, classifyDecoys, confirm).
LEMMA MarkersAfterATick ==
  ASSUME ScopeInv, NEW thrown \in BOOLEAN, Ticked(tick + 1, thrown),
         NEW t \in Team, NEW e \in DOMAIN contacts'[t]
  PROVE  MarkerIsHonest(t, e)'
<1> DEFINE book == drop(contacts[t], Ended)
<1>1. /\ InWater' \subseteq InWater /\ InWater \subseteq Nat
      /\ \A i \in InWater' : /\ torpedoes'[i].load = torpedoes[i].load
                             /\ torpedoes'[i].firedBy = torpedoes[i].firedBy
      /\ VisionTick(tick + 1, scene.sonar, thrown)
  BY WhatIsLeft DEF ScopeInv
<1>2. \A i \in Live(torpedoes') : i \in InWater' /\ i \notin Boat
  BY <1>1, VisionAssumption DEF Live, InWater
<1>3. ASSUME e \in DOMAIN book
      PROVE  /\ MarkerIsHonest(t, e) /\ book[e] = contacts[t][e]
             /\ e \in Active' \cup Live(torpedoes') /\ Enemy(t, e)'
  <2>1. e \in DOMAIN contacts[t] /\ e \notin Ended /\ book[e] = contacts[t][e]
    BY <1>3 DEF drop
  <2>2. MarkerIsHonest(t, e)
    BY <2>1 DEF ScopeInv
  <2>3. CASE e \in Boat
    <3>1. e \notin Live(torpedoes)
      BY <1>1, <2>3, VisionAssumption DEF Live, InWater
    <3> QED  BY <2>1, <2>2, <2>3, <3>1 DEF MarkerIsHonest, Active, Enemy, Ended, sunkBoats
  <2>4. CASE e \notin Boat
    <3>1. e \in Live(torpedoes)
      BY <2>2, <2>4 DEF MarkerIsHonest, Active
    <3>2. e \in Live(torpedoes')
      BY <2>1, <3>1 DEF Ended, endedWeapons
    <3>3. torpedoes'[e].firedBy = torpedoes[e].firedBy
      BY <1>1, <1>2, <3>2
    <3> QED  BY <2>1, <2>2, <2>4, <3>2, <3>3 DEF MarkerIsHonest, Enemy
  <2> QED  BY <2>3, <2>4
<1>4. ASSUME e \in DOMAIN book, e \notin Boat, IsDecoy(e)'
      PROVE  /\ book[e].kind = "torpedo" => e \in exposed[t]
             /\ book[e].named <=> book[e].kind = "torpedo"
  <2>1. e \in Live(torpedoes')
    BY <1>3, <1>4 DEF Active
  <2>2. IsDecoy(e)
    BY <1>1, <1>2, <1>4, <2>1 DEF IsDecoy
  <2> QED  BY <1>3, <1>4, <2>2 DEF MarkerIsHonest
<1>5. CASE contacts'[t] = book /\ exposed'[t] = exposed[t]
  BY <1>3, <1>4, <1>5 DEF MarkerIsHonest
<1>6. ASSUME NEW heard, NEW caught, NEW loud,
             contacts'[t] = observe(t, book, heard \cap Confirmable(t), loud),
             exposed'[t] = classifyDecoys(t, caught)
      PROVE  MarkerIsHonest(t, e)'
  <2> DEFINE news == heard \cap Confirmable(t)
  <2>1. /\ e \in DOMAIN book \cup news
        /\ contacts'[t][e] = IF e \in news THEN confirm(t, book, e, e \in loud) ELSE book[e]
    BY <1>6 DEF observe
  <2>2. exposed[t] \subseteq exposed'[t]
    BY <1>6 DEF classifyDecoys
  <2>3. CASE e \notin news
    BY <1>3, <1>4, <2>1, <2>2, <2>3 DEF MarkerIsHonest
  <2>4. CASE e \in news
    <3>1. e \in Active' \cup Live(torpedoes') /\ Enemy(t, e)'
      BY <1>2, <2>4 DEF Confirmable, Active, Enemy
    <3>2. ASSUME e \notin Boat, IsDecoy(e)'
          PROVE  /\ contacts'[t][e].kind = "torpedo" => e \in exposed'[t]
                 /\ contacts'[t][e].named <=> contacts'[t][e].kind = "torpedo"
      <4> DEFINE was == e \in DOMAIN book /\ book[e].named
                 named == was \/ (sightingFor(t, e) = "torpedo"
                                   /\ (e \in loud \/ torpedoes'[e].load \in Decoy))
      <4>1. contacts'[t][e] = [kind |-> sightingFor(t, e), named |-> named]
        BY <2>1, <2>4 DEF confirm
      <4>2. sightingFor(t, e) = IF e \in exposed'[t] THEN "torpedo" ELSE "boat"
        BY <3>2 DEF sightingFor, IsDecoy
      <4>3. was => e \in exposed'[t]
        BY <1>4, <2>2, <3>2
      <4>4. torpedoes'[e].load \in Decoy
        BY <3>2 DEF IsDecoy
      <4>5. named <=> e \in exposed'[t]
        BY <4>2, <4>3, <4>4
      <4> HIDE DEF named
      <4>6. contacts'[t][e].kind = sightingFor(t, e) /\ contacts'[t][e].named = named
        BY <4>1
      <4> QED  BY <4>2, <4>5, <4>6
    <3> QED  BY <3>1, <3>2 DEF MarkerIsHonest
  <2> QED  BY <2>3, <2>4
<1>7. CASE (tick + 1) % TICKS_PER_SOLVE = 0 /\ ~thrown
  <2> DEFINE books == [u \in Team |-> drop(contacts[u], Ended)]
  <2>1. solve(tick + 1, books, scene.sonar) /\ books[t] = book
    BY <1>1, <1>7 DEF VisionTick
  <2> HIDE DEF books, book
  <2>2. \E heard, caught, loud :
          /\ contacts'[t] = observe(t, books[t], heard \cap Confirmable(t), loud)
          /\ exposed'[t] = classifyDecoys(t, caught)
    <3>1. PICK heard \in SUBSET UNION {Confirmable(u) : u \in scene.sonar},
               caught \in SUBSET UNION {Strippable(u, tick + 1) : u \in Team},
               lit \in SUBSET UNION {Pulses(u, tick + 1) : u \in Team} :
                 /\ exposed' = [u \in Team |-> classifyDecoys(u, caught \cap Strippable(u, tick + 1))]
                 /\ \E loud \in SUBSET (heard \ Boat) :
                      contacts' = [u \in Team |-> observe(u, books[u], heard \cap Confirmable(u), loud)]
      BY <2>1 DEF solve
    <3>2. PICK loud \in SUBSET (heard \ Boat) :
            contacts' = [u \in Team |-> observe(u, books[u], heard \cap Confirmable(u), loud)]
      BY <3>1
    <3>3. /\ contacts'[t] = observe(t, books[t], heard \cap Confirmable(t), loud)
          /\ exposed'[t] = classifyDecoys(t, caught \cap Strippable(t, tick + 1))
      BY <3>1, <3>2
    <3> QED  BY <3>3
  <2> QED  BY <1>6, <2>1, <2>2
<1>8. CASE ~((tick + 1) % TICKS_PER_SOLVE = 0 /\ ~thrown)
  BY <1>1, <1>5, <1>8 DEF VisionTick
<1> QED  BY <1>7, <1>8

\* The alerts after a tick: a solve hears the pulses since the solve before it, which every alert
\* there was is at least as old as (pulse, hearPings).
LEMMA AlertsAfterATick ==
  ASSUME ScopeInv, NEW thrown \in BOOLEAN, VisionTick(tick + 1, scene.sonar, thrown),
         tick' = tick + 1
  PROVE  /\ lastPing' \in [Boat -> Nat] /\ \A b \in Boat : lastPing'[b] <= tick'
         /\ \A t \in Team : \A a \in alerts'[t] : IsDated(a)'
         /\ OnePulseOneAlert'
<1> DEFINE now == tick + 1
<1>0. /\ tick \in Nat /\ now \in Nat /\ tick < now /\ tick' = now
      /\ TICKS_PER_SOLVE \in Nat /\ TICKS_PER_SOLVE > 0
      /\ lastPing \in [Boat -> Nat] /\ \A b \in Boat : lastPing[b] <= tick
  BY VisionAssumption DEF ScopeInv, RunsInv
<1>1. lastPing' \in [Boat -> Nat] /\ \A b \in Boat : lastPing'[b] <= tick'
  BY <1>0 DEF VisionTick, pulse
<1>2. \A t \in Team : \A a \in alerts[t] : IsDated(a) /\ IsDated(a)'
  BY <1>0 DEF ScopeInv, IsDated
<1>3. CASE ~(now % TICKS_PER_SOLVE = 0 /\ ~thrown)
  <2>1. alerts' = alerts
    BY <1>3 DEF VisionTick
  <2> QED  BY <1>1, <1>2, <2>1 DEF ScopeInv, OnePulseOneAlert
<1>4. CASE now % TICKS_PER_SOLVE = 0 /\ ~thrown
  <2>1. PICK lit : alerts' = [t \in Team |-> hearPings(t, now, lit)]
    BY <1>4 DEF VisionTick, solve
  <2> DEFINE IsNew(t, a) == \E b \in Boat :
               /\ a = [tick |-> lastPing'[b], by |-> b, at |-> now]
               /\ lastPing'[b] >= now - TICKS_PER_SOLVE + 1
  <2>2. \A t \in Team : \A a \in alerts'[t] : a \in alerts[t] \/ IsNew(t, a)
    BY <2>1 DEF hearPings, Pulses
  <2>3. \A t, a : IsNew(t, a) => /\ IsDated(a)' /\ a.at = now /\ a.tick \in Nat
                                /\ a.tick >= now - TICKS_PER_SOLVE + 1
    BY <1>0, <1>1, <1>4 DEF IsDated
  <2>4. \A t, a, b : IsNew(t, a) /\ IsNew(t, b) /\ a.by = b.by => a = b
    OBVIOUS
  <2>5. ASSUME NEW t \in Team, NEW a \in alerts[t]
        PROVE  a.tick \in Nat /\ a.tick <= now - TICKS_PER_SOLVE
    <3>1. /\ a.tick \in Nat /\ a.at \in Nat /\ a.tick <= a.at /\ a.at < now
          /\ a.at % TICKS_PER_SOLVE = 0
      BY <1>0, <1>2 DEF IsDated
    <3> HIDE DEF now
    <3>2. a.at + TICKS_PER_SOLVE <= now
      BY <1>0, <1>4, <3>1, SolvesApart
    <3> QED  BY <1>0, <3>1, <3>2
  <2> HIDE DEF IsNew
  <2>6. ASSUME NEW t \in Team, NEW a \in alerts'[t], NEW b \in alerts'[t],
               a.by = b.by, a.tick = b.tick
        PROVE  a = b
    <3>1. CASE a \in alerts[t] /\ b \in alerts[t]
      BY <2>6, <3>1 DEF ScopeInv, OnePulseOneAlert
    <3>2. CASE IsNew(t, a) /\ IsNew(t, b)
      BY <2>4, <2>6, <3>2
    <3>3. \A c, d : c \in alerts[t] /\ IsNew(t, d) => c.tick # d.tick
      <4>1. SUFFICES ASSUME NEW c \in alerts[t], NEW d, IsNew(t, d)
                     PROVE  c.tick # d.tick
        OBVIOUS
      <4>2. c.tick \in Nat /\ c.tick <= now - TICKS_PER_SOLVE
        BY <2>5
      <4>3. d.tick \in Nat /\ d.tick >= now - TICKS_PER_SOLVE + 1
        BY <2>3, <4>1
      <4> HIDE DEF now
      <4> QED  BY <1>0, <4>2, <4>3
    <3> QED  BY <2>2, <2>6, <3>1, <3>2, <3>3
  <2>7. \A t \in Team : \A a \in alerts'[t] : IsDated(a)'
    BY <1>2, <2>2, <2>3
  <2> QED  BY <1>1, <2>6, <2>7 DEF OnePulseOneAlert
<1> QED  BY <1>3, <1>4

\* Every step of a match keeps what the teams are shown honest.
LEMMA ScopeInvKept ==
  ASSUME ScopeInv, [Next]_vars
  PROVE  ScopeInv'
<1>0. RunsInv' /\ nextEntityId \in Nat /\ InWater \subseteq Nat
  BY RunsInvKept DEF ScopeInv
<1>1. ASSUME NEW b \in Boat, NEW wanted \in SUBSET Tubes(b), fire(b, wanted)
      PROVE  ScopeInv'
  <2>1. /\ launch(b, [i \in Launching(b, wanted) |-> tubes[b][i].weapon], tick)
        /\ tick' = tick /\ UNCHANGED <<destroyed, lastPing, exposed, contacts, alerts>>
    BY <1>1 DEF fire, fireTubes, visionVars
  <2> QED  BY <1>0, <2>1, IntoTheWater, OrdersTellNothing
<1>2. ASSUME NEW b \in Boat, dropNoisemaker(b)
      PROVE  ScopeInv'
  <2>1. /\ dropCountermeasure(b, tick)
        /\ tick' = tick /\ UNCHANGED <<destroyed, lastPing, exposed, contacts, alerts>>
    BY <1>2 DEF dropNoisemaker, dropGear, visionVars
  <2> QED  BY <1>0, <2>1, IntoTheWater, OrdersTellNothing
<1>3. ASSUME tick' = tick, UNCHANGED waterVars,
             UNCHANGED <<destroyed, lastPing, exposed, contacts, alerts>>
      PROVE  ScopeInv'
  BY <1>0, <1>3, OrdersTellNothing DEF waterVars, InWater
<1>4. ASSUME NEW b \in Boat, NEW i \in Tubes(b), NEW w \in Fits[b], NEW swap \in BOOLEAN,
             reload(b, i, w, swap)
      PROVE  ScopeInv'
  BY <1>3, <1>4 DEF reload, load, visionVars
<1>5. ASSUME NEW b \in Boat, NEW on \in BOOLEAN, switchSonar(b, on)
      PROVE  ScopeInv'
  BY <1>3, <1>5 DEF switchSonar, setActiveSonar, gearVars
<1>6. ASSUME NEW thrown \in BOOLEAN, Ticked(tick + 1, thrown), tick' = tick + 1
      PROVE  ScopeInv'
  <2>1. /\ nextEntityId' = nextEntityId /\ InWater' \subseteq InWater
        /\ VisionTick(tick + 1, scene.sonar, thrown)
    BY <1>6, WhatIsLeft DEF ScopeInv
  <2>2. \A t \in Team : \A e \in DOMAIN contacts'[t] : MarkerIsHonest(t, e)'
    BY <1>6, MarkersAfterATick
  <2>3. /\ lastPing' \in [Boat -> Nat] /\ \A b \in Boat : lastPing'[b] <= tick'
        /\ \A t \in Team : \A a \in alerts'[t] : IsDated(a)'
        /\ OnePulseOneAlert'
    BY <1>6, <2>1, AlertsAfterATick
  <2> QED  BY <1>0, <2>1, <2>2, <2>3 DEF ScopeInv
<1>7. Idle \/ UNCHANGED vars => ScopeInv'
  BY <1>3 DEF Idle, vars, worldVars, gearVars, visionVars
<1> QED  BY <1>1, <1>2, <1>4, <1>5, <1>6, <1>7, StepsOfTheWorld

\* So everything a team is shown stays so.
LEMMA ScopeInvAlways == Spec => []ScopeInv
<1>1. Init => ScopeInv
  <2>1. Init => RunsInv
    BY DEF Init, InitWater, NoWeapons, RunsInv, InWater
  <2>2. Init => /\ nextEntityId \in Nat /\ InWater \subseteq Nat
                /\ lastPing \in [Boat -> Nat] /\ \A b \in Boat : lastPing[b] <= tick
    BY DEF Init, InitWater, NoWeapons, InWater, InitVision
  <2>3. Init => /\ \A t \in Team : \A e \in DOMAIN contacts[t] : MarkerIsHonest(t, e)
                /\ \A t \in Team : alerts[t] = {}
    BY DEF Init, InitVision, NoContacts
  <2> QED  BY <2>1, <2>2, <2>3 DEF ScopeInv, OnePulseOneAlert
<1>2. ScopeInv /\ [Next]_vars => ScopeInv'
  BY ScopeInvKept
<1> QED  BY <1>1, <1>2, PTL DEF Spec

\* What a team is shown of the other is so: every marker is of an enemy that is there, however it
\* may end (drop); a decoy is seen through for good and only by a pulse (classifyDecoys, confirm);
\* and one pulse is one alert, though windows, holds and solves overlap and may throw (hearPings).
THEOREM ScopeStaysHonest == Spec => []ScopeIsHonest
BY ScopeInvAlways, ScopeInvIsEnough, PTL
=============================================================================
