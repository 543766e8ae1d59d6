---------------------------- MODULE PartsProofs ----------------------------
(***************************************************************************)
(* Two parts of a match by themselves, for any boats, loads, spots and     *)
(* times the assumptions of Tubes and Objectives allow: the loading gear   *)
(* keeps its invariant and its promise (Loading); the capture zones stay   *)
(* well-formed, no progress is ever inherited, and the board stays legal   *)
(* however many slots are filled on one tick.                              *)
(***************************************************************************)
EXTENDS Tubes, Objectives, TLAPS, FiniteSetTheorems

GearInv == GearTypeOK /\ TubesInv

---------------------------------------------------------------------------
(* One tube.                                                               *)

\* A boat's times: a reload takes longer than a tick.
LEMMA Times ==
  ASSUME NEW b \in Boat
  PROVE  /\ TickSpan \in Nat /\ TickSpan > 0
         /\ UNLOAD_SECONDS \in Nat /\ UNLOAD_SECONDS > 0
         /\ ReloadSeconds[b] \in Nat /\ ReloadSeconds[b] > TickSpan
         /\ DropReloadSeconds[b] \in Nat
         /\ Fits[b] \subseteq TubeLoad
         /\ TubeCount[b] \in Nat
<1>1. ReloadSeconds[b] \in Nat /\ ReloadSeconds[b] >= 2 * TickSpan
  BY GearAssumption
<1>2. DropReloadSeconds[b] \in Nat /\ Fits[b] \subseteq TubeLoad /\ TubeCount[b] \in Nat
  BY GearAssumption
<1>3. TickSpan \in Nat /\ TickSpan > 0 /\ UNLOAD_SECONDS \in Nat /\ UNLOAD_SECONDS > 0
  BY GearAssumption
<1> QED  BY <1>1, <1>2, <1>3

\* A shot leaves a tube that reloads (fired).
LEMMA FiredTube ==
  ASSUME NEW b \in Boat, NEW t \in TubeState, TubeInv(b, t)
  PROVE  fired(b, t) \in TubeState /\ TubeInv(b, fired(b, t))
<1>1. /\ ReloadSeconds[b] \in 1 .. ReloadSeconds[b] /\ ReloadSeconds[b] \in Nat
  BY Times
<1> QED  BY <1>1 DEF fired, TubeState, TubeStatus, TubeInv

\* An order to load leaves the tube well-formed, whatever it is doing (chooseNext, swapTo).
LEMMA OrderedTube ==
  ASSUME NEW b \in Boat, NEW t \in TubeState, TubeInv(b, t), NEW w \in Fits[b],
         NEW swap \in BOOLEAN
  PROVE  Ordered(t, w, swap) \in TubeState /\ TubeInv(b, Ordered(t, w, swap))
<1>1. w \in TubeLoad /\ UNLOAD_SECONDS \in Nat /\ UNLOAD_SECONDS \in 1 .. UNLOAD_SECONDS
  BY Times
<1>2. chooseNext(t, w) \in TubeState /\ TubeInv(b, chooseNext(t, w))
  BY <1>1 DEF chooseNext, TubeState, TubeStatus, TubeInv
<1>3. ASSUME NEW u \in TubeState, TubeInv(b, u)
      PROVE  swapTo(u, w) \in TubeState /\ TubeInv(b, swapTo(u, w))
  BY <1>1, <1>3 DEF swapTo, TubeState, TubeStatus, TubeInv
<1> QED  BY <1>2, <1>3 DEF Ordered

\* A tick leaves the tube well-formed: the leftover of an unload fits into the reload.
LEMMA SteppedTube ==
  ASSUME NEW b \in Boat, NEW t \in TubeState, TubeInv(b, t)
  PROVE  stepTube(b, t) \in TubeState /\ TubeInv(b, stepTube(b, t))
<1> DEFINE remaining == t.readyIn - TickSpan
           carried   == ReloadSeconds[b] + remaining
<1>1. t.readyIn \in Nat /\ t.status \in TubeStatus
  BY DEF TubeState
<1>2. CASE t.status = "loaded"
  BY <1>2 DEF stepTube
<1>3. CASE t.status # "loaded" /\ remaining > 0
  <2>1. stepTube(b, t) = [t EXCEPT !.readyIn = remaining]
    BY <1>3 DEF stepTube
  <2>2. remaining \in Nat /\ remaining <= t.readyIn
    BY <1>1, <1>3, Times
  <2> QED  BY <1>1, <1>3, <2>1, <2>2, Times DEF TubeState, TubeStatus, TubeInv
<1>4. CASE t.status = "unloading" /\ ~(remaining > 0)
  <2>1. carried \in 1 .. ReloadSeconds[b]
    <3>1. t.readyIn \in 1 .. UNLOAD_SECONDS
      BY <1>4 DEF TubeInv
    <3> QED  BY <1>1, <1>4, <3>1, Times
  <2> DEFINE u == [t EXCEPT !.weapon = t.next, !.status = "reloading", !.readyIn = carried]
  <2>2. stepTube(b, t) = u
    <3>1. carried > 0 /\ ~(remaining > 0) /\ t.status = "unloading"
      BY <1>4, <2>1, Times
    <3> HIDE DEF carried, remaining
    <3>2. u = [t EXCEPT !.weapon = t.next, !.status = "reloading",
                        !.readyIn = IF carried > 0 THEN carried ELSE 0]
      BY <3>1
    <3> QED  BY <3>1, <3>2, Zenon DEF stepTube, carried, remaining
  <2>3. carried \in Nat /\ t.next \in Fits[b] /\ t.next \in TubeLoad
    BY <2>1, Times DEF TubeState, TubeInv
  <2>4. u \in TubeState /\ u.weapon = t.next /\ u.next = t.next /\ u.status = "reloading"
        /\ u.readyIn = carried
    BY <2>3 DEF TubeState, TubeStatus
  <2> HIDE DEF u, carried
  <2>5. TubeInv(b, u)
    BY <2>1, <2>3, <2>4 DEF TubeInv
  <2> QED  BY <2>2, <2>4, <2>5
<1>5. CASE t.status = "reloading" /\ ~(remaining > 0)
  <2>1. stepTube(b, t) = [t EXCEPT !.status = "loaded", !.readyIn = 0]
    BY <1>5 DEF stepTube
  <2> HIDE DEF remaining
  <2>2. t.weapon \in Fits[b] /\ t.next \in Fits[b]
    BY DEF TubeInv
  <2>3. [t EXCEPT !.status = "loaded", !.readyIn = 0] \in TubeState
    BY DEF TubeState, TubeStatus
  <2> QED  BY <2>1, <2>2, <2>3 DEF TubeState, TubeInv
<1> QED  BY <1>1, <1>2, <1>3, <1>4, <1>5 DEF TubeStatus

---------------------------------------------------------------------------
(* The invariant.                                                          *)

LEMMA GearInvAtFirst ==
  ASSUME NEW start \in [Boat -> TubeLoad], \A b \in Boat : start[b] \in Fits[b], InitGear(start)
  PROVE  GearInv
<1>1. ASSUME NEW b \in Boat
      PROVE  /\ newTube(start[b]) \in TubeState /\ TubeInv(b, newTube(start[b]))
             /\ newLauncher \in CountermeasureState
  BY DEF newTube, TubeState, TubeStatus, TubeInv, newLauncher, CountermeasureState
<1> QED  BY <1>1 DEF InitGear, GearInv, GearTypeOK, TubesInv

\* What each boat's tubes and launcher need, one boat at a time.
LEMMA GearInvByBoat ==
  ASSUME tubes' = [b \in Boat |-> tubes'[b]],
         \A b \in Boat : tubes'[b] = [i \in Tubes(b) |-> tubes'[b][i]],
         \A b \in Boat : \A i \in Tubes(b) : tubes'[b][i] \in TubeState /\ TubeInv(b, tubes'[b][i]),
         launcher' \in [Boat -> CountermeasureState], destroyed' \subseteq Boat
  PROVE  GearInv'
<1>1. ASSUME NEW b \in Boat
      PROVE  tubes'[b] \in [Tubes(b) -> TubeState]
  OBVIOUS
<1> QED  BY <1>1, Zenon DEF GearInv, GearTypeOK, TubesInv

LEMMA GearInvKept ==
  ASSUME GearInv, [NextGear]_gearVars
  PROVE  GearInv'
<1> USE DEF GearInv
<1>0. /\ tubes = [b \in Boat |-> tubes[b]]
      /\ \A b \in Boat : tubes[b] = [i \in Tubes(b) |-> tubes[b][i]]
      /\ \A b \in Boat : \A i \in Tubes(b) : tubes[b][i] \in TubeState /\ TubeInv(b, tubes[b][i])
      /\ launcher \in [Boat -> CountermeasureState] /\ destroyed \subseteq Boat
  BY DEF GearTypeOK, TubesInv
<1>1. ASSUME NEW b \in Boat, NEW wanted \in SUBSET Tubes(b), fireTubes(b, wanted)
      PROVE  GearInv'
  <2>1. \A i \in Tubes(b) : fired(b, tubes[b][i]) \in TubeState /\ TubeInv(b, fired(b, tubes[b][i]))
    BY <1>0, FiredTube
  <2> DEFINE row == [i \in Tubes(b) |-> IF i \in Launching(b, wanted)
                                        THEN fired(b, tubes[b][i]) ELSE tubes[b][i]]
  <2>2. tubes' = [tubes EXCEPT ![b] = row] /\ UNCHANGED <<launcher, destroyed>>
    BY <1>1 DEF fireTubes
  <2>3. \A i \in Tubes(b) : row[i] \in TubeState /\ TubeInv(b, row[i])
    BY <1>0, <2>1
  <2>4. row = [i \in Tubes(b) |-> row[i]]
    OBVIOUS
  <2> HIDE DEF row
  <2> QED  BY <1>0, <2>2, <2>3, <2>4, GearInvByBoat
<1>2. ASSUME NEW b \in Boat, NEW i \in Tubes(b), NEW w \in Fits[b], NEW swap \in BOOLEAN,
             load(b, i, w, swap)
      PROVE  GearInv'
  <2> DEFINE u == Ordered(tubes[b][i], w, swap)
  <2>1. u \in TubeState /\ TubeInv(b, u)
    BY <1>0, OrderedTube
  <2>2. tubes' = [tubes EXCEPT ![b][i] = u] /\ UNCHANGED <<launcher, destroyed>>
    BY <1>2 DEF load
  <2> HIDE DEF u
  <2> QED  BY <1>0, <2>1, <2>2, GearInvByBoat
<1>3. ASSUME NEW b \in Boat, dropGear(b)
      PROVE  GearInv'
  <2>1. dropped(b) \in CountermeasureState
    BY Times DEF dropped, CountermeasureState
  <2>2. /\ tubes' = tubes /\ destroyed' = destroyed
        /\ launcher' = [launcher EXCEPT ![b] = dropped(b)]
    BY <1>3 DEF dropGear
  <2> QED  BY <1>0, <2>1, <2>2, GearInvByBoat
<1>4. CASE GearTick
  <2>1. ASSUME NEW b \in Boat
        PROVE  stepLauncher(launcher[b]) \in CountermeasureState
    <3>1. launcher[b] \in CountermeasureState
      BY <1>0
    <3> QED  BY <3>1, Times DEF stepLauncher, newLauncher, CountermeasureState
  <2>2. \A b \in Boat : \A i \in Tubes(b) :
          /\ stepTube(b, tubes[b][i]) \in TubeState
          /\ TubeInv(b, stepTube(b, tubes[b][i]))
    BY <1>0, SteppedTube
  <2>3. /\ tubes' = [b \in Boat |-> [i \in Tubes(b) |-> stepTube(b, tubes[b][i])]]
        /\ launcher' = [b \in Boat |-> stepLauncher(launcher[b])]
        /\ destroyed' \subseteq Boat
    BY <1>4 DEF GearTick, stepTubes
  <2> QED  BY <2>1, <2>2, <2>3, GearInvByBoat
<1>5. CASE UNCHANGED gearVars
  BY <1>5 DEF gearVars, GearTypeOK, TubesInv
<1> QED  BY <1>1, <1>2, <1>3, <1>4, <1>5, Zenon DEF NextGear

---------------------------------------------------------------------------
(* The promise.                                                            *)

Bar == [g \in Gun |-> Promised(g[1], tubes[g[1]][g[2]])]

LEMMA Guns ==
  /\ \A g \in Gun : g[1] \in Boat /\ g[2] \in Tubes(g[1]) /\ g = <<g[1], g[2]>>
  /\ \A b \in Boat : \A i \in Tubes(b) : <<b, i>> \in Gun
BY DEF Gun

\* A tube's promise is made as Loading's is, by what it is doing.
LEMMA PromiseOfAShot ==
  ASSUME NEW b \in Boat, NEW t \in TubeState, t.status = "loaded"
  PROVE  /\ Promised(b, t).left = 0
         /\ Promised(b, fired(b, t)) = [left |-> ReloadSeconds[b], shot |-> Promised(b, t).after,
                                       after |-> Promised(b, t).after]
BY DEF Promised, Remaining, fired, TubeState

LEMMA PromiseOfAnOrder ==
  ASSUME NEW b \in Boat, NEW t \in TubeState, TubeInv(b, t), NEW w \in Fits[b], NEW swap \in BOOLEAN,
         Ordered(t, w, swap) # t
  PROVE  LET p == Promised(b, t)
             q == Promised(b, Ordered(t, w, swap))
         IN \/ q = [left |-> p.left, shot |-> IF p.left > 0 THEN w ELSE p.shot, after |-> w]
            \/ p.left = 0 /\ q = [left |-> UNLOAD_SECONDS + ReloadSeconds[b], shot |-> w, after |-> w]
<1>0. t.readyIn \in Nat /\ ReloadSeconds[b] \in Nat /\ ReloadSeconds[b] > 0
      /\ UNLOAD_SECONDS \in Nat /\ UNLOAD_SECONDS > 0
  BY Times DEF TubeState
<1>1. CASE t.status = "loaded"
  <2>1. Promised(b, t) = [left |-> 0, shot |-> t.weapon, after |-> t.next]
    BY <1>1 DEF Promised, Remaining
  <2>2. CASE swap
    <3>1. Ordered(t, w, swap)
            = [t EXCEPT !.next = w, !.status = "unloading", !.readyIn = UNLOAD_SECONDS]
      BY <1>1, <2>2 DEF Ordered, chooseNext, swapTo, TubeState, TubeStatus
    <3>2. Promised(b, Ordered(t, w, swap))
            = [left |-> UNLOAD_SECONDS + ReloadSeconds[b], shot |-> w, after |-> w]
      BY <3>1 DEF Promised, Remaining, TubeState
    <3>3. Promised(b, t).left = 0
      BY <2>1
    <3> QED  BY <3>2, <3>3
  <2>3. CASE ~swap
    <3>1. Ordered(t, w, swap) = [t EXCEPT !.next = w]
      BY <1>1, <2>3 DEF Ordered, chooseNext, TubeState, TubeStatus
    <3>2. Promised(b, Ordered(t, w, swap)) = [left |-> 0, shot |-> t.weapon, after |-> w]
      BY <1>1, <3>1 DEF Promised, Remaining, TubeState
    <3>3. Promised(b, t).left = 0 /\ Promised(b, t).shot = t.weapon
      BY <2>1
    <3> QED  BY <3>2, <3>3
  <2> QED  BY <2>2, <2>3
<1>2. CASE t.status = "reloading"
  <2>1. t.weapon = t.next /\ t.readyIn > 0
    BY <1>0, <1>2 DEF TubeInv
  <2>2. Ordered(t, w, swap) = [t EXCEPT !.next = w, !.weapon = w]
    BY <1>2 DEF Ordered, chooseNext, swapTo, TubeState, TubeStatus
  <2>3. Promised(b, t) = [left |-> t.readyIn, shot |-> t.weapon, after |-> t.next]
    BY <1>2 DEF Promised, Remaining
  <2>4. Promised(b, Ordered(t, w, swap)) = [left |-> t.readyIn, shot |-> w, after |-> w]
    BY <1>2, <2>2 DEF Promised, Remaining, TubeState
  <2>5. Promised(b, t).left = t.readyIn
    BY <2>3
  <2> QED  BY <2>1, <2>4, <2>5
<1>3. CASE t.status = "unloading"
  <2>1. Ordered(t, w, swap) = [t EXCEPT !.next = w]
    BY <1>3 DEF Ordered, chooseNext, swapTo, TubeState, TubeStatus
  <2>2. Promised(b, t) = [left |-> t.readyIn + ReloadSeconds[b], shot |-> t.next, after |-> t.next]
    BY <1>3 DEF Promised, Remaining
  <2>3. Promised(b, Ordered(t, w, swap))
          = [left |-> t.readyIn + ReloadSeconds[b], shot |-> w, after |-> w]
    BY <1>3, <2>1 DEF Promised, Remaining, TubeState
  <2>4. t.readyIn + ReloadSeconds[b] > 0
    BY <1>0
  <2>5. Promised(b, t).left = t.readyIn + ReloadSeconds[b]
    BY <2>2
  <2> QED  BY <2>3, <2>4, <2>5
<1> QED  BY <1>1, <1>2, <1>3 DEF TubeState, TubeStatus

LEMMA PromiseOfATick ==
  ASSUME NEW b \in Boat, NEW t \in TubeState, TubeInv(b, t)
  PROVE  LET p == Promised(b, t)
         IN Promised(b, stepTube(b, t))
              = [left |-> IF p.left > TickSpan THEN p.left - TickSpan ELSE 0,
                 shot |-> p.shot, after |-> p.after]
<1>0. /\ t.readyIn \in Nat /\ ReloadSeconds[b] \in Nat /\ ReloadSeconds[b] > TickSpan
      /\ TickSpan \in Nat /\ TickSpan > 0
  BY Times DEF TubeState
<1>1. CASE t.status = "loaded"
  BY <1>0, <1>1 DEF stepTube, Promised, Remaining
<1>2. CASE t.status = "reloading" /\ t.readyIn > TickSpan
  <2>1. stepTube(b, t) = [t EXCEPT !.readyIn = t.readyIn - TickSpan]
    BY <1>0, <1>2 DEF stepTube
  <2>2. Promised(b, t) = [left |-> t.readyIn, shot |-> t.weapon, after |-> t.next]
    BY <1>2 DEF Promised, Remaining
  <2>3. Promised(b, stepTube(b, t))
          = [left |-> t.readyIn - TickSpan, shot |-> t.weapon, after |-> t.next]
    BY <1>2, <2>1 DEF Promised, Remaining, TubeState
  <2>4. Promised(b, t).left = t.readyIn /\ Promised(b, t).shot = t.weapon
        /\ Promised(b, t).after = t.next
    BY <2>2
  <2> QED  BY <1>0, <1>2, <2>3, <2>4
<1>3. CASE t.status = "reloading" /\ ~(t.readyIn > TickSpan)
  <2>1. stepTube(b, t) = [t EXCEPT !.status = "loaded", !.readyIn = 0]
    BY <1>0, <1>3 DEF stepTube
  <2>2. Promised(b, t) = [left |-> t.readyIn, shot |-> t.weapon, after |-> t.next]
    BY <1>3 DEF Promised, Remaining
  <2>3. Promised(b, stepTube(b, t)) = [left |-> 0, shot |-> t.weapon, after |-> t.next]
    BY <2>1 DEF Promised, Remaining, TubeState
  <2>4. Promised(b, t).left = t.readyIn /\ Promised(b, t).shot = t.weapon
        /\ Promised(b, t).after = t.next
    BY <2>2
  <2> QED  BY <1>0, <1>3, <2>3, <2>4
<1>4. CASE t.status = "unloading"
  <2>1. Promised(b, t) = [left |-> t.readyIn + ReloadSeconds[b], shot |-> t.next, after |-> t.next]
    BY <1>4 DEF Promised, Remaining
  <2>2. /\ Promised(b, t).left = t.readyIn + ReloadSeconds[b]
        /\ Promised(b, t).shot = t.next /\ Promised(b, t).after = t.next
    BY <2>1
  <2>3. Promised(b, stepTube(b, t)) = [left |-> t.readyIn + ReloadSeconds[b] - TickSpan,
                                      shot |-> t.next, after |-> t.next]
    <3>1. CASE t.readyIn > TickSpan
      <4>1. stepTube(b, t) = [t EXCEPT !.readyIn = t.readyIn - TickSpan]
        BY <1>0, <1>4, <3>1 DEF stepTube
      <4>2. Promised(b, stepTube(b, t)) = [left |-> (t.readyIn - TickSpan) + ReloadSeconds[b],
                                          shot |-> t.next, after |-> t.next]
        BY <1>4, <4>1 DEF Promised, Remaining, TubeState
      <4> QED  BY <1>0, <4>2
    <3>2. CASE ~(t.readyIn > TickSpan)
      <4>1. stepTube(b, t) = [t EXCEPT !.weapon = t.next, !.status = "reloading",
                                       !.readyIn = ReloadSeconds[b] + (t.readyIn - TickSpan)]
        <5> DEFINE remaining == t.readyIn - TickSpan
                   carried   == ReloadSeconds[b] + remaining
        <5>1. ~(remaining > 0) /\ carried > 0 /\ t.status # "loaded"
          BY <1>0, <1>4, <3>2
        <5> HIDE DEF remaining, carried
        <5>2. (IF carried > 0 THEN carried ELSE 0) = carried
          BY <5>1
        <5>3. stepTube(b, t) = [t EXCEPT !.weapon = t.next, !.status = "reloading",
                                         !.readyIn = IF carried > 0 THEN carried ELSE 0]
          BY <1>4, <5>1, Zenon DEF stepTube, remaining, carried
        <5> QED  BY <5>2, <5>3 DEF remaining, carried
      <4>2. Promised(b, stepTube(b, t)) = [left |-> ReloadSeconds[b] + (t.readyIn - TickSpan),
                                          shot |-> t.next, after |-> t.next]
        BY <4>1 DEF Promised, Remaining, TubeState
      <4> QED  BY <1>0, <4>2
    <3> QED  BY <3>1, <3>2
  <2>4. Promised(b, t).left > TickSpan
    BY <1>0, <2>2
  <2>5. Promised(b, stepTube(b, t)) = [left |-> Promised(b, t).left - TickSpan,
                                      shot |-> Promised(b, t).shot, after |-> Promised(b, t).after]
    BY <1>0, <2>2, <2>3
  <2> QED  BY <2>4, <2>5
<1> QED  BY <1>1, <1>2, <1>3, <1>4 DEF TubeState, TubeStatus

---------------------------------------------------------------------------
(* The refinement.                                                         *)

LEMMA BarAtFirst ==
  ASSUME NEW start \in [Boat -> TubeLoad], InitGear(start)
  PROVE  Gear!Init
<1>1. ASSUME NEW g \in Gun
      PROVE  Promised(g[1], tubes[g[1]][g[2]])
               = [left |-> 0, shot |-> start[g[1]], after |-> start[g[1]]]
  <2>1. tubes[g[1]][g[2]] = newTube(start[g[1]])
    BY Guns DEF InitGear
  <2> QED  BY <2>1 DEF newTube, Promised, Remaining
<1>2. ASSUME NEW g \in Gun
      PROVE  start[g[1]] \in TubeLoad
  BY Guns
<1>3. Bar \in [Gun -> [left : {0}, shot : TubeLoad, after : TubeLoad]]
  <2>1. ASSUME NEW g \in Gun
        PROVE  Bar[g] \in [left : {0}, shot : TubeLoad, after : TubeLoad]
    <3>1. Bar[g] = [left |-> 0, shot |-> start[g[1]], after |-> start[g[1]]]
      BY <1>1 DEF Bar
    <3>2. start[g[1]] \in TubeLoad
      BY <1>2
    <3> QED  BY <3>1, <3>2
  <2>2. Bar = [g \in Gun |-> Bar[g]]
    BY DEF Bar
  <2> DEFINE S == [left : {0}, shot : TubeLoad, after : TubeLoad]
  <2> HIDE DEF S
  <2>3. \A g \in Gun : Bar[g] \in S
    BY <2>1 DEF S
  <2>4. Bar \in [Gun -> S]
    BY <2>2, <2>3
  <2> QED  BY <2>4 DEF S
<1> QED  BY <1>3 DEF Gear!Init, Bar

LEMMA BarSteps ==
  ASSUME GearInv, [NextGear]_gearVars
  PROVE  Gear!Next \/ UNCHANGED Bar
<1>0. /\ tubes = [b \in Boat |-> tubes[b]]
      /\ \A b \in Boat : tubes[b] = [i \in Tubes(b) |-> tubes[b][i]]
      /\ \A b \in Boat : \A i \in Tubes(b) : tubes[b][i] \in TubeState /\ TubeInv(b, tubes[b][i])
  BY DEF GearInv, GearTypeOK, TubesInv
<1>1. ASSUME NEW b \in Boat, NEW wanted \in SUBSET Tubes(b), fireTubes(b, wanted)
      PROVE  Gear!Next
  <2> DEFINE S == {b} \X Launching(b, wanted)
  <2>1. Launching(b, wanted) \subseteq Tubes(b)
        /\ \A i \in Launching(b, wanted) : tubes[b][i].status = "loaded"
    BY DEF Launching, canFire
  <2>2. S \in SUBSET Gun
    BY <2>1, Guns
  <2>3. \A g \in S : Bar[g].left = 0
    BY <1>0, <2>1, <2>2, PromiseOfAShot DEF Bar
  <2>4. ASSUME NEW g \in Gun
        PROVE  Bar'[g] = IF g \in S THEN [left |-> ReloadSeconds[g[1]], shot |-> Bar[g].after,
                                           after |-> Bar[g].after]
                         ELSE Bar[g]
    <3>1. /\ g[1] \in Boat /\ g[2] \in Tubes(g[1]) /\ g = <<g[1], g[2]>>
      BY Guns
    <3>2. Bar[g] = Promised(g[1], tubes[g[1]][g[2]]) /\ Bar'[g] = Promised(g[1], tubes'[g[1]][g[2]])
      BY DEF Bar
    <3>3. CASE g \in S
      <4>1. g[1] = b /\ g[2] \in Launching(b, wanted)
        BY <3>3
      <4>2. tubes'[b][g[2]] = fired(b, tubes[b][g[2]])
        BY <1>0, <1>1, <3>1, <4>1 DEF fireTubes
      <4> QED  BY <1>0, <2>1, <3>1, <3>2, <3>3, <4>1, <4>2, PromiseOfAShot
    <3>4. CASE g \notin S
      <4>1. tubes'[g[1]][g[2]] = tubes[g[1]][g[2]]
        BY <1>0, <1>1, <3>1, <3>4 DEF fireTubes
      <4> QED  BY <3>2, <3>4, <4>1
    <3> QED  BY <3>3, <3>4
  <2>5. Gear!Shoot(S)
    BY <2>3, <2>4 DEF Gear!Shoot, Bar
  <2> QED  BY <2>2, <2>5 DEF Gear!Next
<1>2. ASSUME NEW b \in Boat, NEW i \in Tubes(b), NEW w \in Fits[b], NEW swap \in BOOLEAN,
             load(b, i, w, swap)
      PROVE  Gear!Next
  <2> DEFINE t == tubes[b][i]
             u == Ordered(t, w, swap)
             g == <<b, i>>
  <2>1. t \in TubeState /\ TubeInv(b, t) /\ u # t /\ w \in TubeLoad
    BY <1>0, <1>2, Times DEF load
  <2>2. g \in Gun /\ g[1] = b /\ g[2] = i
    BY Guns
  <2>3. ASSUME NEW h \in Gun
        PROVE  Bar'[h] = IF h = g THEN Promised(b, u) ELSE Bar[h]
    <3>1. /\ h[1] \in Boat /\ h[2] \in Tubes(h[1]) /\ h = <<h[1], h[2]>>
      BY Guns
    <3>2. Bar[h] = Promised(h[1], tubes[h[1]][h[2]]) /\ Bar'[h] = Promised(h[1], tubes'[h[1]][h[2]])
      BY DEF Bar
    <3>3. tubes' = [tubes EXCEPT ![b][i] = u]
      BY <1>2 DEF load
    <3> HIDE DEF u
    <3>4. CASE h = g
      BY <1>0, <2>2, <3>2, <3>3, <3>4
    <3>5. CASE h # g
      <4>1. tubes'[h[1]][h[2]] = tubes[h[1]][h[2]]
        BY <1>0, <3>1, <3>3, <3>5
      <4> QED  BY <3>2, <3>5, <4>1
    <3> QED  BY <3>4, <3>5
  <2>4. Bar[g] = Promised(b, t)
    BY <2>2 DEF Bar
  <2>5. \/ Promised(b, u) = [left |-> Bar[g].left, shot |-> IF Bar[g].left > 0 THEN w ELSE Bar[g].shot,
                             after |-> w]
        \/ Bar[g].left = 0 /\ Promised(b, u) = [left |-> UNLOAD_SECONDS + ReloadSeconds[b],
                                               shot |-> w, after |-> w]
    BY <2>1, <2>4, PromiseOfAnOrder
  <2>6. Bar[g] = [left |-> Bar[g].left, shot |-> Bar[g].shot, after |-> Bar[g].after]
    BY <2>4 DEF Promised
  <2> HIDE DEF t, u, g
  <2>7. Bar = [h \in Gun |-> Bar[h]] /\ Bar' = [h \in Gun |-> Bar'[h]]
    BY DEF Bar
  <2>8. Gear!Choose(g, w) \/ Gear!Swap(g, w)
    <3>1. CASE Promised(b, u) = [left |-> Bar[g].left, shot |-> IF Bar[g].left > 0 THEN w ELSE Bar[g].shot,
                             after |-> w]
      <4>1. Bar' = [Bar EXCEPT ![g].after = w, ![g].shot = IF Bar[g].left > 0 THEN w ELSE @]
        BY <2>2, <2>3, <2>6, <2>7, <3>1
      <4> QED  BY <4>1 DEF Gear!Choose, Bar
    <3>2. CASE Bar[g].left = 0 /\ Promised(b, u) = [left |-> UNLOAD_SECONDS + ReloadSeconds[b],
                                               shot |-> w, after |-> w]
      <4>1. Bar' = [Bar EXCEPT ![g] = [left |-> UNLOAD_SECONDS + ReloadSeconds[g[1]],
                                       shot |-> w, after |-> w]]
        BY <2>2, <2>3, <2>7, <3>2
      <4> QED  BY <2>2, <3>2, <4>1 DEF Gear!Swap, Bar
    <3> QED  BY <2>5, <3>1, <3>2
  <2> QED  BY <2>1, <2>2, <2>8 DEF Gear!Next
<1>3. ASSUME NEW b \in Boat, dropGear(b)
      PROVE  UNCHANGED Bar
  BY <1>3 DEF dropGear, Bar
<1>4. CASE GearTick
  <2>1. ASSUME NEW g \in Gun
        PROVE  Bar'[g] = [left |-> IF Bar[g].left > TickSpan THEN Bar[g].left - TickSpan ELSE 0,
                          shot |-> Bar[g].shot, after |-> Bar[g].after]
    <3>1. /\ g[1] \in Boat /\ g[2] \in Tubes(g[1])
      BY Guns
    <3>2. tubes'[g[1]][g[2]] = stepTube(g[1], tubes[g[1]][g[2]])
      BY <1>4, <3>1 DEF GearTick, stepTubes
    <3>3. Bar[g] = Promised(g[1], tubes[g[1]][g[2]]) /\ Bar'[g] = Promised(g[1], tubes'[g[1]][g[2]])
      BY DEF Bar
    <3> QED  BY <1>0, <3>1, <3>2, <3>3, PromiseOfATick
  <2>2. \A g \in Gun : Bar[g] = [left |-> Bar[g].left, shot |-> Bar[g].shot, after |-> Bar[g].after]
    BY DEF Bar, Promised
  <2>3. Bar' = [g \in Gun |-> [Bar[g] EXCEPT !.left = IF @ > TickSpan THEN @ - TickSpan ELSE 0]]
    <3>1. Bar' = [g \in Gun |-> Bar'[g]]
      BY DEF Bar
    <3>2. ASSUME NEW g \in Gun
          PROVE  Bar'[g] = [Bar[g] EXCEPT !.left = IF @ > TickSpan THEN @ - TickSpan ELSE 0]
      <4> DEFINE n == IF Bar[g].left > TickSpan THEN Bar[g].left - TickSpan ELSE 0
      <4>1. Bar'[g] = [left |-> n, shot |-> Bar[g].shot, after |-> Bar[g].after]
        BY <2>1
      <4>2. Bar[g] = [left |-> Bar[g].left, shot |-> Bar[g].shot, after |-> Bar[g].after]
        BY <2>2
      <4> HIDE DEF n
      <4>3. [Bar[g] EXCEPT !.left = n] = [left |-> n, shot |-> Bar[g].shot, after |-> Bar[g].after]
        BY <4>2
      <4> QED  BY <4>1, <4>3 DEF n
    <3> DEFINE F(g) == [Bar[g] EXCEPT !.left = IF @ > TickSpan THEN @ - TickSpan ELSE 0]
    <3>3. \A g \in Gun : Bar'[g] = F(g)
      BY <3>2
    <3> HIDE DEF F
    <3>4. Bar' = [g \in Gun |-> F(g)]
      BY <3>1, <3>3
    <3> QED  BY <3>4 DEF F
  <2>4. Gear!Elapse
    BY <2>3 DEF Gear!Elapse, Bar
  <2> QED  BY <2>4 DEF Gear!Next
<1>5. CASE UNCHANGED gearVars
  BY <1>5 DEF gearVars, Bar
<1> QED  BY <1>1, <1>2, <1>3, <1>4, <1>5, Zenon DEF NextGear

---------------------------------------------------------------------------

\* The gear by itself, whatever sinks: every tube stays well-formed, and whatever is ordered
\* between ticks keeps the promise of Loading.
THEOREM GearKeepsItsPromise == SpecGear => [](GearTypeOK /\ TubesInv) /\ ImplementsLoading
<1>1. ASSUME NEW start \in [Boat -> TubeLoad], (\A b \in Boat : start[b] \in Fits[b]) /\ InitGear(start)
      PROVE  GearInv /\ Gear!Init
  BY <1>1, GearInvAtFirst, BarAtFirst
<1>2. GearInv /\ [NextGear]_gearVars => GearInv'
  BY GearInvKept
<1>3. GearInv /\ [NextGear]_gearVars => [Gear!Next]_Bar
  BY BarSteps
<1>4. SpecGear => GearInv /\ Gear!Init
  BY <1>1 DEF SpecGear
<1>5. SpecGear => []GearInv
  BY <1>2, <1>4, PTL DEF SpecGear
<1>6. SpecGear => Gear!Init /\ [][Gear!Next]_Bar
  BY <1>3, <1>4, <1>5, PTL DEF SpecGear
<1> QED  BY <1>5, <1>6, PTL DEF GearInv, ImplementsLoading, Gear!Spec, Bar

---------------------------------------------------------------------------
(* The capture zones.                                                      *)

\* A zone that is arming is nobody's yet.
ArmingIsNobodys == \A l \in DOMAIN zones : zones[l].armingTicks > 0 => zones[l].capturing = None

ZonesInv == ZonesTypeOK /\ ProgressIsEarned /\ ArmingIsNobodys

---------------------------------------------------------------------------
(* Finite sets.                                                            *)

\* There are finitely many labels, so that slots can be counted.
LEMMA LabelsAreFinite ==
  ASSUME NEW S, S \subseteq Label
  PROVE  IsFiniteSet(S) /\ Cardinality(S) \in Nat
<1>1. IsFiniteSet(Label)
  BY FS_Interval, ObjectivesAssumption DEF Label
<1> QED  BY <1>1, FS_Subset, FS_CardinalityType

\* Of at most one thing, any two are the same.
LEMMA AtMostOne ==
  ASSUME NEW S, IsFiniteSet(S), ~(Cardinality(S) > 1), NEW x \in S, NEW y \in S
  PROVE  x = y
<1>1. Cardinality(S) \in Nat /\ Cardinality(S) # 0
  BY FS_CardinalityType, FS_EmptySet
<1>2. Cardinality(S) = 1
  BY <1>1
<1>3. \E z : S = {z}
  BY <1>2, FS_Singleton
<1> QED  BY <1>3

\* The teams in a circle are teams, and few.
LEMMA TeamsAreFinite ==
  ASSUME NEW zone, NEW afloat \in SUBSET Boat, NEW where
  PROVE  /\ TeamsInside(zone, afloat, where) \subseteq Team
         /\ IsFiniteSet(TeamsInside(zone, afloat, where))
<1> DEFINE S == {c \in afloat : withinZone(zone, where[c])}
<1>1. IsFiniteSet(S)
  BY FS_Subset, FleetAssumption
<1> DEFINE T == {TeamOf[b] : b \in S}
<1>2. [b \in S |-> TeamOf[b]] \in Surjection(S, T)
  BY Zenon DEF Surjection
<1>3. IsFiniteSet(T)
  <2> HIDE DEF S, T
  <2> QED  BY <1>1, <1>2, FS_Surjection
<1> QED  BY <1>3, FleetAssumption DEF TeamsInside

---------------------------------------------------------------------------
(* One zone, one tick.                                                     *)

\* Whatever is in the circle, a zone stays a zone where it is and under its id (advanceZone).
LEMMA AdvancedZone ==
  ASSUME NEW zone \in CaptureZone, NEW inside \in SUBSET Team
  PROVE  /\ advanceZone(zone, inside) \in CaptureZone
         /\ advanceZone(zone, inside).centre = zone.centre
         /\ advanceZone(zone, inside).id = zone.id
<1> DEFINE kept == IF zone.capturing \notin inside THEN 0 ELSE zone.progress
           held == IF zone.capturing \notin inside THEN None ELSE zone.capturing
<1>0. /\ CAPTURE_TICKS \in Nat /\ ARMING_TICKS \in Nat
      /\ zone.armingTicks \in 0 .. ARMING_TICKS /\ zone.progress \in 0 .. CAPTURE_TICKS
      /\ zone.capturing \in Team \cup {None}
  BY ObjectivesAssumption DEF CaptureZone
<1>1. kept \in 0 .. CAPTURE_TICKS /\ held \in Team \cup {None}
  BY <1>0
<1>2. CASE zone.armingTicks > 0
  BY <1>0, <1>2 DEF advanceZone, CaptureZone
<1>3. CASE ~(zone.armingTicks > 0) /\ Cardinality(inside) > 1
  <2>1. advanceZone(zone, inside)
          = [zone EXCEPT !.capturing = held, !.progress = kept, !.contested = TRUE]
    BY <1>3 DEF advanceZone
  <2> HIDE DEF kept, held
  <2> QED  BY <1>1, <2>1 DEF CaptureZone
<1>4. CASE ~(zone.armingTicks > 0) /\ ~(Cardinality(inside) > 1) /\ inside = {}
  <2>1. advanceZone(zone, inside)
          = [zone EXCEPT !.capturing = None, !.progress = 0, !.contested = FALSE]
    BY <1>4 DEF advanceZone
  <2>2. None \in Team \cup {None} /\ 0 \in 0 .. CAPTURE_TICKS
    BY <1>0
  <2> QED  BY <2>1, <2>2 DEF CaptureZone
<1>5. CASE ~(zone.armingTicks > 0) /\ ~(Cardinality(inside) > 1) /\ inside # {}
  <2> DEFINE more == IF kept < CAPTURE_TICKS THEN kept + 1 ELSE kept
             one  == CHOOSE t \in inside : TRUE
  <2>1. advanceZone(zone, inside)
          = [zone EXCEPT !.capturing = one, !.contested = FALSE, !.progress = more]
    BY <1>5 DEF advanceZone
  <2>2. one \in Team
    BY <1>5
  <2>3. more \in 0 .. CAPTURE_TICKS
    BY <1>0, <1>1
  <2> HIDE DEF more, one
  <2> QED  BY <2>1, <2>2, <2>3 DEF CaptureZone
<1> QED  BY <1>2, <1>3, <1>4, <1>5

\* A team's time in a circle goes on from tick to tick, or starts again.
StreakOn(n) == IF n < CAPTURE_TICKS THEN n + 1 ELSE CAPTURE_TICKS

\* What a zone shows is earned if what it showed was: by the team that is capturing it, in the
\* time it has been in the circle.
LEMMA EarnedByATick ==
  ASSUME NEW zone \in CaptureZone, NEW inside \in SUBSET Team, IsFiniteSet(inside),
         NEW time \in [Team -> 0 .. CAPTURE_TICKS],
         zone.armingTicks > 0 => zone.capturing = None,
         IF zone.capturing = None THEN zone.progress = 0
         ELSE zone.progress \in 1 .. CAPTURE_TICKS /\ zone.progress <= time[zone.capturing],
         NEW after, after = advanceZone(zone, inside)
  PROVE  /\ after.armingTicks > 0 => after.capturing = None
         /\ IF after.capturing = None THEN after.progress = 0
            ELSE /\ zone.armingTicks = 0 /\ after.capturing \in inside
                 /\ after.progress \in 1 .. CAPTURE_TICKS
                 /\ after.progress <= StreakOn(time[after.capturing])
<1>0. /\ CAPTURE_TICKS \in Nat /\ CAPTURE_TICKS > 0 /\ ARMING_TICKS \in Nat
      /\ zone.armingTicks \in 0 .. ARMING_TICKS /\ zone.progress \in 0 .. CAPTURE_TICKS
      /\ zone.capturing \in Team \cup {None} /\ None \notin Team
      /\ \A t \in Team : time[t] \in 0 .. CAPTURE_TICKS
  BY ObjectivesAssumption, FleetAssumption DEF CaptureZone
<1>1. CASE zone.armingTicks > 0
  <2>1. after.capturing = zone.capturing /\ after.progress = zone.progress
    BY <1>1 DEF advanceZone, CaptureZone
  <2> QED  BY <1>1, <2>1
<1>2. CASE zone.armingTicks = 0 /\ Cardinality(inside) > 1 /\ zone.capturing \notin inside
  <2>1. after = [zone EXCEPT !.capturing = None, !.progress = 0, !.contested = TRUE]
    BY <1>2 DEF advanceZone
  <2>2. after.capturing = None /\ after.progress = 0
    BY <2>1 DEF CaptureZone
  <2> QED  BY <2>2
<1>3. CASE zone.armingTicks = 0 /\ Cardinality(inside) > 1 /\ zone.capturing \in inside
  <2> DEFINE kept == IF zone.capturing \notin inside THEN 0 ELSE zone.progress
             held == IF zone.capturing \notin inside THEN None ELSE zone.capturing
  <2>1. after = [zone EXCEPT !.capturing = held, !.progress = kept, !.contested = TRUE]
    BY <1>3 DEF advanceZone
  <2>5. held = zone.capturing /\ kept = zone.progress
    BY <1>3
  <2> HIDE DEF kept, held
  <2>2. /\ after.capturing = zone.capturing /\ after.progress = zone.progress
        /\ after.armingTicks = zone.armingTicks
    BY <2>1, <2>5 DEF CaptureZone
  <2>3. zone.capturing # None /\ zone.capturing \in Team
    BY <1>0, <1>3
  <2>4. zone.progress <= StreakOn(time[zone.capturing])
    BY <1>0, <2>3 DEF StreakOn
  <2> QED  BY <1>3, <2>2, <2>3, <2>4
<1>4. CASE zone.armingTicks = 0 /\ ~(Cardinality(inside) > 1) /\ inside = {}
  <2>1. after = [zone EXCEPT !.capturing = None, !.progress = 0, !.contested = FALSE]
    BY <1>4 DEF advanceZone
  <2>2. after.capturing = None /\ after.progress = 0
    BY <2>1 DEF CaptureZone
  <2> QED  BY <2>2
<1>5. CASE zone.armingTicks = 0 /\ ~(Cardinality(inside) > 1) /\ inside # {}
  <2> DEFINE kept == IF zone.capturing \notin inside THEN 0 ELSE zone.progress
             more == IF kept < CAPTURE_TICKS THEN kept + 1 ELSE kept
             one  == CHOOSE t \in inside : TRUE
  <2>1. after = [zone EXCEPT !.capturing = one, !.contested = FALSE, !.progress = more]
    BY <1>5 DEF advanceZone
  <2>2. one \in inside /\ one \in Team /\ one # None
    BY <1>0, <1>5
  <2>3. zone.capturing \in inside => zone.capturing = one
    BY <1>5, <2>2, AtMostOne
  <2>4. kept \in 0 .. CAPTURE_TICKS /\ kept <= time[one]
    <3>1. CASE zone.capturing \in inside
      BY <1>0, <2>2, <2>3, <3>1
    <3>2. CASE zone.capturing \notin inside
      BY <1>0, <2>2, <3>2
    <3> QED  BY <3>1, <3>2
  <2> HIDE DEF kept
  <2>5. more \in 1 .. CAPTURE_TICKS /\ more <= StreakOn(time[one])
    BY <1>0, <2>2, <2>4 DEF StreakOn
  <2> HIDE DEF more, one
  <2>6. after.capturing = one /\ after.progress = more /\ after.armingTicks = 0
    BY <1>5, <2>1 DEF CaptureZone
  <2> QED  BY <1>5, <2>2, <2>5, <2>6
<1> QED  BY <1>0, <1>1, <1>2, <1>3, <1>4, <1>5

---------------------------------------------------------------------------
(* The board, a tick later.                                                *)

\* A tick moves no zone and renames none (Advanced).
LEMMA AdvancedBoard ==
  ASSUME ZonesInv, NEW afloat \in SUBSET Boat, NEW where,
         NEW board, board = Advanced(afloat, where)
  PROVE  /\ DOMAIN board = DOMAIN zones
         /\ \A l \in DOMAIN zones :
              /\ board[l] = advanceZone(zones[l], TeamsInside(zones[l], afloat, where))
              /\ board[l] \in CaptureZone
              /\ board[l].centre = zones[l].centre /\ board[l].id = zones[l].id
<1>1. /\ DOMAIN board = DOMAIN zones
      /\ \A l \in DOMAIN zones :
           board[l] = advanceZone(zones[l], TeamsInside(zones[l], afloat, where))
  BY DEF Advanced
<1>2. ASSUME NEW l \in DOMAIN zones
      PROVE  /\ board[l] \in CaptureZone
             /\ board[l].centre = zones[l].centre /\ board[l].id = zones[l].id
  <2>1. zones[l] \in CaptureZone
    BY DEF ZonesInv, ZonesTypeOK
  <2>2. TeamsInside(zones[l], afloat, where) \in SUBSET Team
    BY TeamsAreFinite
  <2> QED  BY <1>1, <2>1, <2>2, AdvancedZone
<1> QED  BY <1>1, <1>2

\* What a zone shows after a tick is in the streak of the team that shows it.
LEMMA AdvancedIsEarned ==
  ASSUME ZonesInv, NEW afloat \in SUBSET Boat, NEW where, NEW l \in DOMAIN zones,
         NEW after, after = Advanced(afloat, where)[l]
  PROVE  /\ after.armingTicks > 0 => after.capturing = None
         /\ IF after.capturing = None THEN after.progress = 0
            ELSE /\ after.progress \in 1 .. CAPTURE_TICKS
                 /\ after.progress <= Streaks(afloat, where)[l][after.capturing]
<1> DEFINE inside == TeamsInside(zones[l], afloat, where)
<1>1. /\ l \in Label /\ zones[l] \in CaptureZone /\ streak[l] \in [Team -> 0 .. CAPTURE_TICKS]
      /\ zones[l].armingTicks > 0 => zones[l].capturing = None
      /\ IF zones[l].capturing = None THEN zones[l].progress = 0
         ELSE /\ zones[l].progress \in 1 .. CAPTURE_TICKS
              /\ zones[l].progress <= streak[l][zones[l].capturing]
  BY DEF ZonesInv, ZonesTypeOK, ProgressIsEarned, ArmingIsNobodys
<1>2. inside \in SUBSET Team /\ IsFiniteSet(inside) /\ after = advanceZone(zones[l], inside)
  BY TeamsAreFinite, AdvancedBoard
<1>3. /\ after.armingTicks > 0 => after.capturing = None
      /\ IF after.capturing = None THEN after.progress = 0
         ELSE /\ zones[l].armingTicks = 0 /\ after.capturing \in inside
              /\ after.progress \in 1 .. CAPTURE_TICKS
              /\ after.progress <= StreakOn(streak[l][after.capturing])
  BY <1>1, <1>2, EarnedByATick
<1>4. ASSUME NEW t \in inside, zones[l].armingTicks = 0
      PROVE  Streaks(afloat, where)[l][t] = StreakOn(streak[l][t])
  BY <1>1, <1>2, <1>4 DEF Streaks, StreakOn
<1> QED  BY <1>3, <1>4

\* Streaks stay within the time a capture takes (Streaks).
LEMMA StreaksTyped ==
  ASSUME ZonesInv, NEW afloat, NEW where
  PROVE  Streaks(afloat, where) \in [Label -> [Team -> 0 .. CAPTURE_TICKS]]
<1>1. CAPTURE_TICKS \in Nat /\ \A l \in Label, t \in Team : streak[l][t] \in 0 .. CAPTURE_TICKS
  BY ObjectivesAssumption DEF ZonesInv, ZonesTypeOK
<1>2. \A l \in Label, t \in Team :
        (IF streak[l][t] < CAPTURE_TICKS THEN streak[l][t] + 1 ELSE CAPTURE_TICKS)
          \in 0 .. CAPTURE_TICKS
  BY <1>1
<1>3. 0 \in 0 .. CAPTURE_TICKS
  BY <1>1
<1>4. \A l \in Label, t \in Team : Streaks(afloat, where)[l][t] \in 0 .. CAPTURE_TICKS
  BY <1>2, <1>3 DEF Streaks
<1>5. Streaks(afloat, where) = [l \in Label |-> [t \in Team |-> Streaks(afloat, where)[l][t]]]
  BY Zenon DEF Streaks
<1> QED  BY <1>4, <1>5

---------------------------------------------------------------------------
(* Filling slots.                                                          *)

\* A slot is filled with a spot of its pool, one that was vacant (Placements).
LEMMA Placed ==
  ASSUME NEW left, NEW clearOf, NEW p \in Placements(left, clearOf)
  PROVE  /\ DOMAIN p \subseteq Label \ DOMAIN left
         /\ \A l \in DOMAIN p :
              /\ p[l] \in Spot
              /\ p[l] \in SpawnPool(Centres(left) \cup {p[m] : m \in {k \in DOMAIN p : k < l}},
                                    clearOf)
<1>1. PICK S \in SUBSET vacantLabels(left) : p \in [S -> Spot]
  BY DEF Placements
<1>2. DOMAIN p = S /\ S \subseteq Label \ DOMAIN left
  BY <1>1 DEF vacantLabels
<1> QED  BY <1>1, <1>2 DEF Placements, vacantLabels

\* A board with zones placed on it, the ids from n on.
Filled(left, p, n, arming) ==
  [l \in DOMAIN left \cup DOMAIN p |->
     IF l \in DOMAIN p
     THEN spawnZone(n + Cardinality({k \in DOMAIN p : k < l}), p[l], arming)
     ELSE left[l]]

\* What filling slots makes of a board: the zones it had, and new ones that are nobody's.
WellFilled(left, p, n, new) ==
  /\ DOMAIN new = DOMAIN left \cup DOMAIN p /\ DOMAIN new \subseteq Label
  /\ \A l \in DOMAIN new : new[l] \in CaptureZone
  /\ \A l \in DOMAIN p : /\ new[l].capturing = None /\ new[l].progress = 0
                        /\ new[l].centre = p[l]
                        /\ new[l].id = n + Cardinality({k \in DOMAIN p : k < l})
  /\ \A l \in DOMAIN left : l \notin DOMAIN p /\ new[l] = left[l]

\* Filling slots does just that (spawnZone).
LEMMA FilledTyped ==
  ASSUME NEW left, DOMAIN left \subseteq Label, \A l \in DOMAIN left : left[l] \in CaptureZone,
         NEW clearOf, NEW p \in Placements(left, clearOf), NEW n \in Nat,
         NEW arming \in 0 .. ARMING_TICKS
  PROVE  WellFilled(left, p, n, Filled(left, p, n, arming))
<1> DEFINE new == Filled(left, p, n, arming)
<1>1. /\ DOMAIN p \subseteq Label \ DOMAIN left /\ \A l \in DOMAIN p : p[l] \in Spot
  BY Placed
<1>2. ASSUME NEW l \in DOMAIN p
      PROVE  n + Cardinality({k \in DOMAIN p : k < l}) \in Nat
  <2>1. Cardinality({k \in DOMAIN p : k < l}) \in Nat
    BY <1>1, LabelsAreFinite
  <2> QED  BY <2>1
<1>3. /\ DOMAIN new = DOMAIN left \cup DOMAIN p
      /\ \A l \in DOMAIN p : new[l] = spawnZone(n + Cardinality({k \in DOMAIN p : k < l}), p[l], arming)
      /\ \A l \in DOMAIN left : l \notin DOMAIN p /\ new[l] = left[l]
  BY <1>1 DEF Filled
<1>4. 0 \in 0 .. CAPTURE_TICKS
  BY ObjectivesAssumption
<1>5. ASSUME NEW i \in Nat, NEW s \in Spot
      PROVE  /\ spawnZone(i, s, arming) \in CaptureZone
             /\ spawnZone(i, s, arming).capturing = None /\ spawnZone(i, s, arming).progress = 0
             /\ spawnZone(i, s, arming).centre = s /\ spawnZone(i, s, arming).id = i
  BY <1>4 DEF spawnZone, CaptureZone
<1>6. ASSUME NEW l \in DOMAIN p
      PROVE  /\ new[l] \in CaptureZone /\ new[l].capturing = None /\ new[l].progress = 0
             /\ new[l].centre = p[l] /\ new[l].id = n + Cardinality({k \in DOMAIN p : k < l})
  <2> DEFINE i == n + Cardinality({k \in DOMAIN p : k < l})
  <2>1. i \in Nat /\ p[l] \in Spot /\ new[l] = spawnZone(i, p[l], arming)
    BY <1>1, <1>2, <1>3
  <2> HIDE DEF i
  <2>2. /\ new[l] \in CaptureZone /\ new[l].capturing = None /\ new[l].progress = 0
        /\ new[l].centre = p[l] /\ new[l].id = i
    BY <1>5, <2>1
  <2> QED  BY <2>2 DEF i
<1> QED  BY <1>1, <1>3, <1>6 DEF WellFilled

---------------------------------------------------------------------------
(* Progress through a tick and through a match.                            *)

\* A tick, whatever falls on it, leaves every zone's progress earned (ZonesTick).
LEMMA ZonesInvKept ==
  ASSUME ZonesInv, NEW afloat \in SUBSET Boat, NEW where, ZonesTick(afloat, where)
  PROVE  ZonesInv'
<1> DEFINE board == Advanced(afloat, where)
           taken == Captured(board)
           left  == retire(board, taken)
           time  == Streaks(afloat, where)
<1>0. /\ DOMAIN zones \subseteq Label /\ \A l \in DOMAIN zones : zones[l] \in CaptureZone
      /\ scores \in [Team -> Nat] /\ nextZoneId \in Nat
      /\ time \in [Label -> [Team -> 0 .. CAPTURE_TICKS]]
  BY StreaksTyped DEF ZonesInv, ZonesTypeOK
<1>1. /\ DOMAIN board = DOMAIN zones
      /\ \A l \in DOMAIN zones :
           /\ board[l] \in CaptureZone
           /\ board[l].armingTicks > 0 => board[l].capturing = None
           /\ IF board[l].capturing = None THEN board[l].progress = 0
              ELSE /\ board[l].progress \in 1 .. CAPTURE_TICKS
                   /\ board[l].progress <= time[l][board[l].capturing]
  BY AdvancedBoard, AdvancedIsEarned
<1>2. CASE taken = {}
  <2>1. /\ zones' = board /\ streak' = time
        /\ scores' = scores /\ nextZoneId' = nextZoneId
    BY <1>2 DEF ZonesTick
  <2> HIDE DEF board, taken, left, time
  <2> QED  BY <1>0, <1>1, <2>1 DEF ZonesInv, ZonesTypeOK, ProgressIsEarned, ArmingIsNobodys
<1>3. CASE taken # {}
  <2> DEFINE gone == {board[l].centre : l \in taken}
  <2>1. PICK p \in Placements(left, gone) :
          /\ zones' = fillVacancies(left, p, ARMING_TICKS)
          /\ nextZoneId' = nextZoneId + Cardinality(DOMAIN p)
          /\ scores' = tally(board, taken)
          /\ streak' = [l \in Label |-> IF l \in taken \cup DOMAIN p THEN NoStreak ELSE time[l]]
    BY <1>3 DEF ZonesTick
  <2>2. /\ taken \subseteq DOMAIN board /\ DOMAIN left = DOMAIN board \ taken
        /\ \A l \in DOMAIN left : left[l] = board[l]
    BY DEF Captured, retire
  <2>3. zones' = Filled(left, p, nextZoneId, ARMING_TICKS)
    BY <2>1 DEF fillVacancies, Filled
  <2>4. ARMING_TICKS \in 0 .. ARMING_TICKS
    BY ObjectivesAssumption
  <2>5. tally(board, taken) \in [Team -> Nat]
    <3>1. ASSUME NEW t \in Team
          PROVE  Cardinality({l \in taken : board[l].capturing = t}) \in Nat
      BY <1>0, <1>1, <2>2, LabelsAreFinite
    <3> QED  BY <1>0, <3>1 DEF tally
  <2> HIDE DEF board, taken, left, time, gone
  <2>6. DOMAIN left \subseteq Label /\ \A l \in DOMAIN left : left[l] \in CaptureZone
    BY <1>0, <1>1, <2>2
  <2>7. /\ DOMAIN zones' = DOMAIN left \cup DOMAIN p /\ DOMAIN zones' \subseteq Label
        /\ \A l \in DOMAIN zones' : zones'[l] \in CaptureZone
        /\ \A l \in DOMAIN p : zones'[l].capturing = None /\ zones'[l].progress = 0
        /\ \A l \in DOMAIN left : l \notin DOMAIN p /\ zones'[l] = left[l]
    <3>1. p \in Placements(left, gone) /\ nextZoneId \in Nat
      BY <1>0
    <3>2. WellFilled(left, p, nextZoneId, zones')
      BY <2>3, <2>4, <2>6, <3>1, FilledTyped
    <3> QED  BY <3>2 DEF WellFilled
  <2>8. IsFiniteSet(DOMAIN p) /\ Cardinality(DOMAIN p) \in Nat
    BY <2>7, LabelsAreFinite
  <2>9. nextZoneId' \in Nat /\ scores' \in [Team -> Nat]
    BY <1>0, <2>1, <2>5, <2>8
  <2>10. streak' \in [Label -> [Team -> 0 .. CAPTURE_TICKS]]
    <3>1. NoStreak \in [Team -> 0 .. CAPTURE_TICKS]
      BY ObjectivesAssumption DEF NoStreak
    <3> QED  BY <1>0, <2>1, <3>1
  <2>11. \A l \in DOMAIN left : l \notin taken /\ streak'[l] = time[l]
    BY <2>1, <2>2, <2>6, <2>7
  <2>12. ZonesTypeOK'
    BY <2>7, <2>9, <2>10 DEF ZonesTypeOK
  <2>13. ASSUME NEW l \in DOMAIN zones'
         PROVE  /\ zones'[l].armingTicks > 0 => zones'[l].capturing = None
                /\ IF zones'[l].capturing = None THEN zones'[l].progress = 0
                   ELSE /\ zones'[l].progress \in 1 .. CAPTURE_TICKS
                        /\ zones'[l].progress <= streak'[l][zones'[l].capturing]
    <3>1. CASE l \in DOMAIN p
      BY <2>7, <3>1
    <3>2. CASE l \in DOMAIN left
      <4>1. zones'[l] = board[l] /\ streak'[l] = time[l] /\ l \in DOMAIN zones
        BY <1>1, <2>2, <2>7, <2>11, <3>2
      <4> QED  BY <1>1, <4>1
    <3> QED  BY <2>7, <3>1, <3>2
  <2> QED  BY <2>12, <2>13 DEF ZonesInv, ProgressIsEarned, ArmingIsNobodys
<1> QED  BY <1>2, <1>3

\* The opening layout is slots filled on an empty board.
LEMMA OpeningIsFilled ==
  ASSUME NEW p \in Placements(EmptyBoard, {}),
         zones = [l \in DOMAIN p |-> spawnZone(Cardinality({k \in DOMAIN p : k < l}), p[l], 0)]
  PROVE  zones = Filled(EmptyBoard, p, 0, 0) /\ DOMAIN p \subseteq Label
<1>1. DOMAIN p \subseteq Label /\ DOMAIN EmptyBoard = {}
  BY Placed DEF EmptyBoard
<1>2. ASSUME NEW l \in DOMAIN p
      PROVE  0 + Cardinality({k \in DOMAIN p : k < l}) = Cardinality({k \in DOMAIN p : k < l})
  <2>1. Cardinality({k \in DOMAIN p : k < l}) \in Nat
    BY <1>1, LabelsAreFinite
  <2> QED  BY <2>1
<1>3. DOMAIN EmptyBoard \cup DOMAIN p = DOMAIN p
  BY <1>1
<1> QED  BY <1>1, <1>2, <1>3 DEF Filled

\* The opening layout is nobody's (InitBoard).
LEMMA ZonesInvAtFirst ==
  ASSUME NEW objectives \in BOOLEAN, InitBoard(objectives)
  PROVE  ZonesInv
<1>1. ASSUME NEW p \in Placements(EmptyBoard, {}),
             zones = [l \in DOMAIN p |-> spawnZone(Cardinality({k \in DOMAIN p : k < l}), p[l], 0)]
      PROVE  zones = Filled(EmptyBoard, p, 0, 0) /\ DOMAIN p \subseteq Label
  BY <1>1, OpeningIsFilled
<1>2. /\ DOMAIN zones \subseteq Label
      /\ \A l \in DOMAIN zones : /\ zones[l] \in CaptureZone
                                /\ zones[l].capturing = None /\ zones[l].progress = 0
  <2>1. CASE zones = EmptyBoard
    BY <2>1 DEF EmptyBoard
  <2>2. ASSUME NEW p \in Placements(EmptyBoard, {}), zones = Filled(EmptyBoard, p, 0, 0)
        PROVE  <1>2!:
    <3>1. /\ 0 \in 0 .. ARMING_TICKS /\ 0 \in Nat
          /\ DOMAIN EmptyBoard = {} /\ DOMAIN EmptyBoard \subseteq Label
          /\ \A l \in DOMAIN EmptyBoard : EmptyBoard[l] \in CaptureZone
      BY ObjectivesAssumption DEF EmptyBoard
    <3>2. WellFilled(EmptyBoard, p, 0, zones)
      BY <2>2, <3>1, FilledTyped
    <3> QED  BY <3>1, <3>2 DEF WellFilled
  <2> QED  BY <1>1, <2>1, <2>2 DEF InitBoard
<1>3. scores \in [Team -> Nat] /\ nextZoneId \in Nat
  BY <1>2, LabelsAreFinite DEF InitBoard
<1>4. streak \in [Label -> [Team -> 0 .. CAPTURE_TICKS]]
  BY ObjectivesAssumption DEF InitBoard, NoStreak
<1> QED  BY <1>2, <1>3, <1>4 DEF ZonesInv, ZonesTypeOK, ProgressIsEarned, ArmingIsNobodys

\* A zone shows the progress of the team that made it, whoever comes and goes, for as long as
\* the match lasts (advanceZone, retire, fillVacancies).
THEOREM ProgressStaysEarned == SpecZones => [](ZonesTypeOK /\ ProgressIsEarned)
<1>1. InitZones => ZonesInv
  BY ZonesInvAtFirst DEF InitZones
<1>2. ZonesInv /\ [NextZones]_<<zoneVars, destroyed>> => ZonesInv'
  <2>1. ASSUME ZonesInv, NextZones PROVE ZonesInv'
    <3>1. PICK where \in [Boat -> Place] : ZonesTick(Boat \ destroyed', where)
      BY <2>1 DEF NextZones
    <3>2. Boat \ destroyed' \in SUBSET Boat
      OBVIOUS
    <3> QED  BY <2>1, <3>1, <3>2, ZonesInvKept
  <2>2. ASSUME ZonesInv, UNCHANGED <<zoneVars, destroyed>> PROVE ZonesInv'
    BY <2>2 DEF zoneVars, ZonesInv, ZonesTypeOK, ProgressIsEarned, ArmingIsNobodys
  <2> QED  BY <2>1, <2>2
<1> QED  BY <1>1, <1>2, PTL DEF SpecZones, ZonesInv

---------------------------------------------------------------------------
(* Legal boards.                                                           *)

\* BoardIsLegal, of any board and the ids spent so far.
Legal(board, n) ==
  /\ \A l, m \in DOMAIN board : l # m =>
       /\ Distance(board[l].centre, board[m].centre) >= 2 * OBJECTIVE_RADIUS
       /\ board[l].id # board[m].id
  /\ Cardinality({l \in DOMAIN board : board[l].centre \in Deep}) <= MAX_DEEP_OBJECTIVES
  /\ \A l \in DOMAIN board : board[l].id < n

\* Distances between spots.
LEMMA Distances ==
  ASSUME NEW x \in Spot, NEW y \in Spot
  PROVE  /\ x \in Int /\ y \in Int /\ Distance(x, y) \in Int /\ Distance(x, y) = Distance(y, x)
         /\ x = y => Distance(x, y) = 0
<1>1. x \in Int /\ y \in Int
  BY ObjectivesAssumption
<1> QED  BY <1>1 DEF Distance

\* A spot of the pool is a diameter away from every standing zone, and deep only if it is not
\* one deep zone too many (SpawnPool).
LEMMA PoolIsClear ==
  ASSUME NEW standing \in SUBSET Spot, NEW clearOf, NEW s \in SpawnPool(standing, clearOf)
  PROVE  /\ s \in Spot
         /\ \A o \in standing : Distance(s, o) >= 4
         /\ s \in Deep => Cardinality(standing \cap Deep) < MAX_DEEP_OBJECTIVES
<1> DEFINE allowed == Cardinality(standing \cap Deep) < MAX_DEEP_OBJECTIVES
<1>1. PICK sep \in {10, 5, 4} : s \in candidateCentres(standing \cup clearOf, sep, allowed)
  BY DEF SpawnPool
<1>2. s \in Spot /\ (s \in Deep => allowed) /\ \A o \in standing : Distance(s, o) >= sep
  BY <1>1 DEF candidateCentres
<1>3. \A o \in standing : Distance(s, o) \in Int
  BY <1>2, Distances
<1> QED  BY <1>2, <1>3

\* A set of labels that is not empty has a last one.
LEMMA LastLabel ==
  ASSUME NEW S, S \subseteq Label, S # {}
  PROVE  \E m \in S : \A l \in S : l <= m
<1>1. IsFiniteSet(S) /\ \A k \in S : k \in Int
  <2>1. IsFiniteSet(S)
    BY LabelsAreFinite
  <2>2. \A k \in S : k \in Int
    BY ObjectivesAssumption DEF Label
  <2> QED  BY <2>1, <2>2
<1>0. FiniteSubsetsOf(S) = SUBSET S
  BY <1>1, FS_FiniteSubsetsOfFinite
<1> DEFINE Later(l) == {k \in S : k > l}
           T == {Later(l) : l \in S}
<1>2. T \subseteq FiniteSubsetsOf(S) /\ T # {}
  <2>1. ASSUME NEW y \in T
        PROVE  y \in SUBSET S
    <3>1. PICK l \in S : y = Later(l)
      OBVIOUS
    <3> QED  BY <3>1
  <2>2. T # {}
    <3>1. PICK l \in S : TRUE
      OBVIOUS
    <3>2. Later(l) \in T
      BY <3>1
    <3> QED  BY <3>2
  <2> HIDE DEF T
  <2> QED  BY <1>0, <2>1, <2>2
<1>3. PICK x \in T : \A y \in T : ~(<<y, x>> \in StrictSubsetOrdering(S))
  <2> HIDE DEF T
  <2> QED  BY <1>2, FS_StrictSubsetOrderingWellFounded, WFMin
<1>4. PICK m \in S : x = Later(m)
  BY <1>3
<1>5. ASSUME NEW l \in S, ~(l <= m)
      PROVE  FALSE
  <2>1. l > m /\ l \in Int /\ m \in Int
    BY <1>1, <1>5
  <2>2. Later(l) \subseteq Later(m) /\ l \in Later(m) /\ l \notin Later(l)
    <3>1. ASSUME NEW k \in S, k > l PROVE k > m
      <4>1. k \in Int
        BY <1>1
      <4> QED  BY <2>1, <3>1, <4>1
    <3>2. ~(l > l)
      BY <2>1
    <3>3. Later(l) \subseteq Later(m)
      BY <3>1
    <3> QED  BY <2>1, <3>2, <3>3
  <2>3. <<Later(l), Later(m)>> \in StrictSubsetOrdering(S)
    BY <2>2 DEF StrictSubsetOrdering
  <2> QED  BY <1>3, <1>4, <2>3
<1> QED  BY <1>5

\* Zones placed on one tick have ids of their own: the earlier ones are fewer.
LEMMA EarlierAreFewer ==
  ASSUME NEW S, S \subseteq Label, NEW l \in S
  PROVE  /\ Cardinality({k \in S : k < l}) < Cardinality(S)
         /\ \A m \in S : l < m => Cardinality({k \in S : k < l}) < Cardinality({k \in S : k < m})
<1>1. \A T : T \subseteq Label => IsFiniteSet(T) /\ Cardinality(T) \in Nat
  BY LabelsAreFinite
<1>2. \A k \in S : k \in Int
  BY ObjectivesAssumption DEF Label
<1>3. ASSUME NEW T, T \subseteq S, {k \in S : k < l} \subseteq T, l \in T
      PROVE  Cardinality({k \in S : k < l}) < Cardinality(T)
  <2> DEFINE E == {k \in S : k < l}
  <2>1. IsFiniteSet(T) /\ Cardinality(T) \in Nat /\ Cardinality(E) \in Nat
    BY <1>1, <1>3
  <2>2. E \in SUBSET T /\ E # T
    BY <1>2, <1>3
  <2> HIDE DEF E
  <2>3. Cardinality(E) <= Cardinality(T) /\ Cardinality(E) # Cardinality(T)
    BY <2>1, <2>2, FS_Subset
  <2> QED  BY <2>1, <2>3 DEF E
<1>4. Cardinality({k \in S : k < l}) < Cardinality(S)
  BY <1>3
<1>5. ASSUME NEW m \in S, l < m
      PROVE  Cardinality({k \in S : k < l}) < Cardinality({k \in S : k < m})
  <2>1. ASSUME NEW k \in S, k < l PROVE k < m
    <3>1. k \in Int /\ l \in Int /\ m \in Int
      BY <1>2
    <3> QED  BY <1>5, <2>1, <3>1
  <2> DEFINE E == {k \in S : k < m}
  <2>2. E \subseteq S /\ {k \in S : k < l} \subseteq E /\ l \in E
    BY <1>5, <2>1
  <2> HIDE DEF E
  <2>3. Cardinality({k \in S : k < l}) < Cardinality(E)
    BY <1>3, <2>2
  <2> QED  BY <2>3 DEF E
<1> QED  BY <1>4, <1>5

\* The zones standing before the slot l is filled.
Before(left, p, l) == Centres(left) \cup {p[k] : k \in {j \in DOMAIN p : j < l}}

\* A new zone is clear of those standing before it.
LEMMA PlacedIsClear ==
  ASSUME NEW left, \A l \in DOMAIN left : left[l] \in CaptureZone,
         NEW clearOf, NEW p \in Placements(left, clearOf), NEW l \in DOMAIN p
  PROVE  /\ Before(left, p, l) \subseteq Spot /\ p[l] \in Spot
         /\ \A o \in Before(left, p, l) : Distance(p[l], o) >= 4
         /\ p[l] \in Deep =>
              Cardinality(Before(left, p, l) \cap Deep) < MAX_DEEP_OBJECTIVES
<1>1. p[l] \in SpawnPool(Before(left, p, l), clearOf)
  BY Placed DEF Before
<1>2. Before(left, p, l) \in SUBSET Spot
  <2>1. \A k \in DOMAIN p : p[k] \in Spot
    BY Placed
  <2>2. \A k \in DOMAIN left : left[k].centre \in Spot
    BY DEF CaptureZone
  <2> QED  BY <2>1, <2>2 DEF Before, Centres
<1> QED  BY <1>1, <1>2, PoolIsClear

\* Of the deep zones of a filled board, the last one placed was allowed to be: so they are no
\* more than MAX_DEEP_OBJECTIVES, each at a centre of its own.
LEMMA FewAreDeep ==
  ASSUME NEW left, NEW p, NEW new, NEW m \in DOMAIN p, NEW D, IsFiniteSet(D), m \in D,
         D \subseteq DOMAIN left \cup DOMAIN p,
         \A l \in D : l \in DOMAIN p => l = m \/ l < m,
         \A l \in DOMAIN left : l \notin DOMAIN p /\ new[l] = left[l],
         \A l \in DOMAIN p : new[l].centre = p[l],
         \A l \in D : new[l].centre \in Deep,
         \A l, k \in D : l # k => new[l].centre # new[k].centre,
         Before(left, p, m) \subseteq Spot,
         Cardinality(Before(left, p, m) \cap Deep) < MAX_DEEP_OBJECTIVES
  PROVE  Cardinality(D) <= MAX_DEEP_OBJECTIVES
<1> DEFINE others == D \ {m}
           places == Before(left, p, m) \cap Deep
           f == [l \in others |-> new[l].centre]
<1>1. IsFiniteSet(places) /\ Cardinality(places) \in Nat
  BY ObjectivesAssumption, FS_Subset, FS_CardinalityType
<1>2. ASSUME NEW l \in others
      PROVE  new[l].centre \in places
  <2>1. CASE l \in DOMAIN p
    BY <1>2, <2>1 DEF Before
  <2>2. CASE l \in DOMAIN left
    BY <1>2, <2>2 DEF Before, Centres
  <2> QED  BY <2>1, <2>2
<1>3. f \in Injection(others, places)
  <2>1. f \in [others -> places]
    BY <1>2
  <2>2. \A l, k \in others : f[l] = f[k] => l = k
    OBVIOUS
  <2> HIDE DEF f, others, places
  <2> QED  BY <2>1, <2>2 DEF Injection, IsInjective
<1>4. Cardinality(others) <= Cardinality(places)
  <2> HIDE DEF f, others, places
  <2> QED  BY <1>1, <1>3, FS_Injection
<1>5. Cardinality(D) \in Nat /\ Cardinality(others) = Cardinality(D) - 1
  BY FS_RemoveElement, FS_CardinalityType
<1>6. MAX_DEEP_OBJECTIVES \in Nat
  BY ObjectivesAssumption
<1> QED  BY <1>1, <1>4, <1>5, <1>6

\* A legal board stays legal when its vacant slots are filled (Placements, fillVacancies).
LEMMA FilledIsLegal ==
  ASSUME NEW left, DOMAIN left \subseteq Label, \A l \in DOMAIN left : left[l] \in CaptureZone,
         NEW clearOf, NEW p \in Placements(left, clearOf), NEW n \in Nat,
         NEW new, WellFilled(left, p, n, new), Legal(left, n)
  PROVE  Legal(new, n + Cardinality(DOMAIN p))
<1> DEFINE earlier(l) == Cardinality({k \in DOMAIN p : k < l})
<1>1. /\ DOMAIN new = DOMAIN left \cup DOMAIN p /\ DOMAIN new \subseteq Label
      /\ \A l \in DOMAIN p : new[l].centre = p[l] /\ new[l].id = n + earlier(l)
      /\ \A l \in DOMAIN left : l \notin DOMAIN p /\ new[l] = left[l]
      /\ \A l \in DOMAIN new : new[l].centre \in Spot /\ new[l].id \in Nat
  BY DEF WellFilled, CaptureZone
<1>2. \A l \in Label : l \in Int
  BY ObjectivesAssumption DEF Label
<1>3. ASSUME NEW l \in DOMAIN p
      PROVE  /\ earlier(l) \in Nat /\ Cardinality(DOMAIN p) \in Nat
             /\ earlier(l) < Cardinality(DOMAIN p)
             /\ \A m \in DOMAIN p : l < m => earlier(l) < earlier(m)
  <2>1. DOMAIN p \subseteq Label
    BY <1>1
  <2>2. earlier(l) \in Nat /\ Cardinality(DOMAIN p) \in Nat
    BY <2>1, LabelsAreFinite
  <2> QED  BY <2>1, <2>2, EarlierAreFewer
<1>4. ASSUME NEW l \in DOMAIN p, NEW m \in DOMAIN new, m \in DOMAIN left \/ m < l
      PROVE  Distance(new[l].centre, new[m].centre) >= 4
  <2>1. new[m].centre \in Before(left, p, l)
    BY <1>1, <1>4 DEF Before, Centres
  <2>2. \A o \in Before(left, p, l) : Distance(p[l], o) >= 4
    BY PlacedIsClear
  <2> QED  BY <1>1, <2>1, <2>2
<1>5. ASSUME NEW l \in DOMAIN new, NEW m \in DOMAIN new, l # m
      PROVE  Distance(new[l].centre, new[m].centre) >= 4
  <2>1. Distance(new[l].centre, new[m].centre) = Distance(new[m].centre, new[l].centre)
    BY <1>1, Distances
  <2>2. CASE l \in DOMAIN left /\ m \in DOMAIN left
    BY <1>1, <1>5, <2>2 DEF Legal, OBJECTIVE_RADIUS
  <2>3. CASE l \in DOMAIN p /\ m \in DOMAIN p
    <3>1. l < m \/ m < l
      BY <1>1, <1>2, <1>5
    <3> QED  BY <1>4, <2>1, <2>3, <3>1
  <2> QED  BY <1>1, <1>4, <2>1, <2>2, <2>3
<1>6. \A l \in DOMAIN left : new[l].id < n
  BY <1>1 DEF Legal
<1>7. ASSUME NEW l \in DOMAIN p
      PROVE  new[l].id >= n
  <2>1. earlier(l) \in Nat
    BY <1>3
  <2> HIDE DEF earlier
  <2> QED  BY <1>1, <2>1
<1>8. ASSUME NEW l \in DOMAIN new, NEW m \in DOMAIN new, l # m
      PROVE  new[l].id # new[m].id
  <2>1. CASE l \in DOMAIN left /\ m \in DOMAIN left
    BY <1>1, <1>8, <2>1 DEF Legal
  <2>2. CASE l \in DOMAIN p /\ m \in DOMAIN p
    <3>1. l < m \/ m < l
      BY <1>1, <1>2, <1>8
    <3>2. earlier(l) \in Nat /\ earlier(m) \in Nat /\ (earlier(l) < earlier(m) \/ earlier(m) < earlier(l))
      BY <1>3, <2>2, <3>1
    <3> HIDE DEF earlier
    <3> QED  BY <1>1, <2>2, <3>2
  <2> QED  BY <1>1, <1>6, <1>7, <2>1, <2>2
<1>9. ASSUME NEW l \in DOMAIN new
      PROVE  new[l].id < n + Cardinality(DOMAIN p)
  <2>1. CASE l \in DOMAIN p
    <3> HIDE DEF earlier
    <3> QED  BY <1>1, <1>3, <2>1
  <2>2. CASE l \in DOMAIN left
    <3>1. Cardinality(DOMAIN p) \in Nat
      BY <1>1, LabelsAreFinite
    <3> QED  BY <1>1, <1>6, <2>2, <3>1
  <2> QED  BY <1>1, <2>1, <2>2
<1> DEFINE D == {l \in DOMAIN new : new[l].centre \in Deep}
           placed == D \cap DOMAIN p
<1>10. Cardinality(D) <= MAX_DEEP_OBJECTIVES
  <2>1. IsFiniteSet(D) /\ placed \subseteq Label
    BY <1>1, LabelsAreFinite
  <2>2. CASE placed = {}
    <3>1. D = {l \in DOMAIN left : left[l].centre \in Deep}
      BY <1>1, <2>2
    <3> QED  BY <3>1 DEF Legal
  <2>3. CASE placed # {}
    <3>1. PICK m \in placed : \A l \in placed : l <= m
      <4> HIDE DEF placed
      <4> QED  BY <2>1, <2>3, LastLabel
    <3>2. \A l \in D : l \in DOMAIN p => l = m \/ l < m
      <4>1. \A l \in placed : l \in Int
        BY <1>2, <2>1
      <4> QED  BY <3>1, <4>1
    <3>3. \A l, k \in D : l # k => new[l].centre # new[k].centre
      <4>1. ASSUME NEW l \in D, NEW k \in D, l # k, new[l].centre = new[k].centre
            PROVE  FALSE
        <5>1. Distance(new[l].centre, new[k].centre) >= 4
          BY <1>5, <4>1
        <5>2. Distance(new[l].centre, new[k].centre) = 0
          BY <1>1, <4>1, Distances
        <5> QED  BY <5>1, <5>2
      <4> QED  BY <4>1
    <3>4. /\ m \in DOMAIN p /\ m \in D /\ D \subseteq DOMAIN left \cup DOMAIN p
          /\ \A l \in D : new[l].centre \in Deep
      BY <1>1
    <3>5. /\ Before(left, p, m) \subseteq Spot
          /\ Cardinality(Before(left, p, m) \cap Deep) < MAX_DEEP_OBJECTIVES
      BY <1>1, <3>4, PlacedIsClear
    <3>6. /\ \A l \in DOMAIN left : l \notin DOMAIN p /\ new[l] = left[l]
          /\ \A l \in DOMAIN p : new[l].centre = p[l]
      BY <1>1
    <3> HIDE DEF D, placed
    <3> QED  BY <2>1, <3>2, <3>3, <3>4, <3>5, <3>6, FewAreDeep
  <2> QED  BY <2>2, <2>3
<1> QED  BY <1>5, <1>8, <1>9, <1>10 DEF Legal, OBJECTIVE_RADIUS

\* A board that has lost zones to captures is as legal as it was (advanceZone, retire).
LEMMA PartIsLegal ==
  ASSUME NEW board, DOMAIN board \subseteq Label, NEW n, Legal(board, n),
         NEW part, DOMAIN part \subseteq DOMAIN board,
         \A l \in DOMAIN part : part[l].centre = board[l].centre /\ part[l].id = board[l].id
  PROVE  Legal(part, n)
<1> DEFINE D == {l \in DOMAIN board : board[l].centre \in Deep}
           E == {l \in DOMAIN part : part[l].centre \in Deep}
<1>1. IsFiniteSet(D) /\ Cardinality(D) \in Nat /\ Cardinality(E) \in Nat
  BY LabelsAreFinite
<1>2. E \in SUBSET D
  OBVIOUS
<1>3. Cardinality(E) <= Cardinality(D)
  <2> HIDE DEF D, E
  <2> QED  BY <1>1, <1>2, FS_Subset
<1>4. Cardinality(E) <= MAX_DEEP_OBJECTIVES
  <2>1. Cardinality(D) <= MAX_DEEP_OBJECTIVES /\ MAX_DEEP_OBJECTIVES \in Nat
    BY ObjectivesAssumption DEF Legal
  <2> HIDE DEF D, E
  <2> QED  BY <1>1, <1>3, <2>1
<1> QED  BY <1>4 DEF Legal

\* A tick leaves the board legal, with captures to be made good or none (ZonesTick).
LEMMA BoardKept ==
  ASSUME ZonesInv, BoardIsLegal, NEW afloat \in SUBSET Boat, NEW where, ZonesTick(afloat, where)
  PROVE  BoardIsLegal'
<1> DEFINE board == Advanced(afloat, where)
           taken == Captured(board)
           left  == retire(board, taken)
           gone  == {board[l].centre : l \in taken}
<1>1. /\ DOMAIN zones \subseteq Label /\ nextZoneId \in Nat /\ Legal(zones, nextZoneId)
  BY DEF ZonesInv, ZonesTypeOK, BoardIsLegal, Legal
<1>2. /\ DOMAIN board = DOMAIN zones
      /\ \A l \in DOMAIN zones :
           /\ board[l] \in CaptureZone
           /\ board[l].centre = zones[l].centre /\ board[l].id = zones[l].id
  BY AdvancedBoard
<1>3. CASE taken = {}
  <2>1. zones' = board /\ nextZoneId' = nextZoneId
    BY <1>3 DEF ZonesTick
  <2> HIDE DEF board
  <2>2. Legal(board, nextZoneId)
    BY <1>1, <1>2, PartIsLegal
  <2>3. Legal(zones', nextZoneId')
    BY <2>1, <2>2
  <2> QED  BY <2>3 DEF BoardIsLegal, Legal
<1>4. CASE taken # {}
  <2>1. PICK p \in Placements(left, gone) :
          /\ zones' = fillVacancies(left, p, ARMING_TICKS)
          /\ nextZoneId' = nextZoneId + Cardinality(DOMAIN p)
    BY <1>4 DEF ZonesTick
  <2>2. DOMAIN left = DOMAIN board \ taken /\ \A l \in DOMAIN left : left[l] = board[l]
    BY DEF retire
  <2>3. zones' = Filled(left, p, nextZoneId, ARMING_TICKS) /\ ARMING_TICKS \in 0 .. ARMING_TICKS
    BY <2>1, ObjectivesAssumption DEF fillVacancies, Filled
  <2> HIDE DEF board, taken, left, gone
  <2>4. DOMAIN left \subseteq Label /\ \A l \in DOMAIN left : left[l] \in CaptureZone
    BY <1>1, <1>2, <2>2
  <2>5. WellFilled(left, p, nextZoneId, zones')
    BY <1>1, <2>3, <2>4, FilledTyped
  <2>6. Legal(left, nextZoneId)
    BY <1>1, <1>2, <2>2, PartIsLegal
  <2>7. Legal(zones', nextZoneId + Cardinality(DOMAIN p))
    BY <1>1, <2>4, <2>5, <2>6, FilledIsLegal
  <2>8. Legal(zones', nextZoneId')
    BY <2>1, <2>7
  <2> QED  BY <2>8 DEF BoardIsLegal, Legal
<1> QED  BY <1>3, <1>4

\* The opening layout is legal, the first deep zone included (InitBoard).
LEMMA BoardLegalAtFirst ==
  ASSUME NEW objectives \in BOOLEAN, InitBoard(objectives)
  PROVE  BoardIsLegal
<1>0. /\ DOMAIN EmptyBoard = {} /\ DOMAIN EmptyBoard \subseteq Label
      /\ \A l \in DOMAIN EmptyBoard : EmptyBoard[l] \in CaptureZone
  BY DEF EmptyBoard
<1>1. Legal(EmptyBoard, 0)
  <2>1. {l \in DOMAIN EmptyBoard : EmptyBoard[l].centre \in Deep} = {}
    BY <1>0
  <2>2. 0 <= MAX_DEEP_OBJECTIVES
    BY ObjectivesAssumption
  <2> QED  BY <1>0, <2>1, <2>2, FS_EmptySet DEF Legal
<1>2. CASE zones = EmptyBoard
  <2>1. nextZoneId = 0
    BY <1>0, <1>2, FS_EmptySet DEF InitBoard
  <2> QED  BY <1>1, <1>2, <2>1 DEF BoardIsLegal, Legal
<1>3. ASSUME NEW p \in Placements(EmptyBoard, {}),
             zones = [l \in DOMAIN p |-> spawnZone(Cardinality({k \in DOMAIN p : k < l}), p[l], 0)]
      PROVE  BoardIsLegal
  <2>1. zones = Filled(EmptyBoard, p, 0, 0) /\ DOMAIN p \subseteq Label
    BY <1>3, OpeningIsFilled
  <2>2. nextZoneId = 0 + Cardinality(DOMAIN p)
    <3>1. Cardinality(DOMAIN p) \in Nat /\ DOMAIN zones = DOMAIN p
      BY <1>3, <2>1, LabelsAreFinite
    <3> QED  BY <3>1 DEF InitBoard
  <2>3. 0 \in 0 .. ARMING_TICKS /\ 0 \in Nat
    BY ObjectivesAssumption
  <2>4. WellFilled(EmptyBoard, p, 0, zones)
    BY <1>0, <2>1, <2>3, FilledTyped
  <2>5. Legal(zones, 0 + Cardinality(DOMAIN p))
    BY <1>0, <1>1, <2>3, <2>4, FilledIsLegal
  <2>6. Legal(zones, nextZoneId)
    BY <2>2, <2>5
  <2> QED  BY <2>6 DEF BoardIsLegal, Legal
<1> QED  BY <1>2, <1>3 DEF InitBoard

\* Circles never overlap, deep zones stay few and ids fresh, with several slots to fill on one
\* tick and some that cannot be (spawnZone, fillVacancies).
THEOREM BoardStaysLegal == SpecZones => []BoardIsLegal
<1>1. InitZones => ZonesInv /\ BoardIsLegal
  BY ZonesInvAtFirst, BoardLegalAtFirst DEF InitZones
<1>2. ZonesInv /\ BoardIsLegal /\ [NextZones]_<<zoneVars, destroyed>> => ZonesInv' /\ BoardIsLegal'
  <2>1. ASSUME ZonesInv, BoardIsLegal, NextZones PROVE ZonesInv' /\ BoardIsLegal'
    <3>1. PICK where \in [Boat -> Place] : ZonesTick(Boat \ destroyed', where)
      BY <2>1 DEF NextZones
    <3>2. Boat \ destroyed' \in SUBSET Boat
      OBVIOUS
    <3> QED  BY <2>1, <3>1, <3>2, ZonesInvKept, BoardKept
  <2>2. ASSUME ZonesInv, BoardIsLegal, UNCHANGED <<zoneVars, destroyed>>
        PROVE  ZonesInv' /\ BoardIsLegal'
    BY <2>2 DEF zoneVars, ZonesInv, ZonesTypeOK, ProgressIsEarned, ArmingIsNobodys, BoardIsLegal
  <2> QED  BY <2>1, <2>2
<1> QED  BY <1>1, <1>2, PTL DEF SpecZones
=============================================================================
