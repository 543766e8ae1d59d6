-------------------------- MODULE PreparationProofs --------------------------
(***************************************************************************)
(* What a match is prepared with, for any tables, map, tuning, roster and  *)
(* rock the assumptions of FleetRules, Levels and Berths allow: a fleet    *)
(* means the same wherever it is (EditorInv); the stack of levels that is  *)
(* planned fits and keeps its extremes (LevelsInv); and every boat that is *)
(* put down lies rightly among the boats of its side that were there       *)
(* before it (BerthsInv).                                                  *)
(***************************************************************************)
EXTENDS Services, SeriesProofs

---------------------------------------------------------------------------
(* Stacking.                                                               *)

\* What some module does.
Granted == UNION {ToSet(Modifiers[m]) : m \in Module}

LEMMA GrantsAgree ==
  /\ Granted \subseteq Modifier
  /\ \A m \in Module : Modifiers[m] \in Seq(Granted)
  /\ \A x, y \in Granted : x.op = "set" /\ y.op = "set" => x.value = y.value
<1>1. \A m \in Module : Modifiers[m] \in Seq(Modifier)
  BY TablesAssumption
<1>2. \A m \in Module : ToSet(Modifiers[m]) = {Modifiers[m][i] : i \in DOMAIN Modifiers[m]}
  BY DEF ToSet
<1>3. Granted \subseteq Modifier
  <2> SUFFICES ASSUME NEW m \in Module PROVE ToSet(Modifiers[m]) \subseteq Modifier
    BY DEF Granted
  <2> QED BY <1>1, InASequence
<1>4. ASSUME NEW m \in Module
      PROVE  Modifiers[m] \in Seq(Granted)
  <2>1. \A i \in DOMAIN Modifiers[m] : Modifiers[m][i] \in Granted
    BY <1>2 DEF Granted
  <2> DEFINE s == Modifiers[m]
  <2>2. s \in Seq(Modifier) /\ \A i \in DOMAIN s : s[i] \in Granted
    BY <1>1, <2>1
  <2> HIDE DEF s
  <2>3. s \in Seq(Granted)
    BY <2>2
  <2> QED BY <2>3 DEF s
<1>5. ASSUME NEW x \in Granted, NEW y \in Granted, x.op = "set", y.op = "set"
      PROVE  x.value = y.value
  <2>1. PICK m \in Module : x \in ToSet(Modifiers[m])
    BY DEF Granted
  <2>2. PICK n \in Module : y \in ToSet(Modifiers[n])
    BY DEF Granted
  <2>3. PICK i \in DOMAIN Modifiers[m] : x = Modifiers[m][i]
    BY <1>2, <2>1
  <2>4. PICK j \in DOMAIN Modifiers[n] : y = Modifiers[n][j]
    BY <1>2, <2>2
  <2> QED BY <1>5, <2>3, <2>4, TablesAssumption
<1> QED BY <1>3, <1>4, <1>5

LEMMA AppliedIs ==
  ASSUME NEW v \in Int, NEW m \in Modifier
  PROVE  /\ Applied(v, m) \in Int
         /\ m.op = "set" => Applied(v, m) = m.value
         /\ m.op = "add" => Applied(v, m) = v + m.value
         /\ m.op = "mul" => Applied(v, m) = v * m.value
         /\ m.op = "min" => Applied(v, m) = IF v < m.value THEN m.value ELSE v
         /\ m.op = "max" => Applied(v, m) = IF v > m.value THEN m.value ELSE v
<1>1. m.value \in Int /\ m.op \in {"set", "add", "mul", "min", "max"}
  <2>1. ToSet(OP_ORDER) = {"set", "add", "mul", "min", "max"}
    BY DEF ToSet, OP_ORDER
  <2> QED BY <2>1 DEF Modifier
<1> QED BY <1>1 DEF Applied

LEMMA TimesTwice ==
  ASSUME NEW v \in Int, NEW a \in Int, NEW b \in Int
  PROVE  (v * a) * b = (v * b) * a
OBVIOUS

\* A pass over the modifiers of one operation comes to the same in any order.
LEMMA PassesCommute ==
  ASSUME NEW op
  PROVE  Commutes(Pass(op), Granted, Int)
<1> SUFFICES ASSUME NEW v \in Int, NEW x \in Granted, NEW y \in Granted
             PROVE  /\ Pass(op)[<<v, x>>] \in Int
                    /\ Pass(op)[<<Pass(op)[<<v, x>>], y>>] = Pass(op)[<<Pass(op)[<<v, y>>], x>>]
  BY DEF Commutes
<1>1. x \in Modifier /\ y \in Modifier /\ x.value \in Int /\ y.value \in Int
  BY GrantsAgree DEF Modifier
<1>2. \A w \in Int, z \in Modifier : Pass(op)[<<w, z>>] = IF z.op = op THEN Applied(w, z) ELSE w
  BY DEF Pass
<1>3. \A w \in Int : Applied(w, x) \in Int /\ Applied(w, y) \in Int
  BY <1>1, AppliedIs
<1>4. CASE x.op # op \/ y.op # op
  BY <1>1, <1>2, <1>3, <1>4
<1>5. CASE x.op = op /\ y.op = op
  <2>1. /\ Pass(op)[<<v, x>>] = Applied(v, x) /\ Pass(op)[<<v, y>>] = Applied(v, y)
        /\ Pass(op)[<<Applied(v, x), y>>] = Applied(Applied(v, x), y)
        /\ Pass(op)[<<Applied(v, y), x>>] = Applied(Applied(v, y), x)
    BY <1>1, <1>2, <1>3, <1>5
  <2>2. Applied(Applied(v, x), y) = Applied(Applied(v, y), x)
    <3> DEFINE a == x.value
               b == y.value
    <3>0. a \in Int /\ b \in Int
      BY <1>1
    <3>1. CASE op = "set"
      <4>1. Applied(Applied(v, x), y) = y.value /\ Applied(Applied(v, y), x) = x.value
        BY <1>1, <1>3, <1>5, <3>1, AppliedIs
      <4>2. x.value = y.value
        BY <1>5, <3>1, GrantsAgree
      <4> QED BY <4>1, <4>2
    <3>2. CASE op = "add"
      <4>1. Applied(Applied(v, x), y) = (v + a) + b /\ Applied(Applied(v, y), x) = (v + b) + a
        BY <1>1, <1>3, <1>5, <3>2, AppliedIs
      <4> HIDE DEF a, b
      <4> QED BY <3>0, <4>1
    <3>3. CASE op = "mul"
      <4>1. Applied(Applied(v, x), y) = (v * a) * b /\ Applied(Applied(v, y), x) = (v * b) * a
        BY <1>1, <1>3, <1>5, <3>3, AppliedIs
      <4> HIDE DEF a, b
      <4> QED BY <3>0, <4>1, TimesTwice
    <3>4. CASE op = "min"
      <4>1. /\ Applied(v, x) = (IF v < a THEN a ELSE v) /\ Applied(v, y) = (IF v < b THEN b ELSE v)
            /\ Applied(Applied(v, x), y) = (IF Applied(v, x) < b THEN b ELSE Applied(v, x))
            /\ Applied(Applied(v, y), x) = (IF Applied(v, y) < a THEN a ELSE Applied(v, y))
        BY <1>1, <1>3, <1>5, <3>4, AppliedIs
      <4> HIDE DEF a, b
      <4> QED BY <3>0, <4>1
    <3>5. CASE op = "max"
      <4>1. /\ Applied(v, x) = (IF v > a THEN a ELSE v) /\ Applied(v, y) = (IF v > b THEN b ELSE v)
            /\ Applied(Applied(v, x), y) = (IF Applied(v, x) > b THEN b ELSE Applied(v, x))
            /\ Applied(Applied(v, y), x) = (IF Applied(v, y) > a THEN a ELSE Applied(v, y))
        BY <1>1, <1>3, <1>5, <3>5, AppliedIs
      <4> HIDE DEF a, b
      <4> QED BY <3>0, <4>1
    <3>6. op \in {"set", "add", "mul", "min", "max"}
      <4>1. ToSet(OP_ORDER) = {"set", "add", "mul", "min", "max"}
        BY DEF ToSet, OP_ORDER
      <4> QED BY <1>1, <1>5, <4>1 DEF Modifier
    <3> QED BY <3>1, <3>2, <3>3, <3>4, <3>5, <3>6
  <2> QED BY <1>3, <2>1, <2>2
<1> QED BY <1>4, <1>5

\* What modifiers make of a statistic, in whichever order they come.
LEMMA AppliedBackwards ==
  ASSUME NEW base \in Int, NEW mods \in Seq(Granted)
  PROVE  applyModifiers(base, Reverse(mods)) = applyModifiers(base, mods)
<1> DEFINE pass(s) == [p \in Int \X ToSet(OP_ORDER) |-> Folded(Pass(p[2]), p[1], s)]
<1>1. ASSUME NEW p \in Int \X ToSet(OP_ORDER)
      PROVE  Folded(Pass(p[2]), p[1], Reverse(mods)) = Folded(Pass(p[2]), p[1], mods)
  <2>1. p[1] \in Int /\ Commutes(Pass(p[2]), Granted, Int)
    BY PassesCommute
  <2> QED BY <2>1, FoldedBackwards
<1>2. pass(Reverse(mods)) = pass(mods)
  BY <1>1
<1> HIDE DEF pass
<1>3. applyModifiers(base, Reverse(mods)) = Folded(pass(Reverse(mods)), base, OP_ORDER)
      /\ applyModifiers(base, mods) = Folded(pass(mods), base, OP_ORDER)
  BY DEF applyModifiers, pass
<1> QED BY <1>2, <1>3

LEMMA JoinedIs ==
  ASSUME NEW lists \in Seq(Seq(Granted))
  PROVE  Joined(lists) \in Seq(Granted)
<1> DEFINE step == [p \in Seq(Modifier) \X Seq(Modifier) |-> p[1] \o p[2]]
           B == Seq(Granted)
<1>1. ASSUME NEW b \in B, NEW x \in B
      PROVE  step[<<b, x>>] \in B
  <2>1. B \subseteq Seq(Modifier)
    BY GrantsAgree
  <2>2. step[<<b, x>>] = b \o x
    BY <2>1
  <2> QED BY <2>2, ConcatProperties
<1>2. <<>> \in B
  OBVIOUS
<1> HIDE DEF step, B
<1>3. \A s \in Seq(B) : Folded(step, <<>>, s) \in B
  BY <1>1, <1>2, FoldedIsIn
<1> QED BY <1>3 DEF Joined, step, B

\* The places of a hull, and what is found there.
LEMMA SlotsAre ==
  ASSUME NEW c \in Release, NEW b \in BoatTemplate
  PROVE  /\ \A s \in SlotsOf(c, b.hull) : resolveSlots(c, b)[s] \in Known[c] \cup {Empty}
         /\ \A k \in ToSet(SLOT_KINDS) : /\ Slots[c][b.hull][k] \in Nat
                                        /\ \A i \in 1 .. Slots[c][b.hull][k] :
                                             <<k, i - 1>> \in SlotsOf(c, b.hull)
<1>1. b.hull \in Hull
  BY DEF BoatTemplate
<1>2. \A k \in ToSet(SLOT_KINDS) : Slots[c][b.hull][k] \in 0 .. 10
  BY <1>1, TablesAssumption
<1>3. ASSUME NEW k \in ToSet(SLOT_KINDS), NEW i \in 1 .. Slots[c][b.hull][k]
      PROVE  <<k, i - 1>> \in SlotsOf(c, b.hull)
  <2>1. Slots[c][b.hull][k] \in 0 .. 10
    BY <1>2
  <2>2. i - 1 \in 0 .. 9 /\ i - 1 < Slots[c][b.hull][k]
    BY <2>1
  <2> QED BY <2>2 DEF SlotsOf
<1>4. \A s \in SlotsOf(c, b.hull) : resolveSlots(c, b)[s] \in Known[c] \cup {Empty}
  BY DEF resolveSlots
<1>5. \A k \in ToSet(SLOT_KINDS) : Slots[c][b.hull][k] \in Nat
  BY <1>2
<1> QED BY <1>3, <1>4, <1>5

LEMMA StackedIs ==
  ASSUME NEW c \in Release, NEW b \in BoatTemplate
  PROVE  Stacked(c, b) \in Seq(Granted)
<1> DEFINE In(k, i) == resolveSlots(c, b)[<<SLOT_KINDS[k], i - 1>>]
           Of(k, i) == IF In(k, i) = Empty THEN <<>> ELSE Modifiers[In(k, i)]
           Each(k) == [i \in 1 .. Slots[c][b.hull][SLOT_KINDS[k]] |-> Of(k, i)]
           All == [k \in DOMAIN SLOT_KINDS |-> Joined(Each(k))]
<1>1. DOMAIN SLOT_KINDS = 1 .. 2 /\ \A k \in 1 .. 2 : SLOT_KINDS[k] \in ToSet(SLOT_KINDS)
  BY DEF SLOT_KINDS, ToSet
<1>2. ASSUME NEW k \in 1 .. 2
      PROVE  Joined(Each(k)) \in Seq(Granted)
  <2> DEFINE n == Slots[c][b.hull][SLOT_KINDS[k]]
  <2>1. n \in Nat
    BY <1>1, SlotsAre
  <2>2. ASSUME NEW i \in 1 .. n
        PROVE  Of(k, i) \in Seq(Granted)
    <3>1. <<SLOT_KINDS[k], i - 1>> \in SlotsOf(c, b.hull)
      BY <1>1, SlotsAre
    <3>2. In(k, i) \in Known[c] \cup {Empty}
      BY <3>1, SlotsAre
    <3> HIDE DEF In
    <3>3. In(k, i) # Empty => Modifiers[In(k, i)] \in Seq(Granted)
      BY <3>2, TablesAssumption, GrantsAgree
    <3> QED BY <3>3
  <2> HIDE DEF n, Of
  <2>3. [i \in 1 .. n |-> Of(k, i)] \in Seq(Seq(Granted))
    BY <2>1, <2>2, IsASeq
  <2> QED BY <2>3, JoinedIs DEF n
<1> HIDE DEF Each
<1>3. All \in Seq(Seq(Granted))
  <2>1. All = [k \in 1 .. 2 |-> Joined(Each(k))]
    BY <1>1
  <2> QED BY <1>2, <2>1, IsASeq
<1>4. Stacked(c, b) = Joined(All)
  BY DEF Stacked, Each
<1> HIDE DEF All
<1> QED BY <1>3, <1>4, JoinedIs

LEMMA StacksAlike ==
  ASSUME NEW c \in Release, NEW b \in BoatTemplate, NEW notch
  PROVE  liveStatsOf(HullStat[b.hull], Stacked(c, b), notch)
           = liveStatsOf(HullStat[b.hull], Reverse(Stacked(c, b)), notch)
<1> DEFINE s == Stacked(c, b)
           S == {m \in Modifier : m.notch \in {"always", notch}}
           f == Filtered(s, S)
<1>1. s \in Seq(Granted) /\ HullStat[b.hull] \in Int
  BY StackedIs, TablesAssumption DEF BoatTemplate
<1> HIDE DEF s
<1>2. f \in Seq(Granted) /\ Filtered(Reverse(s), S) = Reverse(f)
  BY <1>1, FilteredIs, FilteredBackwards
<1>3. /\ liveStatsOf(HullStat[b.hull], s, notch) = applyModifiers(HullStat[b.hull], f)
      /\ liveStatsOf(HullStat[b.hull], Reverse(s), notch) = applyModifiers(HullStat[b.hull], Reverse(f))
  BY <1>2 DEF liveStatsOf, activeModifiers
<1> HIDE DEF f
<1>4. applyModifiers(HullStat[b.hull], Reverse(f)) = applyModifiers(HullStat[b.hull], f)
  BY <1>1, <1>2, AppliedBackwards
<1> QED BY <1>3, <1>4 DEF s

---------------------------------------------------------------------------
(* Validation and repair.                                                  *)

\* The modules fit the hull, and no two are in one slot.
FitWell(c, h, mods) ==
  /\ mods \in Seq(FittedModule)
  /\ \A i \in DOMAIN mods : /\ Fitting(c, h, mods[i])
                            /\ \A j \in 1 .. i - 1 : ~SameSlot(mods[i], mods[j])

OneFits(c, h, mods, f) == Fitting(c, h, f) /\ \A g \in ToSet(mods) : ~SameSlot(f, g)

LEMMA NoneFitsWell ==
  ASSUME NEW c, NEW h
  PROVE  FitWell(c, h, <<>>)
BY DEF FitWell

LEMMA OneMoreFits ==
  ASSUME NEW c, NEW h, NEW mods \in Seq(FittedModule), NEW f \in FittedModule
  PROVE  FitWell(c, h, Append(mods, f)) <=> FitWell(c, h, mods) /\ OneFits(c, h, mods, f)
<1> DEFINE n == Len(mods)
           t == Append(mods, f)
<1>1. /\ n \in Nat /\ DOMAIN mods = 1 .. n /\ t \in Seq(FittedModule) /\ DOMAIN t = 1 .. n + 1
      /\ t[n + 1] = f /\ \A i \in 1 .. n : t[i] = mods[i]
  BY AppendProperties, LenProperties
<1>2. ToSet(mods) = {mods[i] : i \in 1 .. n}
  BY InASequence
<1> HIDE DEF n, t
<1>3. ASSUME FitWell(c, h, t)
      PROVE  FitWell(c, h, mods) /\ OneFits(c, h, mods, f)
  <2>1. \A i \in 1 .. n : i \in 1 .. n + 1 /\ \A j \in 1 .. i - 1 : j \in 1 .. n
    BY <1>1
  <2>2. n + 1 \in 1 .. n + 1 /\ (n + 1) - 1 = n
    BY <1>1
  <2>3. FitWell(c, h, mods)
    BY <1>1, <1>3, <2>1 DEF FitWell
  <2>4. Fitting(c, h, f) /\ \A j \in 1 .. n : ~SameSlot(f, mods[j])
    BY <1>1, <1>3, <2>2 DEF FitWell
  <2> QED BY <1>2, <2>3, <2>4 DEF OneFits
<1>4. ASSUME FitWell(c, h, mods), OneFits(c, h, mods, f)
      PROVE  FitWell(c, h, t)
  <2>1. \A j \in 1 .. n : ~SameSlot(f, mods[j])
    BY <1>2, <1>4 DEF OneFits
  <2>2. ASSUME NEW i \in 1 .. n + 1
        PROVE  Fitting(c, h, t[i]) /\ \A j \in 1 .. i - 1 : ~SameSlot(t[i], t[j])
    <3>1. CASE i \in 1 .. n
      <4>1. \A j \in 1 .. i - 1 : j \in 1 .. n
        BY <1>1, <3>1
      <4> QED BY <1>1, <1>4, <3>1, <4>1 DEF FitWell
    <3>2. CASE i = n + 1
      <4>1. i - 1 = n
        BY <1>1, <3>2
      <4> QED BY <1>1, <1>4, <2>1, <3>2, <4>1 DEF OneFits
    <3> QED BY <1>1, <3>1, <3>2
  <2> QED BY <1>1, <2>2 DEF FitWell
<1> QED BY <1>3, <1>4 DEF t

\* What is taken out of modules that fit leaves such.
LEMMA FewerFit ==
  ASSUME NEW c, NEW h, NEW S
  PROVE  \A mods \in Seq(FittedModule) : FitWell(c, h, mods) => FitWell(c, h, Filtered(mods, S))
<1> DEFINE Good == {s \in Seq(FittedModule) : FitWell(c, h, s) => FitWell(c, h, Filtered(s, S))}
<1>1. <<>> \in Good
  BY NoneFitsWell, FilteredOfNothing
<1>2. ASSUME NEW s \in Seq(FittedModule), NEW x \in FittedModule, s \in Good
      PROVE  Append(s, x) \in Good
  <2> SUFFICES ASSUME FitWell(c, h, Append(s, x))
               PROVE  FitWell(c, h, Filtered(Append(s, x), S))
    BY AppendProperties
  <2>1. FitWell(c, h, s) /\ OneFits(c, h, s, x)
    BY OneMoreFits
  <2>2. FitWell(c, h, Filtered(s, S))
    BY <1>2, <2>1
  <2>3. Filtered(s, S) \in Seq(FittedModule) /\ ToSet(Filtered(s, S)) \subseteq ToSet(s)
    BY FilteredIs
  <2>4. OneFits(c, h, Filtered(s, S), x)
    BY <2>1, <2>3 DEF OneFits
  <2>5. FitWell(c, h, Append(Filtered(s, S), x))
    BY <2>2, <2>3, <2>4, OneMoreFits
  <2> QED BY <2>2, <2>5, FilteredOfOneMore
<1> HIDE DEF Good
<1>3. Seq(FittedModule) \subseteq Good
  BY <1>1, <1>2, OneLonger
<1> QED BY <1>3 DEF Good

WithIt(mods, f) == Append(mods, f)

\* One step of a repair keeps a module that fits and drops one that does not.
LEMMA KeepingIs ==
  ASSUME NEW c, NEW h
  PROVE  \A mods \in Seq(FittedModule), f \in FittedModule :
           /\ OneFits(c, h, mods, f) => Keeping(c, h)[<<mods, f>>] = WithIt(mods, f)
           /\ ~OneFits(c, h, mods, f) => Keeping(c, h)[<<mods, f>>] = mods
BY DEF Keeping, OneFits, WithIt

\* A repair makes modules fit, and leaves them alone if they do.
LEMMA RepairFits ==
  ASSUME NEW c, NEW h
  PROVE  \A mods \in Seq(FittedModule) :
           /\ FitWell(c, h, Folded(Keeping(c, h), <<>>, mods))
           /\ FitWell(c, h, mods) => Folded(Keeping(c, h), <<>>, mods) = mods
<1> DEFINE Fit == {s \in Seq(FittedModule) : FitWell(c, h, s)}
           step == Keeping(c, h)
           Good == {s \in Seq(FittedModule) : FitWell(c, h, s) => Folded(step, <<>>, s) = s}
<1>1. <<>> \in Fit
  BY NoneFitsWell
<1>2. ASSUME NEW s \in Seq(FittedModule), s \in Fit, NEW x \in FittedModule
      PROVE  step[<<s, x>>] \in Fit
  <2>0. s \in Seq(FittedModule) /\ FitWell(c, h, s)
    BY <1>2
  <2>1. CASE OneFits(c, h, s, x)
    <3>1. step[<<s, x>>] = WithIt(s, x)
      BY <2>1, KeepingIs
    <3>2. WithIt(s, x) \in Seq(FittedModule) /\ FitWell(c, h, WithIt(s, x))
      BY <2>0, <2>1, OneMoreFits, AppendProperties DEF WithIt
    <3> QED BY <3>1, <3>2
  <2>2. CASE ~OneFits(c, h, s, x)
    BY <2>0, <2>2, KeepingIs
  <2> QED BY <2>1, <2>2
<1>3. <<>> \in Good
  BY FoldedOfNothing
<1>4. ASSUME NEW s \in Seq(FittedModule), NEW x \in FittedModule, s \in Good
      PROVE  Append(s, x) \in Good
  <2> SUFFICES ASSUME FitWell(c, h, Append(s, x))
               PROVE  Folded(step, <<>>, Append(s, x)) = Append(s, x)
    BY AppendProperties
  <2>1. FitWell(c, h, s) /\ OneFits(c, h, s, x)
    BY OneMoreFits
  <2>2. Folded(step, <<>>, s) = s
    BY <1>4, <2>1
  <2>3. Folded(step, <<>>, Append(s, x)) = step[<<s, x>>]
    BY <2>2, FoldedOfOneMore
  <2>4. step[<<s, x>>] = WithIt(s, x)
    BY <2>1, KeepingIs
  <2> HIDE DEF step
  <2> QED BY <2>3, <2>4 DEF WithIt
<1> HIDE DEF Fit, step, Good
<1>5. \A s \in Seq(FittedModule) : Folded(step, <<>>, s) \in Fit
  <2>1. \A s \in Fit, x \in FittedModule : s \in Seq(FittedModule) /\ step[<<s, x>>] \in Fit
    BY <1>2 DEF Fit
  <2> QED BY <1>1, <2>1, FoldedIsIn
<1>6. Seq(FittedModule) \subseteq Good
  BY <1>3, <1>4, OneLonger
<1> QED BY <1>5, <1>6 DEF Fit, Good, step

LEMMA ValidIs ==
  ASSUME NEW c, NEW b \in BoatTemplate
  PROVE  /\ validateBoat(c, b) <=> b.named /\ FitWell(c, b.hull, b.modules)
         /\ validateBoat(c, [b EXCEPT !.named = TRUE]) <=> FitWell(c, b.hull, b.modules)
<1> DEFINE n == [b EXCEPT !.named = TRUE]
<1>1. b.modules \in Seq(FittedModule) /\ n.named /\ n.hull = b.hull /\ n.modules = b.modules
  BY DEF BoatTemplate
<1> HIDE DEF n
<1>2. validateBoat(c, b) <=> b.named /\ FitWell(c, b.hull, b.modules)
  BY <1>1 DEF validateBoat, FitWell
<1>3. validateBoat(c, n) <=> FitWell(c, b.hull, b.modules)
  BY <1>1 DEF validateBoat, FitWell
<1> QED BY <1>2, <1>3 DEF n

LEMMA RepairIs ==
  ASSUME NEW c, NEW b \in BoatTemplate
  PROVE  /\ repairBoat(c, b) \in BoatTemplate
         /\ repairBoat(c, b).hull = b.hull /\ repairBoat(c, b).named = b.named
         /\ FitWell(c, b.hull, repairBoat(c, b).modules)
         /\ FitWell(c, b.hull, b.modules) => repairBoat(c, b) = b
<1> DEFINE m == Folded(Keeping(c, b.hull), <<>>, b.modules)
<1>1. b.modules \in Seq(FittedModule) /\ b.hull \in Hull /\ b.named \in BOOLEAN
  BY DEF BoatTemplate
<1>2. FitWell(c, b.hull, m) /\ (FitWell(c, b.hull, b.modules) => m = b.modules)
  BY <1>1, RepairFits
<1>3. m \in Seq(FittedModule)
  BY <1>2 DEF FitWell
<1>4. repairBoat(c, b) = [b EXCEPT !.modules = m]
  BY DEF repairBoat
<1> HIDE DEF m
<1>5. repairBoat(c, b) \in BoatTemplate /\ repairBoat(c, b).modules = m
      /\ repairBoat(c, b).hull = b.hull /\ repairBoat(c, b).named = b.named
  BY <1>3, <1>4 DEF BoatTemplate
<1>6. [b EXCEPT !.modules = b.modules] = b
  BY DEF BoatTemplate
<1> QED BY <1>2, <1>4, <1>5, <1>6

\* Boats that an editor built with tables c may hold, and that a fleet may be saved with.
Built(c, fleet) ==
  /\ fleet \in Seq(BoatTemplate) /\ Len(fleet) <= FLEET_MAX_BOATS
  /\ \A i \in DOMAIN fleet : FitWell(c, fleet[i].hull, fleet[i].modules)
AllNamed(fleet) == \A i \in DOMAIN fleet : fleet[i].named

\* A fleet as tables c repair it.
Mended(c, fleet) == [i \in DOMAIN fleet |-> repairBoat(c, fleet[i])]

LEMMA MendedIs ==
  ASSUME NEW c, NEW fleet \in Seq(BoatTemplate), Len(fleet) <= FLEET_MAX_BOATS
  PROVE  /\ Built(c, Mended(c, fleet)) /\ Len(Mended(c, fleet)) = Len(fleet)
         /\ AllNamed(fleet) => AllNamed(Mended(c, fleet))
         /\ Built(c, fleet) => Mended(c, fleet) = fleet
<1> DEFINE m == Mended(c, fleet)
<1>1. Len(fleet) \in Nat /\ DOMAIN fleet = 1 .. Len(fleet)
      /\ \A i \in 1 .. Len(fleet) : fleet[i] \in BoatTemplate
  BY LenProperties
<1>2. \A i \in 1 .. Len(fleet) : m[i] = repairBoat(c, fleet[i])
  BY <1>1 DEF Mended
<1>3. \A i \in 1 .. Len(fleet) :
         /\ m[i] \in BoatTemplate /\ m[i].named = fleet[i].named
         /\ FitWell(c, m[i].hull, m[i].modules)
         /\ FitWell(c, fleet[i].hull, fleet[i].modules) => m[i] = fleet[i]
  <2> TAKE i \in 1 .. Len(fleet)
  <2>1. fleet[i] \in BoatTemplate /\ m[i] = repairBoat(c, fleet[i])
    BY <1>1, <1>2
  <2> HIDE DEF m
  <2> QED BY <2>1, RepairIs
<1>4. m = [i \in 1 .. Len(fleet) |-> repairBoat(c, fleet[i])]
  BY <1>1 DEF Mended
<1>5. m \in Seq(BoatTemplate) /\ Len(m) = Len(fleet) /\ DOMAIN m = 1 .. Len(fleet)
  <2>1. \A i \in 1 .. Len(fleet) : repairBoat(c, fleet[i]) \in BoatTemplate
    BY <1>2, <1>3
  <2> HIDE DEF m
  <2>2. m \in Seq(BoatTemplate)
    BY <1>1, <1>4, <2>1, IsASeq
  <2>3. DOMAIN m = 1 .. Len(fleet)
    BY <1>4
  <2> QED BY <1>1, <2>2, <2>3, LenProperties
<1> HIDE DEF m
<1>6. Built(c, m)
  BY <1>3, <1>5 DEF Built
<1>7. AllNamed(fleet) => AllNamed(m)
  BY <1>1, <1>3, <1>5 DEF AllNamed
<1>8. ASSUME Built(c, fleet)
      PROVE  m = fleet
  <2>1. \A i \in 1 .. Len(fleet) : m[i] = fleet[i]
    BY <1>1, <1>3, <1>8 DEF Built
  <2> QED BY <1>5, <2>1, SeqEqual
<1> QED BY <1>5, <1>6, <1>7, <1>8 DEF m

LEMMA FleetIsValid ==
  ASSUME NEW c, NEW fleet \in Seq(BoatTemplate), NEW named
  PROVE  validateFleet(c, named, fleet, FLEET_MAX_BOATS)
           <=> named /\ Len(fleet) # 0 /\ Built(c, fleet) /\ AllNamed(fleet)
<1>1. Len(fleet) \in Nat /\ DOMAIN fleet = 1 .. Len(fleet) /\ FLEET_MAX_BOATS \in Nat
      /\ \A i \in DOMAIN fleet : fleet[i] \in BoatTemplate
  BY LenProperties, FleetsAssumption
<1>2. \A i \in DOMAIN fleet : validateBoat(c, fleet[i])
                              <=> fleet[i].named /\ FitWell(c, fleet[i].hull, fleet[i].modules)
  BY <1>1, ValidIs
<1>3. Len(fleet) \in 1 .. FLEET_MAX_BOATS <=> Len(fleet) # 0 /\ Len(fleet) <= FLEET_MAX_BOATS
  BY <1>1
<1> QED BY <1>1, <1>2, <1>3 DEF validateFleet, Built, AllNamed

---------------------------------------------------------------------------
(* Prices.                                                                 *)

LEMMA SlotsAreFinite ==
  ASSUME NEW c, NEW h
  PROVE  IsFiniteSet(SlotsOf(c, h))
<1> DEFINE K == ToSet(SLOT_KINDS)
<1>1. IsFiniteSet(0 .. 9)
  <2> DEFINE n == 9
  <2>1. n \in Int /\ 0 \in Int
    OBVIOUS
  <2> HIDE DEF n
  <2>2. IsFiniteSet(0 .. n)
    BY <2>1, FS_Interval
  <2> QED BY <2>2 DEF n
<1>2. IsFiniteSet(K)
  <2>1. SLOT_KINDS \in Seq({"equipment", "weapon"})
    BY DEF SLOT_KINDS
  <2> QED BY <2>1, FinitelyMany
<1> HIDE DEF K
<1>3. IsFiniteSet(K \X (0 .. 9))
  BY <1>1, <1>2, FS_Product
<1>4. SlotsOf(c, h) \subseteq K \X (0 .. 9)
  BY DEF SlotsOf, K
<1> QED BY <1>3, <1>4, FS_Subset

LEMMA BoatCostIs ==
  ASSUME NEW c \in Release, NEW b \in BoatTemplate
  PROVE  boatCost(c, b) \in Nat
<1> DEFINE S == Aboard(c, b)
           f == [s \in S |-> ModulePrice[resolveSlots(c, b)[s]]]
<1>1. S \subseteq SlotsOf(c, b.hull) /\ \A s \in S : resolveSlots(c, b)[s] # Empty
  BY DEF Aboard
<1>2. IsFiniteSet(S)
  BY <1>1, SlotsAreFinite, FS_Subset
<1>3. \A s \in S : f[s] \in Nat
  <2> TAKE s \in S
  <2>1. resolveSlots(c, b)[s] \in Known[c]
    BY <1>1, SlotsAre
  <2>2. resolveSlots(c, b)[s] \in Module
    BY <2>1, TablesAssumption
  <2> QED BY <2>2, TablesAssumption
<1>4. HullPrice[b.hull] \in Nat
  BY TablesAssumption DEF BoatTemplate
<1>5. boatCost(c, b) = HullPrice[b.hull] + SumOver(f, S)
  BY DEF boatCost
<1> HIDE DEF f, S
<1>6. SumOver(f, S) \in Nat
  BY <1>2, <1>3, SumNat
<1> QED BY <1>4, <1>5, <1>6

LEMMA FleetCostIs ==
  ASSUME NEW c \in Release, NEW fleet \in Seq(BoatTemplate)
  PROVE  fleetCost(c, fleet) \in Nat
<1> DEFINE D == DOMAIN fleet
           f == [i \in D |-> boatCost(c, fleet[i])]
<1>1. D = 1 .. Len(fleet) /\ Len(fleet) \in Nat
  BY LenProperties
<1>2. IsFiniteSet(D)
  BY <1>1, SoManyAreCounted
<1>3. \A i \in D : f[i] \in Nat
  <2> TAKE i \in D
  <2>1. fleet[i] \in BoatTemplate
    BY <1>1
  <2> QED BY <2>1, BoatCostIs
<1>4. fleetCost(c, fleet) = SumOver(f, D)
  BY DEF fleetCost
<1> HIDE DEF D, f
<1> QED BY <1>2, <1>3, <1>4, SumNat

---------------------------------------------------------------------------
(* The editor.                                                             *)

LEMMA RemovedIs ==
  ASSUME NEW A, NEW s \in Seq(A), NEW i \in DOMAIN s
  PROVE  /\ RemoveAt(s, i) \in Seq(A) /\ Len(RemoveAt(s, i)) = Len(s) - 1
         /\ \A j \in DOMAIN RemoveAt(s, i) : \E k \in DOMAIN s : RemoveAt(s, i)[j] = s[k]
<1> DEFINE n == Len(s)
           a == SubSeq(s, 1, i - 1)
           b == SubSeq(s, i + 1, n)
           u == a \o b
<1>1. n \in Nat /\ DOMAIN s = 1 .. n /\ i \in 1 .. n
  BY LenProperties
<1>2. a \in Seq(A) /\ Len(a) = i - 1 /\ \A j \in 1 .. i - 1 : a[j] = s[j]
  <2>1. SubSeq(s, 1, i - 1) = [j \in 1 .. i - 1 |-> s[j]]
    BY <1>1
  <2>2. \A j \in 1 .. i - 1 : s[j] \in A
    BY <1>1
  <2>3. i - 1 \in Nat
    BY <1>1
  <2>4. a \in Seq(A)
    BY <2>1, <2>2, <2>3, IsASeq
  <2> QED BY <2>1, <2>3, <2>4, LenProperties
<1>3. b \in Seq(A) /\ Len(b) = n - i /\ \A j \in 1 .. n - i : b[j] = s[i + j]
  <2>1. SubSeq(s, i + 1, n) = [j \in 1 .. n - i |-> s[i + j]]
    BY <1>1
  <2>2. \A j \in 1 .. n - i : s[i + j] \in A
    BY <1>1
  <2>3. n - i \in Nat
    BY <1>1
  <2>4. b \in Seq(A)
    BY <2>1, <2>2, <2>3, IsASeq
  <2> QED BY <2>1, <2>3, <2>4, LenProperties
<1>4. RemoveAt(s, i) = u
  BY DEF RemoveAt
<1> HIDE DEF a, b
<1>5. /\ u \in Seq(A) /\ Len(u) = n - 1 /\ DOMAIN u = 1 .. n - 1
      /\ \A j \in 1 .. n - 1 : u[j] = IF j <= i - 1 THEN a[j] ELSE b[j - (i - 1)]
  <2>1. a \in Seq(A) /\ b \in Seq(A)
    BY <1>2, <1>3
  <2>2. u \in Seq(A) /\ Len(u) = Len(a) + Len(b)
        /\ \A j \in 1 .. Len(a) + Len(b) : u[j] = IF j <= Len(a) THEN a[j] ELSE b[j - Len(a)]
    BY <2>1, ConcatProperties
  <2> HIDE DEF u, n
  <2>3. Len(a) = i - 1 /\ Len(a) + Len(b) = n - 1
    BY <1>1, <1>2, <1>3
  <2> QED BY <2>2, <2>3, LenProperties
<1> HIDE DEF u, n
<1>6. ASSUME NEW j \in 1 .. n - 1
      PROVE  \E k \in DOMAIN s : u[j] = s[k]
  <2>1. CASE j <= i - 1
    <3>1. j \in 1 .. i - 1 /\ j \in 1 .. n
      BY <1>1, <2>1
    <3>2. u[j] = s[j]
      BY <1>2, <1>5, <2>1, <3>1
    <3> QED BY <1>1, <3>1, <3>2
  <2>2. CASE ~(j <= i - 1)
    <3>1. j - (i - 1) \in 1 .. n - i /\ j + 1 \in 1 .. n /\ i + (j - (i - 1)) = j + 1
      BY <1>1, <2>2
    <3>2. u[j] = s[j + 1]
      BY <1>3, <1>5, <2>2, <3>1
    <3> QED BY <1>1, <3>1, <3>2
  <2> QED BY <2>1, <2>2
<1> QED BY <1>4, <1>5, <1>6 DEF n

\* The draft as tables c allow it.
DraftIsBuilt(c, d) == d \in Draft /\ d.selected <= FLEET_MAX_BOATS /\ Built(c, d.boats)

\* An edit makes the draft dirty, leaves what is stored of it alone, or begins a new one.
Edits(d, e) ==
  \/ e = EMPTY
  \/ /\ e.savedId = d.savedId
     /\ ~e.dirty => ~d.dirty /\ e.crossed = d.crossed /\ e.named = d.named /\ e.boats = d.boats

LEMMA EmptyIsBuilt ==
  ASSUME NEW c
  PROVE  DraftIsBuilt(c, EMPTY)
<1>1. EMPTY \in Draft /\ EMPTY.boats = <<>> /\ EMPTY.selected = 0
  BY DEF EMPTY, Draft
<1>2. Built(c, <<>>)
  BY FleetsAssumption DEF Built
<1> QED BY <1>1, <1>2, FleetsAssumption DEF DraftIsBuilt

\* Other fleet, or another of them selected.
LEMMA WithBoats ==
  ASSUME NEW c, NEW d, DraftIsBuilt(c, d), NEW fleet, Built(c, fleet),
         NEW selected \in Nat, selected <= FLEET_MAX_BOATS, NEW e,
         e = [d EXCEPT !.boats = fleet, !.selected = selected, !.dirty = TRUE]
  PROVE  DraftIsBuilt(c, e) /\ Edits(d, e)
<1>1. fleet \in Seq(BoatTemplate) /\ d \in Draft
  BY DEF Built, DraftIsBuilt
<1>2. e \in Draft /\ e.boats = fleet /\ e.selected = selected /\ e.savedId = d.savedId /\ e.dirty
  BY <1>1 DEF Draft
<1> QED BY <1>2 DEF DraftIsBuilt, Edits

LEMMA AnotherBoat ==
  ASSUME NEW c, NEW fleet, Built(c, fleet), NEW i \in DOMAIN fleet,
         NEW b \in BoatTemplate, FitWell(c, b.hull, b.modules)
  PROVE  Built(c, [fleet EXCEPT ![i] = b])
<1> DEFINE u == [fleet EXCEPT ![i] = b]
<1>1. fleet \in Seq(BoatTemplate) /\ DOMAIN fleet = 1 .. Len(fleet) /\ Len(fleet) \in Nat
      /\ \A j \in DOMAIN fleet : FitWell(c, fleet[j].hull, fleet[j].modules)
  BY LenProperties DEF Built
<1>2. u \in Seq(BoatTemplate) /\ Len(u) = Len(fleet) /\ DOMAIN u = DOMAIN fleet
      /\ \A j \in DOMAIN fleet : u[j] = IF j = i THEN b ELSE fleet[j]
  <2>1. u \in Seq(BoatTemplate) /\ Len(u) = Len(fleet)
    BY <1>1, ExceptSeq
  <2> QED BY <1>1, <2>1
<1> HIDE DEF u
<1>3. Len(u) <= FLEET_MAX_BOATS
  BY <1>2 DEF Built
<1>4. \A j \in DOMAIN u : FitWell(c, u[j].hull, u[j].modules)
  BY <1>1, <1>2
<1> QED BY <1>2, <1>3, <1>4 DEF Built, u

\* A module in a slot of the hull, in place of what was there.
LEMMA RefittedFits ==
  ASSUME NEW c \in Release, NEW h, NEW mods, FitWell(c, h, mods), NEW s \in SlotsOf(c, h)
  PROVE  /\ FitWell(c, h, Without(mods, s))
         /\ \A m \in Known[c] : SlotOf[m] = s[1] => FitWell(c, h, Refitted(mods, s, m))
<1> DEFINE S == {f \in FittedModule : <<f.slot, f.index>> # s}
           w == Without(mods, s)
<1>1. mods \in Seq(FittedModule)
  BY DEF FitWell
<1>2. w = Filtered(mods, S)
  BY DEF Without
<1>3. FitWell(c, h, w) /\ w \in Seq(FittedModule) /\ ToSet(w) \subseteq S
  BY <1>1, <1>2, FewerFit, FilteredIs
<1> HIDE DEF w
<1>4. ASSUME NEW m \in Known[c], SlotOf[m] = s[1]
      PROVE  FitWell(c, h, Refitted(mods, s, m))
  <2> DEFINE f == [slot |-> s[1], index |-> s[2], module |-> m]
  <2>1. /\ s[1] \in ToSet(SLOT_KINDS) /\ s[2] \in 0 .. 9 /\ s = <<s[1], s[2]>>
        /\ s[2] < Slots[c][h][s[1]]
    BY DEF SlotsOf
  <2>2. m \in Module
    BY TablesAssumption
  <2>3. f \in FittedModule /\ f.slot = s[1] /\ f.index = s[2] /\ f.module = m
    BY <2>1, <2>2 DEF FittedModule
  <2>4. Refitted(mods, s, m) = Append(w, f)
    BY DEF Refitted, w
  <2> HIDE DEF f
  <2>5. Fitting(c, h, f)
    BY <1>4, <2>1, <2>3 DEF Fitting
  <2>6. \A g \in ToSet(w) : ~SameSlot(f, g)
    BY <1>3, <2>1, <2>3 DEF SameSlot
  <2> QED BY <1>3, <2>3, <2>4, <2>5, <2>6, OneMoreFits DEF OneFits
<1> QED BY <1>3, <1>4 DEF w

LEMMA DraftIs ==
  ASSUME NEW c, NEW d, DraftIsBuilt(c, d)
  PROVE  /\ d \in Draft /\ d.boats \in Seq(BoatTemplate) /\ d.selected \in Nat
         /\ d.selected <= FLEET_MAX_BOATS /\ Len(d.boats) <= FLEET_MAX_BOATS
         /\ Len(d.boats) \in Nat /\ DOMAIN d.boats = 1 .. Len(d.boats)
         /\ \A i \in DOMAIN d.boats : /\ d.boats[i] \in BoatTemplate
                                     /\ FitWell(c, d.boats[i].hull, d.boats[i].modules)
<1>1. d \in Draft /\ d.boats \in Seq(BoatTemplate) /\ d.selected \in Nat
  BY DEF DraftIsBuilt, Draft
<1>2. DOMAIN d.boats = 1 .. Len(d.boats) /\ \A i \in DOMAIN d.boats : d.boats[i] \in BoatTemplate
  BY <1>1, LenProperties
<1> QED BY <1>1, <1>2, LenProperties DEF DraftIsBuilt, Built

\* Whatever the player does to the draft, it can be built with the tables of the release.
LEMMA EditingBuilds ==
  ASSUME release \in Release, DraftIsBuilt(release, draft), editing
  PROVE  DraftIsBuilt(release, draft') /\ Edits(draft, draft')
<1> DEFINE c == release
           d == draft
<1>0. /\ d \in Draft /\ d.boats \in Seq(BoatTemplate) /\ d.selected \in Nat
      /\ d.selected <= FLEET_MAX_BOATS /\ Len(d.boats) <= FLEET_MAX_BOATS
      /\ Len(d.boats) \in Nat /\ DOMAIN d.boats = 1 .. Len(d.boats)
      /\ \A i \in DOMAIN d.boats : /\ d.boats[i] \in BoatTemplate
                                  /\ FitWell(c, d.boats[i].hull, d.boats[i].modules)
  BY DraftIs
<1>00. FLEET_MAX_BOATS \in Nat \ {0}
  BY FleetsAssumption
<1>1. CASE newFleet
  BY <1>1, EmptyIsBuilt DEF newFleet, Edits
<1>2. ASSUME NEW ok \in BOOLEAN, setFleetName(ok)
      PROVE  DraftIsBuilt(c, draft') /\ Edits(d, draft')
  <2>1. draft' = [[d EXCEPT !.named = ok] EXCEPT !.dirty = TRUE]
    BY <1>2 DEF setFleetName, Edited
  <2>2. draft' \in Draft /\ draft'.boats = d.boats /\ draft'.selected = d.selected
        /\ draft'.savedId = d.savedId /\ draft'.dirty
    BY <1>0, <2>1 DEF Draft
  <2> QED BY <2>2 DEF DraftIsBuilt, Edits
<1>3. ASSUME NEW h \in Hull, addBoat(h)
      PROVE  DraftIsBuilt(c, draft') /\ Edits(d, draft')
  <2> DEFINE b == [hull |-> h, named |-> TRUE, modules |-> <<>>]
             u == Append(d.boats, b)
             n == Len(d.boats) + 1
  <2>1. b \in BoatTemplate /\ b.hull = h /\ b.modules = <<>>
    BY DEF BoatTemplate
  <2>2. FitWell(c, b.hull, b.modules)
    BY <2>1, NoneFitsWell
  <2>3. Len(d.boats) < FLEET_MAX_BOATS /\ draft' = [[d EXCEPT !.boats = u, !.selected = n] EXCEPT !.dirty = TRUE]
    BY <1>3 DEF addBoat, Edited
  <2> HIDE DEF b
  <2>4. /\ u \in Seq(BoatTemplate) /\ Len(u) = n /\ DOMAIN u = 1 .. n /\ u[n] = b
        /\ \A i \in 1 .. Len(d.boats) : u[i] = d.boats[i]
    BY <1>0, <2>1, AppendProperties, LenProperties
  <2>5. n \in Nat /\ n <= FLEET_MAX_BOATS
    BY <1>0, <1>00, <2>3
  <2> HIDE DEF u
  <2>6. \A i \in 1 .. n : FitWell(c, u[i].hull, u[i].modules)
    <3> TAKE i \in 1 .. n
    <3>1. CASE i = n
      BY <2>2, <2>4, <3>1
    <3>2. CASE i # n
      <4>1. i \in 1 .. Len(d.boats)
        BY <1>0, <3>2
      <4> QED BY <1>0, <2>4, <4>1
    <3> QED BY <3>1, <3>2
  <2>7. Built(c, u)
    BY <2>4, <2>5, <2>6 DEF Built
  <2> HIDE DEF n
  <2>8. draft' = [d EXCEPT !.boats = u, !.selected = n, !.dirty = TRUE]
    BY <2>3
  <2> QED BY <2>5, <2>7, <2>8, WithBoats
<1>4. ASSUME NEW i \in DOMAIN d.boats, removeBoat(i)
      PROVE  DraftIsBuilt(c, draft') /\ Edits(d, draft')
  <2> DEFINE u == RemoveAt(d.boats, i)
             n == IF d.selected > Len(u) THEN Len(u) ELSE d.selected
  <2>1. draft' = [[d EXCEPT !.boats = u, !.selected = n] EXCEPT !.dirty = TRUE]
    BY <1>4 DEF removeBoat, Edited
  <2>2. /\ u \in Seq(BoatTemplate) /\ Len(u) = Len(d.boats) - 1
        /\ \A j \in DOMAIN u : \E k \in DOMAIN d.boats : u[j] = d.boats[k]
    BY <1>0, RemovedIs
  <2> HIDE DEF u
  <2>3. Len(u) \in Nat /\ Len(u) <= FLEET_MAX_BOATS
    BY <1>0, <1>00, <2>2, LenProperties
  <2>4. \A j \in DOMAIN u : FitWell(c, u[j].hull, u[j].modules)
    BY <1>0, <2>2
  <2>5. Built(c, u)
    BY <2>2, <2>3, <2>4 DEF Built
  <2>6. n \in Nat /\ n <= FLEET_MAX_BOATS
    BY <1>0, <2>3
  <2> HIDE DEF n
  <2>7. draft' = [d EXCEPT !.boats = u, !.selected = n, !.dirty = TRUE]
    BY <2>1
  <2> QED BY <2>5, <2>6, <2>7, WithBoats
<1>5. ASSUME NEW i \in DOMAIN d.boats, selectBoat(i)
      PROVE  DraftIsBuilt(c, draft') /\ Edits(d, draft')
  <2>1. draft' = [d EXCEPT !.selected = i] /\ i \in Nat /\ i <= FLEET_MAX_BOATS
    BY <1>0, <1>00, <1>5 DEF selectBoat
  <2>2. /\ draft' \in Draft /\ draft'.boats = d.boats /\ draft'.selected = i
        /\ draft'.savedId = d.savedId /\ draft'.dirty = d.dirty /\ draft'.named = d.named
        /\ draft'.crossed = d.crossed
    BY <1>0, <2>1 DEF Draft
  <2> QED BY <2>1, <2>2 DEF DraftIsBuilt, Edits
<1>6. ASSUME NEW i \in DOMAIN d.boats, NEW b \in BoatTemplate, FitWell(c, b.hull, b.modules),
             draft' = [d EXCEPT !.boats = [d.boats EXCEPT ![i] = b], !.dirty = TRUE]
      PROVE  DraftIsBuilt(c, draft') /\ Edits(d, draft')
  <2> DEFINE u == [d.boats EXCEPT ![i] = b]
             n == d.selected
  <2>1. Built(c, d.boats)
    BY DEF DraftIsBuilt
  <2>2. Built(c, u)
    BY <1>6, <2>1, AnotherBoat
  <2>3. draft' = [d EXCEPT !.boats = u, !.dirty = TRUE]
    BY <1>6
  <2> HIDE DEF u
  <2>4. draft' = [d EXCEPT !.boats = u, !.selected = n, !.dirty = TRUE]
    BY <1>0, <2>3 DEF Draft
  <2>5. n \in Nat /\ n <= FLEET_MAX_BOATS
    BY <1>0
  <2> HIDE DEF n
  <2> QED BY <2>2, <2>4, <2>5, WithBoats
<1>7. ASSUME NEW i \in DOMAIN d.boats, NEW ok \in BOOLEAN, renameBoat(i, ok)
      PROVE  DraftIsBuilt(c, draft') /\ Edits(d, draft')
  <2> DEFINE b == [d.boats[i] EXCEPT !.named = ok]
  <2>1. d.boats[i] \in BoatTemplate /\ FitWell(c, d.boats[i].hull, d.boats[i].modules)
    BY <1>0
  <2>2. b \in BoatTemplate /\ b.hull = d.boats[i].hull /\ b.modules = d.boats[i].modules
    BY <2>1 DEF BoatTemplate
  <2>3. draft' = [[d EXCEPT !.boats[i].named = ok] EXCEPT !.dirty = TRUE]
    BY <1>7 DEF renameBoat, Edited
  <2>4. draft' = [d EXCEPT !.boats = [d.boats EXCEPT ![i] = b], !.dirty = TRUE]
    BY <2>3
  <2> HIDE DEF b
  <2>5. FitWell(c, b.hull, b.modules)
    BY <2>1, <2>2
  <2> QED BY <1>6, <2>2, <2>4, <2>5
<1>8. ASSUME d.selected \in DOMAIN d.boats, NEW s \in SlotsOf(c, d.boats[d.selected].hull),
             clearSlot(s) \/ \E m \in Known[c] : SlotOf[m] = s[1] /\ fitModule(s, m)
      PROVE  DraftIsBuilt(c, draft') /\ Edits(d, draft')
  <2> DEFINE i == d.selected
             h == d.boats[i].hull
             old == d.boats[i].modules
  <2>1. d.boats[i] \in BoatTemplate /\ FitWell(c, h, old)
    BY <1>0, <1>8
  <2>2. PICK new : /\ FitWell(c, h, new)
                   /\ draft' = [[d EXCEPT !.boats[i].modules = new] EXCEPT !.dirty = TRUE]
    <3>1. CASE clearSlot(s)
      <4> DEFINE new == Without(old, s)
      <4>1. FitWell(c, h, new)
        BY <1>8, <2>1, RefittedFits
      <4>2. draft' = [[d EXCEPT !.boats[i].modules = new] EXCEPT !.dirty = TRUE]
        BY <3>1 DEF clearSlot, Edited
      <4> HIDE DEF new
      <4> QED BY <4>1, <4>2
    <3>2. ASSUME NEW m \in Known[c], SlotOf[m] = s[1], fitModule(s, m)
          PROVE  \E new : /\ FitWell(c, h, new)
                          /\ draft' = [[d EXCEPT !.boats[i].modules = new] EXCEPT !.dirty = TRUE]
      <4> DEFINE new == Refitted(old, s, m)
      <4>1. FitWell(c, h, new)
        BY <1>8, <2>1, <3>2, RefittedFits
      <4>2. draft' = [[d EXCEPT !.boats[i].modules = new] EXCEPT !.dirty = TRUE]
        BY <3>2 DEF fitModule, Edited
      <4> HIDE DEF new
      <4> QED BY <4>1, <4>2
    <3> QED BY <1>8, <3>1, <3>2
  <2> DEFINE b == [d.boats[i] EXCEPT !.modules = new]
  <2>3. b \in BoatTemplate /\ b.hull = h /\ b.modules = new
    BY <2>1, <2>2 DEF BoatTemplate, FitWell
  <2>4. draft' = [d EXCEPT !.boats = [d.boats EXCEPT ![i] = b], !.dirty = TRUE]
    BY <2>2
  <2> HIDE DEF b
  <2>5. FitWell(c, b.hull, b.modules)
    BY <2>2, <2>3
  <2> QED BY <1>6, <1>8, <2>3, <2>4, <2>5
<1> QED BY <1>1, <1>2, <1>3, <1>4, <1>5, <1>7, <1>8 DEF editing

---------------------------------------------------------------------------
(* Drafts, calls and rows.                                                 *)

\* What is stored was valid for the tables that it was stored under, and is priced by them.
RowIsSound(entry) ==
  /\ entry \in Row /\ entry.named /\ Len(entry.boats) # 0
  /\ Built(entry.under, entry.boats) /\ AllNamed(entry.boats)
  /\ entry.points = fleetCost(entry.under, entry.boats)
RowsAreBuilt(R) == DOMAIN R \subseteq FleetIds /\ \A id \in DOMAIN R : RowIsSound(R[id])

\* A clean draft is what is stored, as these tables have it, unless a save crossed what it was
\* taken from.
DraftIsTrue(c, R, d) ==
  ~d.dirty /\ ~d.crossed /\ d.savedId \in DOMAIN R =>
     d.named = R[d.savedId].named /\ d.boats = Mended(c, R[d.savedId].boats)

Saving(k) == k.op \in {"create", "update"}

\* An answer that the draft may be taken from.
Fetched(k) == k.op \in {"create", "update", "load"} /\ k.stage = "answered"

\* What a call carries, before the server has seen it and after.
CallIsTrue(c, R, d, k) ==
  /\ k \in Call
  /\ Saving(k) \/ Fetched(k) => Built(c, k.boats)
  /\ k.stage = "counted" => validateFleet(c, k.named, k.boats, FLEET_MAX_BOATS)
  /\ Fetched(k) /\ ~k.crossed /\ k.id \in DOMAIN R =>
       k.named = R[k.id].named /\ k.boats = Mended(c, R[k.id].boats)
  /\ Pending(k) => /\ k.id # Empty
                   /\ ~d.dirty /\ ~d.crossed /\ d.savedId = k.id => d.named = k.named /\ d.boats = k.boats

\* No call that has not been crossed has an update of the same fleet before it.
Noticed(k, other) == Pending(other) /\ other.id = k.id => k.crossed

\* The calls under way, and what they say of draft and rows.
CallsAreTrue(c, R, d, q) ==
  /\ q \in [Wire -> Call]
  /\ \A w \in Wire : CallIsTrue(c, R, d, q[w])
  /\ \A w \in Wire, v \in Wire : w # v => Noticed(q[w], q[v])

DeskInv ==
  /\ desk \in Desks /\ release \in Release /\ RowsAreBuilt(rows) /\ DraftIsBuilt(release, draft)
  /\ DraftIsTrue(release, rows, draft) /\ CallsAreTrue(release, rows, draft, requests)
  /\ saved \subseteq FleetIds /\ busy \in BOOLEAN /\ loading \in BOOLEAN

\* There is room for the fleet that has been counted, and with the synchronous engine only one has.
CapInv ==
  /\ IsFiniteSet(Stored)
  /\ desk.engine = "sync" =>
       /\ Cardinality(Stored) <= MAX_FLEETS_PER_ACCOUNT
       /\ \A w \in Wire : requests[w].stage = "counted" =>
            /\ Cardinality(Stored) < MAX_FLEETS_PER_ACCOUNT
            /\ \A v \in Wire : requests[v].stage = "counted" => v = w

EditorInv == DeskInv /\ CapInv

LEMMA IdleIs ==
  ASSUME NEW c, NEW R, NEW d
  PROVE  Idle \in Call /\ CallIsTrue(c, R, d, Idle) /\ ~Pending(Idle) /\ Idle.stage = "answered" /\ Idle.id = Empty
<1>1. Idle \in Call /\ Idle.op = "none" /\ Idle.stage = "answered" /\ Idle.id = Empty
  BY DEF Idle, Call
<1> QED BY <1>1 DEF CallIsTrue, Saving, Fetched, Pending

LEMMA AllIdle ==
  ASSUME NEW c, NEW R, NEW d
  PROVE  CallsAreTrue(c, R, d, [w \in Wire |-> Idle])
BY IdleIs DEF CallsAreTrue, Noticed

LEMMA EmptyIsTrue ==
  ASSUME NEW c, NEW R, RowsAreBuilt(R)
  PROVE  DraftIsTrue(c, R, EMPTY)
BY FleetsAssumption DEF DraftIsTrue, EMPTY, RowsAreBuilt

LEMMA EditorBegins == ASSUME InitEditor PROVE EditorInv
<1>1. desk \in Desks /\ release \in Release /\ saved \subseteq FleetIds /\ busy \in BOOLEAN /\ loading \in BOOLEAN
  BY TablesAssumption DEF InitEditor
<1>2. RowsAreBuilt(rows) /\ Stored = {}
  BY DEF InitEditor, RowsAreBuilt, Stored
<1>3. DraftIsBuilt(release, draft)
  BY EmptyIsBuilt DEF InitEditor
<1>4. DraftIsTrue(release, rows, draft)
  BY <1>2, EmptyIsTrue DEF InitEditor
<1>5. CallsAreTrue(release, rows, draft, requests)
  BY AllIdle DEF InitEditor
<1>6. CapInv
  <2>1. IsFiniteSet(Stored) /\ Cardinality(Stored) = 0
    BY <1>2, FS_EmptySet
  <2>2. \A w \in Wire : requests[w].stage # "counted"
    BY IdleIs DEF InitEditor
  <2> QED BY <2>1, <2>2, FleetsAssumption DEF CapInv
<1> QED BY <1>1, <1>2, <1>3, <1>4, <1>5, <1>6 DEF EditorInv, DeskInv

\* Nothing is counted, and no fleet is more.
LEMMA CapStays ==
  ASSUME CapInv, desk' = desk, DOMAIN rows' \subseteq DOMAIN rows,
         \A w \in Wire : requests'[w].stage = "counted" => requests[w].stage = "counted"
  PROVE  CapInv'
<1>1. IsFiniteSet(Stored) /\ IsFiniteSet(Stored') /\ Cardinality(Stored') <= Cardinality(Stored)
  BY FS_Subset DEF CapInv, Stored
<1>2. Cardinality(Stored) \in Nat /\ Cardinality(Stored') \in Nat /\ MAX_FLEETS_PER_ACCOUNT \in Nat
  BY <1>1, FS_CardinalityType, FleetsAssumption
<1> QED BY <1>1, <1>2 DEF CapInv

\* What an edit leaves of what the draft and the calls say of each other.
LEMMA EditsAreTrue ==
  ASSUME NEW c, NEW R, NEW d, NEW e, NEW q, RowsAreBuilt(R), Edits(d, e),
         DraftIsTrue(c, R, d), CallsAreTrue(c, R, d, q)
  PROVE  DraftIsTrue(c, R, e) /\ CallsAreTrue(c, R, e, q)
<1>1. DraftIsTrue(c, R, e)
  BY EmptyIsTrue DEF DraftIsTrue, Edits
<1>2. ASSUME NEW w \in Wire
      PROVE  CallIsTrue(c, R, e, q[w])
  <2>1. CallIsTrue(c, R, d, q[w])
    BY DEF CallsAreTrue
  <2>2. CASE e = EMPTY
    <3>1. e.savedId = Empty
      BY <2>2 DEF EMPTY
    <3> QED BY <2>1, <3>1 DEF CallIsTrue
  <2>3. CASE e # EMPTY
    BY <2>1, <2>3 DEF Edits, CallIsTrue
  <2> QED BY <2>2, <2>3
<1> QED BY <1>1, <1>2 DEF CallsAreTrue

\* The parts of a step of each kind.
LEMMA EditingKeeps ==
  ASSUME EditorInv, editing
  PROVE  EditorInv'
<1>1. UNCHANGED <<desk, release, rows, saved, requests, busy, loading>>
  BY DEF editing, anEdit
<1>2. DraftIsBuilt(release, draft') /\ Edits(draft, draft')
  BY EditingBuilds DEF EditorInv, DeskInv
<1>3. DraftIsTrue(release, rows, draft') /\ CallsAreTrue(release, rows, draft', requests)
  BY <1>2, EditsAreTrue DEF EditorInv, DeskInv
<1>4. CapInv'
  BY <1>1 DEF EditorInv, CapInv, Stored
<1> QED BY <1>1, <1>2, <1>3, <1>4 DEF EditorInv, DeskInv

\* A call begun beside the others.
LEMMA BegunIs ==
  ASSUME EditorInv, NEW c \in Call, begin(c),
         c.op \in {"create", "update"} => Built(release, c.boats),
         c.op = "update" => /\ c.id # Empty
                            /\ ~draft.dirty /\ draft.savedId = c.id =>
                                 draft.named = c.named /\ draft.boats = c.boats
  PROVE  CallsAreTrue(release, rows, draft, requests') /\ CapInv' /\ UNCHANGED <<desk, release, rows, saved>>
<1>1. PICK w \in Wire \ Underway :
        requests' = [v \in Wire |->
          IF v = w THEN Begun(c)
          ELSE [requests[v] EXCEPT !.crossed = @ \/ (c.op = "update" /\ requests[v].id = c.id)]]
  BY DEF begin
<1>2. UNCHANGED <<desk, release, rows, saved>>
  BY DEF begin
<1> DEFINE b == Begun(c)
           after == requests'
           met(v) == c.op = "update" /\ requests[v].id = c.id
<1>3. requests \in [Wire -> Call] /\ (\A v \in Wire : CallIsTrue(release, rows, draft, requests[v]))
      /\ \A v \in Wire, u \in Wire : v # u => Noticed(requests[v], requests[u])
  BY DEF EditorInv, DeskInv, CallsAreTrue
<1>4. /\ b \in Call /\ b.op = c.op /\ b.stage = "sent" /\ b.id = c.id /\ b.named = c.named /\ b.boats = c.boats
      /\ (b.crossed <=> \E v \in Wire : Pending(requests[v]) /\ requests[v].id = c.id)
  BY DEF Begun, Call
<1>5. ASSUME NEW v \in Wire, v # w
      PROVE  /\ after[v] \in Call /\ after[v].op = requests[v].op /\ after[v].stage = requests[v].stage
             /\ after[v].id = requests[v].id /\ after[v].named = requests[v].named
             /\ after[v].boats = requests[v].boats
             /\ (after[v].crossed <=> (requests[v].crossed \/ met(v)))
  <2>1. after[v] = [requests[v] EXCEPT !.crossed = @ \/ met(v)]
    BY <1>1, <1>5
  <2>2. requests[v] \in Call
    BY <1>3
  <2> QED BY <2>1, <2>2 DEF Call
<1>6. after[w] = b /\ after = [v \in Wire |-> after[v]]
  BY <1>1
<1> HIDE DEF b
<1>7. CallIsTrue(release, rows, draft, b)
  BY <1>4 DEF CallIsTrue, Saving, Fetched, Pending
<1>8. \A v \in Wire : CallIsTrue(release, rows, draft, after[v])
  <2> TAKE v \in Wire
  <2>1. CASE v # w
    BY <1>3, <1>5, <2>1 DEF CallIsTrue, Saving, Fetched, Pending
  <2> QED BY <1>6, <1>7, <2>1
<1>9. ASSUME NEW v \in Wire, NEW u \in Wire, v # u
      PROVE  Noticed(after[v], after[u])
  <2>1. CASE v = w
    BY <1>4, <1>5, <1>6, <1>9, <2>1 DEF Noticed, Pending
  <2>2. CASE u = w
    BY <1>4, <1>5, <1>6, <1>9, <2>2 DEF Noticed, Pending
  <2>3. CASE v # w /\ u # w
    BY <1>3, <1>5, <1>9, <2>3 DEF Noticed, Pending
  <2> QED BY <2>1, <2>2, <2>3
<1>10. \A v \in Wire : after[v] \in Call
  BY <1>4, <1>5, <1>6
<1>11. after \in [Wire -> Call]
  BY <1>6, <1>10
<1>12. CapInv'
  <2>1. \A v \in Wire : after[v].stage = "counted" => requests[v].stage = "counted"
    BY <1>4, <1>5, <1>6
  <2> QED BY <1>2, <2>1, CapStays DEF EditorInv
<1> QED BY <1>2, <1>8, <1>9, <1>11, <1>12 DEF CallsAreTrue

LEMMA SavingKeeps ==
  ASSUME EditorInv, saveFleet
  PROVE  EditorInv'
<1> DEFINE k == [Idle EXCEPT !.op = IF draft.savedId = Empty THEN "create" ELSE "update",
                             !.id = draft.savedId, !.named = draft.named, !.boats = draft.boats]
<1>1. draft \in Draft /\ Built(release, draft.boats)
  BY DEF EditorInv, DeskInv, DraftIsBuilt
<1>2. /\ k \in Call /\ k.id = draft.savedId /\ k.named = draft.named /\ k.boats = draft.boats
      /\ k.op = IF draft.savedId = Empty THEN "create" ELSE "update"
  BY <1>1, IdleIs DEF Call, Draft
<1>3. begin(k) /\ draft' = draft /\ busy' = TRUE /\ loading' = loading
  BY DEF saveFleet
<1> HIDE DEF k
<1>4. CallsAreTrue(release, rows, draft, requests') /\ CapInv' /\ UNCHANGED <<desk, release, rows, saved>>
  BY <1>1, <1>2, <1>3, BegunIs
<1> QED BY <1>3, <1>4 DEF EditorInv, DeskInv

LEMMA ChoosingKeeps ==
  ASSUME EditorInv, NEW op \in {"load", "remove"}, choose(op)
  PROVE  EditorInv'
<1>1. PICK id \in saved : begin([Idle EXCEPT !.op = op, !.id = id])
  BY DEF choose
<1> DEFINE k == [Idle EXCEPT !.op = op, !.id = id]
<1>2. id \in FleetIds
  BY DEF EditorInv, DeskInv
<1>3. k \in Call /\ k.op = op
  BY <1>2, IdleIs DEF Call
<1>4. begin(k) /\ draft' = draft /\ busy' = TRUE /\ loading' = loading
  BY <1>1 DEF choose
<1> HIDE DEF k
<1>5. CallsAreTrue(release, rows, draft, requests') /\ CapInv' /\ UNCHANGED <<desk, release, rows, saved>>
  BY <1>3, <1>4, BegunIs
<1> QED BY <1>4, <1>5 DEF EditorInv, DeskInv

LEMMA VisitingKeeps ==
  ASSUME EditorInv, openPicker \/ openEditor
  PROVE  EditorInv'
<1> DEFINE k == [Idle EXCEPT !.op = "list"]
<1>1. k \in Call /\ k.op = "list"
  BY IdleIs DEF Call
<1>2. begin(k) /\ loading' = TRUE /\ busy' = busy /\ (draft' = draft \/ draft' = EMPTY)
  BY DEF openPicker, openEditor, refreshSaved, newFleet
<1> HIDE DEF k
<1>3. CallsAreTrue(release, rows, draft, requests') /\ CapInv' /\ UNCHANGED <<desk, release, rows, saved>>
  BY <1>1, <1>2, BegunIs
<1>4. Edits(draft, draft') /\ DraftIsBuilt(release, draft')
  BY <1>2, EmptyIsBuilt DEF Edits, EditorInv, DeskInv
<1>5. DraftIsTrue(release, rows, draft') /\ CallsAreTrue(release, rows, draft', requests')
  BY <1>3, <1>4, EditsAreTrue DEF EditorInv, DeskInv
<1> QED BY <1>2, <1>3, <1>4, <1>5 DEF EditorInv, DeskInv

\* The server's side.  A row is written with fleet that were found valid.
LEMMA WrittenIs ==
  ASSUME release \in Release, NEW fleet \in Seq(BoatTemplate), NEW named \in BOOLEAN,
         validateFleet(release, named, fleet, FLEET_MAX_BOATS)
  PROVE  /\ RowIsSound(Written(named, fleet))
         /\ Written(named, fleet).named = named /\ Written(named, fleet).boats = fleet
         /\ Written(named, fleet).under = release
         /\ Built(release, fleet) /\ Mended(release, fleet) = fleet
<1> DEFINE w == Written(named, fleet)
<1>1. named /\ Len(fleet) # 0 /\ Built(release, fleet) /\ AllNamed(fleet)
  BY FleetIsValid
<1>2. fleetCost(release, fleet) \in Nat
  BY FleetCostIs
<1>3. /\ w \in Row /\ w.named = named /\ w.boats = fleet /\ w.under = release
      /\ w.points = fleetCost(release, fleet)
  BY <1>2 DEF Written, Row
<1>4. Mended(release, fleet) = fleet
  BY <1>1, MendedIs DEF Built
<1> HIDE DEF w
<1>5. RowIsSound(w)
  BY <1>1, <1>3 DEF RowIsSound
<1> QED BY <1>1, <1>3, <1>4, <1>5 DEF w

\* One call becomes another.
LEMMA OneCallElse ==
  ASSUME NEW c, NEW R, NEW S, NEW d, NEW e, NEW q, CallsAreTrue(c, R, d, q), NEW w \in Wire, NEW k,
         CallIsTrue(c, S, e, k), \A v \in Wire \ {w} : CallIsTrue(c, S, e, q[v]),
         \A v \in Wire \ {w} : Noticed(k, q[v]) /\ Noticed(q[v], k)
  PROVE  CallsAreTrue(c, S, e, [q EXCEPT ![w] = k])
<1> DEFINE p == [q EXCEPT ![w] = k]
<1>1. q \in [Wire -> Call] /\ k \in Call
  BY DEF CallsAreTrue, CallIsTrue
<1>2. p \in [Wire -> Call] /\ p[w] = k /\ \A v \in Wire \ {w} : p[v] = q[v]
  BY <1>1
<1> HIDE DEF p
<1>3. \A v \in Wire : CallIsTrue(c, S, e, p[v])
  BY <1>2
<1>4. ASSUME NEW v \in Wire, NEW u \in Wire, v # u
      PROVE  Noticed(p[v], p[u])
  <2>1. CASE v = w
    BY <1>2, <1>4, <2>1
  <2>2. CASE u = w
    BY <1>2, <1>4, <2>2
  <2>3. CASE v # w /\ u # w
    <3>1. Noticed(q[v], q[u])
      BY <1>4 DEF CallsAreTrue
    <3> QED BY <1>2, <2>3, <3>1
  <2> QED BY <2>1, <2>2, <2>3
<1> QED BY <1>2, <1>3, <1>4 DEF CallsAreTrue, p

LEMMA CallIs ==
  ASSUME EditorInv, NEW w \in Wire
  PROVE  /\ requests[w] \in Call /\ requests[w].boats \in Seq(BoatTemplate) /\ requests[w].named \in BOOLEAN
         /\ requests[w].id \in FleetIds \cup {Empty} /\ requests[w].ids \subseteq FleetIds
         /\ CallIsTrue(release, rows, draft, requests[w])
         /\ Saving(requests[w]) =>
              /\ Built(release, requests[w].boats) /\ Repaired(requests[w]) = requests[w].boats
              /\ Mended(release, requests[w].boats) = requests[w].boats
<1> DEFINE k == requests[w]
<1>1. k \in Call /\ CallIsTrue(release, rows, draft, k) /\ release \in Release
  BY DEF EditorInv, DeskInv, CallsAreTrue
<1> HIDE DEF k
<1>2. k.boats \in Seq(BoatTemplate) /\ k.named \in BOOLEAN /\ k.id \in FleetIds \cup {Empty} /\ k.ids \subseteq FleetIds
  BY <1>1 DEF Call
<1>3. Repaired(k) = Mended(release, k.boats)
  BY DEF Repaired, Mended
<1>4. ASSUME Saving(k)
      PROVE  Built(release, k.boats) /\ Mended(release, k.boats) = k.boats
  <2>1. Built(release, k.boats)
    BY <1>1, <1>4 DEF CallIsTrue
  <2> QED BY <1>1, <1>2, <2>1, MendedIs DEF Built
<1> QED BY <1>1, <1>2, <1>3, <1>4 DEF k

\* A call that has been served, or that the server has given up with.
LEMMA ServedIs ==
  ASSUME EditorInv, NEW w \in Wire, NEW k, ends(w, k), NEW S,
         CallIsTrue(release, S, draft, k), ~Pending(k),
         \A v \in Wire \ {w} : Noticed(k, requests[v]) /\ CallIsTrue(release, S, draft, requests[v])
  PROVE  CallsAreTrue(release, S, draft, requests')
<1> DEFINE m == IF k.waits THEN k ELSE Idle
<1>1. requests' = [requests EXCEPT ![w] = m]
  BY DEF ends
<1>2. CallsAreTrue(release, rows, draft, requests)
  BY DEF EditorInv, DeskInv
<1>3. CallIsTrue(release, S, draft, m) /\ ~Pending(m)
  BY IdleIs
<1>4. ASSUME NEW v \in Wire \ {w}
      PROVE  Noticed(m, requests[v]) /\ Noticed(requests[v], m) /\ CallIsTrue(release, S, draft, requests[v])
  <2>1. CallIsTrue(release, S, draft, requests[v])
    OBVIOUS
  <2>2. Noticed(Idle, requests[v])
    BY <2>1, IdleIs DEF Noticed, CallIsTrue
  <2> QED BY <1>3, <2>1, <2>2 DEF Noticed
<1> HIDE DEF m
<1> QED BY <1>1, <1>2, <1>3, <1>4, OneCallElse

\* The rows as they were, the call answered or refused.
LEMMA ReadIs ==
  ASSUME EditorInv, NEW w \in Wire, NEW k, ends(w, k), CallIsTrue(release, rows, draft, k), ~Pending(k),
         k.id = requests[w].id, k.crossed = requests[w].crossed
  PROVE  CallsAreTrue(release, rows, draft, requests')
<1>1. \A v \in Wire \ {w} : Noticed(requests[w], requests[v]) /\ CallIsTrue(release, rows, draft, requests[v])
  BY DEF EditorInv, DeskInv, CallsAreTrue
<1>2. \A v \in Wire \ {w} : Noticed(k, requests[v])
  BY <1>1 DEF Noticed
<1> QED BY <1>1, <1>2, ServedIs

\* Nothing that has ended is counted.
LEMMA EndedIs ==
  ASSUME EditorInv, NEW w \in Wire, NEW k, ends(w, k), k.stage \in {"answered", "failed"}
  PROVE  /\ \A v \in Wire : requests'[v].stage = "counted" => v # w /\ requests[v].stage = "counted"
         /\ desk' = desk /\ DOMAIN rows' \subseteq DOMAIN rows => CapInv'
<1>1. requests \in [Wire -> Call]
  BY DEF EditorInv, DeskInv, CallsAreTrue
<1>2. /\ requests'[w] = IF k.waits THEN k ELSE Idle
      /\ \A v \in Wire \ {w} : requests'[v] = requests[v]
  BY <1>1 DEF ends
<1>3. requests'[w].stage # "counted"
  BY <1>2, IdleIs
<1>4. \A v \in Wire : requests'[v].stage = "counted" => v # w /\ requests[v].stage = "counted"
  BY <1>2, <1>3
<1> QED BY <1>4, CapStays DEF EditorInv

LEMMA RefusedIs ==
  ASSUME EditorInv, NEW w \in Wire, refuses(w)
  PROVE  /\ CallsAreTrue(release, rows, draft, requests')
         /\ desk' = desk /\ rows' = rows => CapInv'
<1> DEFINE k == [requests[w] EXCEPT !.stage = "failed"]
<1>1. ends(w, k)
  BY DEF refuses
<1>2. /\ k \in Call /\ k.stage = "failed" /\ k.op = requests[w].op /\ k.id = requests[w].id
      /\ k.boats = requests[w].boats /\ k.crossed = requests[w].crossed
  BY CallIs DEF Call
<1> HIDE DEF k
<1>3. CallIsTrue(release, rows, draft, k) /\ ~Pending(k)
  BY <1>2, CallIs DEF CallIsTrue, Saving, Fetched, Pending
<1> QED BY <1>1, <1>2, <1>3, ReadIs, EndedIs

\* Rows with one written anew, under an id that was or was not there.
LEMMA RowWritten ==
  ASSUME NEW R, NEW S, NEW id \in FleetIds, NEW w, RowsAreBuilt(R), RowIsSound(w),
         DOMAIN S = DOMAIN R \cup {id}, S[id] = w, \A i \in DOMAIN R \ {id} : S[i] = R[i]
  PROVE  RowsAreBuilt(S)
BY DEF RowsAreBuilt

\* The row of a save, and the answer that carries it.
LEMMA WroteIs ==
  ASSUME EditorInv, NEW w \in Wire, Saving(requests[w]), readSaveRequest(requests[w]), NEW id \in FleetIds,
         NEW S, DOMAIN S = DOMAIN rows \cup {id},
         S[id] = Written(requests[w].named, Repaired(requests[w])),
         \A i \in DOMAIN rows \ {id} : S[i] = rows[i],
         NEW k \in Call, k.op = requests[w].op, k.stage = "answered", k.id = id,
         k.named = requests[w].named, k.boats = requests[w].boats
  PROVE  /\ RowsAreBuilt(S) /\ S[id].named = requests[w].named
         /\ Mended(release, S[id].boats) = requests[w].boats
         /\ ~Pending(k) /\ CallIsTrue(release, S, draft, k)
<1> DEFINE old == requests[w]
           entry == Written(old.named, Repaired(old))
<1>1. /\ old \in Call /\ old.boats \in Seq(BoatTemplate) /\ old.named \in BOOLEAN
      /\ Built(release, old.boats) /\ Repaired(old) = old.boats /\ Mended(release, old.boats) = old.boats
  BY CallIs
<1>2. validateFleet(release, old.named, old.boats, FLEET_MAX_BOATS) /\ release \in Release /\ RowsAreBuilt(rows)
  BY DEF readSaveRequest, EditorInv, DeskInv
<1>3. k.op = old.op /\ k.named = old.named /\ k.boats = old.boats
  OBVIOUS
<1> HIDE DEF old
<1>4. RowIsSound(entry) /\ entry.named = old.named /\ entry.boats = old.boats
  BY <1>1, <1>2, WrittenIs
<1> HIDE DEF entry
<1>5. S[id] = entry
  BY DEF entry, old
<1>6. RowsAreBuilt(S)
  BY <1>2, <1>4, <1>5, RowWritten
<1>7. ~Pending(k)
  BY DEF Pending
<1>8. CallIsTrue(release, S, draft, k)
  BY <1>1, <1>3, <1>4, <1>5, <1>7 DEF CallIsTrue
<1> QED BY <1>1, <1>4, <1>5, <1>6, <1>7, <1>8 DEF old

LEMMA CountingKeeps ==
  ASSUME EditorInv, NEW w \in Wire, count(w), ServerTurn(w), desk' = desk
  PROVE  rows' = rows /\ CallsAreTrue(release, rows, draft, requests') /\ CapInv'
<1> DEFINE old == requests[w]
<1>1. old.op = "create" /\ old.stage = "sent" /\ rows' = rows
  BY DEF count
<1>2. CASE ~readSaveRequest(old) \/ Full
  <2>1. refuses(w)
    BY <1>2 DEF count
  <2> QED BY <1>1, <2>1, RefusedIs
<1>3. CASE ~(~readSaveRequest(old) \/ Full)
  <2> DEFINE k == [old EXCEPT !.stage = "counted"]
  <2>1. requests' = [requests EXCEPT ![w] = k]
    BY <1>3 DEF count
  <2>2. /\ requests \in [Wire -> Call] /\ CallsAreTrue(release, rows, draft, requests)
        /\ \A v \in Wire \ {w} : /\ Noticed(old, requests[v]) /\ CallIsTrue(release, rows, draft, requests[v])
    BY DEF EditorInv, DeskInv, CallsAreTrue
  <2>3. /\ k \in Call /\ k.op = "create" /\ k.stage = "counted" /\ k.id = old.id /\ k.boats = old.boats
        /\ k.named = old.named /\ k.crossed = old.crossed
    BY <1>1, <2>2 DEF Call
  <2>4. requests'[w] = k /\ \A v \in Wire \ {w} : requests'[v] = requests[v]
    BY <2>1, <2>2
  <2>5. CallIsTrue(release, rows, draft, old)
    BY CallIs
  <2>6. ~Full /\ validateFleet(release, old.named, old.boats, FLEET_MAX_BOATS)
    BY <1>3 DEF readSaveRequest
  <2> HIDE DEF k
  <2>7. CallIsTrue(release, rows, draft, k) /\ ~Pending(k)
    BY <1>1, <2>3, <2>5, <2>6 DEF CallIsTrue, Saving, Fetched, Pending
  <2>8. \A v \in Wire \ {w} : Noticed(k, requests[v]) /\ Noticed(requests[v], k)
    BY <2>2, <2>3, <2>7 DEF Noticed
  <2>9. CallsAreTrue(release, rows, draft, requests')
    BY <2>1, <2>2, <2>7, <2>8, OneCallElse
  <2>10. Cardinality(Stored) \in Nat /\ MAX_FLEETS_PER_ACCOUNT \in Nat /\ Stored' = Stored
    BY <1>1, FS_CardinalityType, FleetsAssumption DEF EditorInv, CapInv, Stored
  <2>11. desk.engine = "sync" => \A v \in Wire : requests'[v].stage = "counted" => v = w
    BY <2>4 DEF ServerTurn
  <2>12. CapInv'
    <3>1. Cardinality(Stored) < MAX_FLEETS_PER_ACCOUNT
      BY <2>6, <2>10 DEF Full
    <3> QED BY <2>10, <2>11, <3>1 DEF EditorInv, CapInv
  <2> QED BY <1>1, <2>9, <2>12
<1> QED BY <1>2, <1>3

LEMMA CreatingKeeps ==
  ASSUME EditorInv, NEW w \in Wire, create(w), ServerTurn(w), desk' = desk
  PROVE  /\ RowsAreBuilt(rows') /\ DraftIsTrue(release, rows', draft)
         /\ CallsAreTrue(release, rows', draft, requests') /\ CapInv'
<1> DEFINE old == requests[w]
<1>1. old.op = "create" /\ old.stage = "counted"
  BY DEF create
<1>2. PICK id \in Fresh :
        /\ rows' = [f \in Stored \cup {id} |-> IF f = id THEN Written(old.named, Repaired(old)) ELSE rows[f]]
        /\ answers(w, [old EXCEPT !.id = id, !.boats = Repaired(old)])
  BY DEF create
<1> DEFINE k == [[old EXCEPT !.id = id, !.boats = Repaired(old)] EXCEPT !.stage = "answered"]
<1>3. ends(w, k)
  BY <1>2 DEF answers
<1>4. /\ id \in FleetIds /\ id \notin Stored /\ draft.savedId # id /\ \A v \in Wire : requests[v].id # id
  BY DEF Fresh
<1>5. /\ DOMAIN rows' = DOMAIN rows \cup {id} /\ rows'[id] = Written(old.named, Repaired(old))
      /\ \A i \in DOMAIN rows \ {id} : rows'[i] = rows[i]
  BY <1>2 DEF Stored
<1>6. Saving(old) /\ readSaveRequest(old)
  BY <1>1 DEF Saving, readSaveRequest, EditorInv, DeskInv, CallsAreTrue, CallIsTrue
<1>7. old \in Call /\ Repaired(old) = old.boats
  BY <1>6, CallIs
<1>8. /\ k \in Call /\ k.op = old.op /\ k.stage = "answered" /\ k.id = id /\ k.named = old.named
      /\ k.boats = old.boats
  BY <1>4, <1>7 DEF Call
<1> HIDE DEF k
<1>9. RowsAreBuilt(rows') /\ ~Pending(k) /\ CallIsTrue(release, rows', draft, k)
  BY <1>4, <1>5, <1>6, <1>8, WroteIs
<1>10. DraftIsTrue(release, rows', draft)
  BY <1>4, <1>5 DEF EditorInv, DeskInv, DraftIsTrue
<1>11. \A v \in Wire \ {w} : Noticed(k, requests[v]) /\ CallIsTrue(release, rows', draft, requests[v])
  <2> TAKE v \in Wire \ {w}
  <2>1. CallIsTrue(release, rows, draft, requests[v]) /\ requests[v].id # id
    BY <1>4, CallIs
  <2>2. CallIsTrue(release, rows', draft, requests[v])
    BY <1>5, <2>1 DEF CallIsTrue
  <2> QED BY <1>8, <2>1, <2>2 DEF Noticed
<1>12. CallsAreTrue(release, rows', draft, requests')
  BY <1>3, <1>9, <1>11, ServedIs
<1>13. CapInv'
  <2>1. Stored' = Stored \cup {id} /\ IsFiniteSet(Stored)
    BY <1>5 DEF Stored, EditorInv, CapInv
  <2>2. IsFiniteSet(Stored') /\ Cardinality(Stored') = Cardinality(Stored) + 1
    BY <1>4, <2>1, FS_AddElement
  <2>3. Cardinality(Stored) \in Nat /\ MAX_FLEETS_PER_ACCOUNT \in Nat
    BY <2>1, FS_CardinalityType, FleetsAssumption
  <2>4. \A v \in Wire : requests'[v].stage = "counted" => v # w /\ requests[v].stage = "counted"
    BY <1>3, <1>8, EndedIs
  <2> QED BY <1>1, <2>2, <2>3, <2>4 DEF EditorInv, CapInv
<1> QED BY <1>9, <1>10, <1>12, <1>13

LEMMA UpdatingKeeps ==
  ASSUME EditorInv, NEW w \in Wire, update(w), desk' = desk
  PROVE  /\ RowsAreBuilt(rows') /\ DraftIsTrue(release, rows', draft)
         /\ CallsAreTrue(release, rows', draft, requests') /\ CapInv'
<1> DEFINE old == requests[w]
<1>1. old.op = "update" /\ old.stage = "sent" /\ Pending(old)
  BY DEF update, Pending
<1>2. CASE ~readSaveRequest(old) \/ old.id \notin Stored
  <2>1. refuses(w) /\ rows' = rows
    BY <1>2 DEF update
  <2> QED BY <2>1, RefusedIs DEF EditorInv, DeskInv
<1>3. CASE ~(~readSaveRequest(old) \/ old.id \notin Stored)
  <2> DEFINE k == [[old EXCEPT !.boats = Repaired(old)] EXCEPT !.stage = "answered"]
  <2>1. /\ readSaveRequest(old) /\ old.id \in DOMAIN rows
        /\ rows' = [rows EXCEPT ![old.id] = Written(old.named, Repaired(old))]
        /\ answers(w, [old EXCEPT !.boats = Repaired(old)])
    BY <1>3 DEF update, Stored
  <2>2. ends(w, k)
    BY <2>1 DEF answers
  <2>3. /\ DOMAIN rows' = DOMAIN rows /\ rows'[old.id] = Written(old.named, Repaired(old))
        /\ \A i \in DOMAIN rows \ {old.id} : rows'[i] = rows[i]
    BY <2>1
  <2>4. old.id \in FleetIds /\ DOMAIN rows' = DOMAIN rows \cup {old.id}
    BY <2>1, <2>3 DEF EditorInv, DeskInv, RowsAreBuilt
  <2>5. Saving(old) /\ old \in Call /\ Repaired(old) = old.boats /\ CallIsTrue(release, rows, draft, old)
    BY <1>1, CallIs DEF Saving
  <2>6. /\ k \in Call /\ k.op = old.op /\ k.stage = "answered" /\ k.id = old.id /\ k.named = old.named
        /\ k.boats = old.boats /\ k.crossed = old.crossed
    BY <2>5 DEF Call
  <2> HIDE DEF k
  <2>7. /\ RowsAreBuilt(rows') /\ ~Pending(k) /\ CallIsTrue(release, rows', draft, k)
        /\ rows'[old.id].named = old.named /\ Mended(release, rows'[old.id].boats) = old.boats
    <3>1. Saving(requests[w]) /\ readSaveRequest(requests[w]) /\ k.boats = requests[w].boats
      BY <2>1, <2>5, <2>6
    <3>2. k.op = requests[w].op /\ k.named = requests[w].named
      BY <2>6
    <3> HIDE DEF old
    <3>3. rows'[old.id] = Written(requests[w].named, Repaired(requests[w]))
      BY <2>3 DEF old
    <3>4. RowsAreBuilt(rows') /\ rows'[old.id].named = requests[w].named
          /\ Mended(release, rows'[old.id].boats) = requests[w].boats
          /\ ~Pending(k) /\ CallIsTrue(release, rows', draft, k)
      BY <2>3, <2>4, <2>6, <3>1, <3>2, <3>3, WroteIs
    <3> QED BY <3>4 DEF old
  <2>8. DraftIsTrue(release, rows', draft)
    <3>1. DraftIsTrue(release, rows, draft)
      BY DEF EditorInv, DeskInv
    <3>2. CASE draft.savedId = old.id
      BY <1>1, <2>5, <2>7, <3>2 DEF DraftIsTrue, CallIsTrue
    <3>3. CASE draft.savedId # old.id
      BY <2>3, <3>1, <3>3 DEF DraftIsTrue
    <3> QED BY <3>2, <3>3
  <2>9. \A v \in Wire \ {w} : Noticed(k, requests[v]) /\ CallIsTrue(release, rows', draft, requests[v])
    <3> TAKE v \in Wire \ {w}
    <3>1. CallIsTrue(release, rows, draft, requests[v])
      BY CallIs
    <3>2. Noticed(old, requests[v]) /\ Noticed(requests[v], old)
      BY DEF EditorInv, DeskInv, CallsAreTrue
    <3>3. requests[v].id = old.id => requests[v].crossed
      BY <1>1, <3>2 DEF Noticed
    <3>4. CallIsTrue(release, rows', draft, requests[v])
      BY <2>3, <3>1, <3>3 DEF CallIsTrue
    <3> QED BY <2>6, <3>2, <3>4 DEF Noticed
  <2>10. CallsAreTrue(release, rows', draft, requests')
    BY <2>2, <2>7, <2>9, ServedIs
  <2>11. CapInv'
    BY <2>2, <2>3, <2>6, EndedIs
  <2> QED BY <2>7, <2>8, <2>10, <2>11
<1> QED BY <1>2, <1>3

LEMMA RemovingKeeps ==
  ASSUME EditorInv, NEW w \in Wire, remove(w), desk' = desk
  PROVE  /\ RowsAreBuilt(rows') /\ DraftIsTrue(release, rows', draft)
         /\ CallsAreTrue(release, rows', draft, requests') /\ CapInv'
<1> DEFINE old == requests[w]
<1>1. old.op = "remove" /\ old.stage = "sent"
  BY DEF remove
<1>2. CASE old.id \notin Stored
  <2>1. refuses(w) /\ rows' = rows
    BY <1>2 DEF remove
  <2> QED BY <2>1, RefusedIs DEF EditorInv, DeskInv
<1>3. CASE old.id \in Stored
  <2> DEFINE k == [old EXCEPT !.stage = "answered"]
  <2>1. rows' = [id \in Stored \ {old.id} |-> rows[id]] /\ ends(w, k)
    BY <1>3 DEF remove, answers
  <2>2. DOMAIN rows' \subseteq DOMAIN rows /\ \A id \in DOMAIN rows' : rows'[id] = rows[id]
    BY <2>1 DEF Stored
  <2>3. RowsAreBuilt(rows') /\ DraftIsTrue(release, rows', draft)
    BY <2>2 DEF EditorInv, DeskInv, RowsAreBuilt, DraftIsTrue
  <2>4. /\ k \in Call /\ k.op = "remove" /\ k.stage = "answered" /\ k.id = old.id /\ k.crossed = old.crossed
    BY <1>1, CallIs DEF Call
  <2> HIDE DEF k
  <2>5. CallIsTrue(release, rows', draft, k) /\ ~Pending(k)
    BY <2>4 DEF CallIsTrue, Saving, Fetched, Pending
  <2>6. \A v \in Wire \ {w} : Noticed(k, requests[v]) /\ CallIsTrue(release, rows', draft, requests[v])
    <3> TAKE v \in Wire \ {w}
    <3>1. CallIsTrue(release, rows, draft, requests[v]) /\ Noticed(old, requests[v])
      BY CallIs DEF EditorInv, DeskInv, CallsAreTrue
    <3>2. CallIsTrue(release, rows', draft, requests[v])
      BY <2>2, <3>1 DEF CallIsTrue
    <3> QED BY <2>4, <3>1, <3>2 DEF Noticed
  <2>7. CallsAreTrue(release, rows', draft, requests')
    BY <2>1, <2>5, <2>6, ServedIs
  <2>8. CapInv'
    BY <2>1, <2>2, <2>4, EndedIs
  <2> QED BY <2>3, <2>7, <2>8
<1> QED BY <1>2, <1>3

LEMMA LoadingKeeps ==
  ASSUME EditorInv, NEW w \in Wire, load(w), desk' = desk
  PROVE  rows' = rows /\ CallsAreTrue(release, rows, draft, requests') /\ CapInv'
<1> DEFINE old == requests[w]
<1>1. old.op = "load" /\ old.stage = "sent" /\ rows' = rows
  BY DEF load
<1>2. CASE old.id \notin Stored
  <2>1. refuses(w)
    BY <1>2 DEF load
  <2> QED BY <1>1, <2>1, RefusedIs
<1>3. CASE old.id \in Stored
  <2> DEFINE entry == rows[old.id]
             b == Mended(release, entry.boats)
             k == [[old EXCEPT !.boats = toFleet(entry), !.named = entry.named] EXCEPT !.stage = "answered"]
  <2>1. ends(w, k)
    BY <1>3 DEF load, answers
  <2>2. RowIsSound(entry) /\ release \in Release
    BY <1>3 DEF EditorInv, DeskInv, RowsAreBuilt, Stored
  <2>3. entry.boats \in Seq(BoatTemplate) /\ entry.named \in BOOLEAN /\ Len(entry.boats) <= FLEET_MAX_BOATS
    BY <2>2 DEF RowIsSound, Row, Built
  <2>4. toFleet(entry) = b
    BY DEF toFleet, Mended
  <2>5. Built(release, b) /\ b \in Seq(BoatTemplate)
    <3> HIDE DEF entry
    <3>1. Built(release, b)
      BY <2>2, <2>3, MendedIs
    <3> QED BY <3>1 DEF Built
  <2> HIDE DEF b
  <2>6. old \in Call
    BY CallIs
  <2>7. /\ k \in Call /\ k.op = "load" /\ k.stage = "answered" /\ k.id = old.id /\ k.named = entry.named
        /\ k.boats = b /\ k.crossed = old.crossed
    <3> HIDE DEF entry
    <3> QED BY <1>1, <2>3, <2>4, <2>5, <2>6 DEF Call
  <2> HIDE DEF k
  <2>8. CallIsTrue(release, rows, draft, k) /\ ~Pending(k)
    BY <2>5, <2>7 DEF CallIsTrue, Saving, Fetched, Pending, b
  <2> QED BY <1>1, <2>1, <2>7, <2>8, ReadIs, EndedIs
<1> QED BY <1>2, <1>3

LEMMA ListingKeeps ==
  ASSUME EditorInv, NEW w \in Wire, list(w), desk' = desk
  PROVE  rows' = rows /\ CallsAreTrue(release, rows, draft, requests') /\ CapInv'
<1> DEFINE old == requests[w]
           k == [[old EXCEPT !.ids = Stored] EXCEPT !.stage = "answered"]
<1>1. old.op \in {"list", "relist"} /\ rows' = rows /\ ends(w, k)
  BY DEF list, answers
<1>2. Stored \subseteq FleetIds
  BY DEF EditorInv, DeskInv, RowsAreBuilt, Stored
<1>3. k \in Call /\ k.op \in {"list", "relist"} /\ k.stage = "answered" /\ k.id = old.id /\ k.crossed = old.crossed
  BY <1>1, <1>2, CallIs DEF Call
<1> HIDE DEF k
<1>4. CallIsTrue(release, rows, draft, k) /\ ~Pending(k)
  BY <1>3 DEF CallIsTrue, Saving, Fetched, Pending
<1> QED BY <1>1, <1>3, <1>4, ReadIs, EndedIs

LEMMA ServingKeeps ==
  ASSUME EditorInv, NEW w \in Wire, serve(w)
  PROVE  EditorInv'
<1>1. UNCHANGED <<desk, release, draft, saved, busy, loading>> /\ ServerTurn(w)
  BY DEF serve
<1>2. /\ RowsAreBuilt(rows') /\ DraftIsTrue(release, rows', draft)
      /\ CallsAreTrue(release, rows', draft, requests') /\ CapInv'
  <2>1. RowsAreBuilt(rows) /\ DraftIsTrue(release, rows, draft)
    BY DEF EditorInv, DeskInv
  <2>2. CASE count(w) \/ load(w) \/ list(w)
    <3>1. rows' = rows /\ CallsAreTrue(release, rows, draft, requests') /\ CapInv'
      BY <1>1, <2>2, CountingKeeps, LoadingKeeps, ListingKeeps
    <3> QED BY <2>1, <3>1
  <2> QED BY <1>1, <2>2, CreatingKeeps, UpdatingKeeps, RemovingKeeps DEF serve
<1> QED BY <1>1, <1>2 DEF EditorInv, DeskInv

\* The page's side.
LEMMA TakenIs ==
  ASSUME EditorInv, NEW w \in Wire, NEW m, requests' = [requests EXCEPT ![w] = m], NEW e,
         CallIsTrue(release, rows, e, m), ~Pending(m), m.id = Empty, m.stage # "counted",
         \A v \in Wire \ {w} : Pending(requests[v]) /\ ~e.dirty /\ ~e.crossed /\ e.savedId = requests[v].id
                                 => e.named = requests[v].named /\ e.boats = requests[v].boats
  PROVE  /\ CallsAreTrue(release, rows, e, requests')
         /\ desk' = desk /\ rows' = rows => CapInv'
<1>1. CallsAreTrue(release, rows, draft, requests) /\ requests \in [Wire -> Call]
  BY DEF EditorInv, DeskInv, CallsAreTrue
<1>2. ASSUME NEW v \in Wire \ {w}
      PROVE  Noticed(m, requests[v]) /\ Noticed(requests[v], m) /\ CallIsTrue(release, rows, e, requests[v])
  <2>1. CallIsTrue(release, rows, draft, requests[v])
    BY CallIs
  <2> QED BY <2>1 DEF Noticed, CallIsTrue
<1>3. CallsAreTrue(release, rows, e, requests')
  BY <1>1, <1>2, OneCallElse
<1>4. \A v \in Wire : requests'[v].stage = "counted" => requests[v].stage = "counted"
  BY <1>1
<1> QED BY <1>3, <1>4, CapStays DEF EditorInv

LEMMA TakingKeeps ==
  ASSUME EditorInv, NEW w \in Wire, takeAnswer(w)
  PROVE  EditorInv'
<1> DEFINE k == requests[w]
           relist == [Idle EXCEPT !.op = "relist", !.stage = "sent"]
<1>0. /\ k.stage = "answered" /\ UNCHANGED <<desk, release, rows>> /\ k \in Call
      /\ release \in Release /\ RowsAreBuilt(rows) /\ DraftIsTrue(release, rows, draft)
      /\ DraftIsBuilt(release, draft) /\ saved \subseteq FleetIds /\ CallIsTrue(release, rows, draft, k)
      /\ k.boats \in Seq(BoatTemplate) /\ k.named \in BOOLEAN /\ k.id \in FleetIds \cup {Empty}
      /\ k.ids \subseteq FleetIds /\ k.crossed \in BOOLEAN
  <2>1. k \in Call /\ CallIsTrue(release, rows, draft, k) /\ k.boats \in Seq(BoatTemplate)
        /\ k.named \in BOOLEAN /\ k.id \in FleetIds \cup {Empty} /\ k.ids \subseteq FleetIds
    BY CallIs
  <2>2. k.crossed \in BOOLEAN
    BY <2>1 DEF Call
  <2> QED BY <2>1, <2>2 DEF takeAnswer, EditorInv, DeskInv
<1>1. saved' \subseteq FleetIds /\ busy' \in BOOLEAN /\ loading' \in BOOLEAN
  BY <1>0 DEF takeAnswer, shownAfter, EditorInv, DeskInv
<1>2. PICK m \in {relist, Idle} : requests' = [requests EXCEPT ![w] = m]
  BY DEF takeAnswer
<1>3. m \in Call /\ m.id = Empty /\ m.op \in {"none", "relist"} /\ m.stage # "counted"
  BY <1>2, IdleIs DEF Call, Idle
<1>4. \A e : CallIsTrue(release, rows, e, m) /\ ~Pending(m)
  BY <1>3 DEF CallIsTrue, Saving, Fetched, Pending
<1>5. \A v \in Wire \ {w} : Noticed(k, requests[v]) /\ CallIsTrue(release, rows, draft, requests[v])
  BY DEF EditorInv, DeskInv, CallsAreTrue
<1>6. draft \in Draft /\ draft.selected \in Nat /\ draft.selected <= FLEET_MAX_BOATS /\ FLEET_MAX_BOATS \in Nat \ {0}
      /\ Built(release, draft.boats) /\ draft.named \in BOOLEAN /\ draft.savedId \in FleetIds \cup {Empty}
      /\ draft.dirty \in BOOLEAN /\ draft.crossed \in BOOLEAN
  BY <1>0, FleetsAssumption DEF DraftIsBuilt, Draft
<1> HIDE DEF k, relist
<1>7. ASSUME DraftIsBuilt(release, draft'), DraftIsTrue(release, rows, draft'),
             \A v \in Wire \ {w} :
               Pending(requests[v]) /\ ~draft'.dirty /\ ~draft'.crossed /\ draft'.savedId = requests[v].id
                 => draft'.named = requests[v].named /\ draft'.boats = requests[v].boats
      PROVE  EditorInv'
  <2>1. CallIsTrue(release, rows, draft', m) /\ ~Pending(m) /\ m.id = Empty /\ m.stage # "counted"
    BY <1>3, <1>4
  <2>2. desk' = desk /\ rows' = rows
    BY <1>0
  <2>3. CallsAreTrue(release, rows, draft', requests') /\ CapInv'
    BY <1>2, <1>7, <2>1, <2>2, TakenIs
  <2> QED BY <1>0, <1>1, <1>7, <2>3 DEF EditorInv, DeskInv
<1>8. ASSUME NEW a \in Draft, draft' = a, a.savedId = k.id, a.named = k.named, a.boats = k.boats,
             a.crossed = k.crossed, a.selected <= FLEET_MAX_BOATS, Fetched(k)
      PROVE  EditorInv'
  <2>1. Built(release, k.boats)
        /\ (~k.crossed /\ k.id \in DOMAIN rows =>
              k.named = rows[k.id].named /\ k.boats = Mended(release, rows[k.id].boats))
    BY <1>0, <1>8 DEF CallIsTrue
  <2>2. DraftIsBuilt(release, a) /\ DraftIsTrue(release, rows, a)
    BY <1>8, <2>1 DEF DraftIsBuilt, DraftIsTrue
  <2>3. \A v \in Wire \ {w} : ~(Pending(requests[v]) /\ ~a.crossed /\ a.savedId = requests[v].id)
    BY <1>5, <1>8 DEF Noticed
  <2> QED BY <1>7, <1>8, <2>2, <2>3
<1>9. CASE k.op \in {"create", "update"}
  <2> DEFINE a == Adopted(draft, k)
  <2>1. draft' = a
    BY <1>9 DEF takeAnswer, k
  <2>2. a \in Draft /\ a.selected = draft.selected /\ a.boats = k.boats /\ a.named = k.named /\ a.savedId = k.id
        /\ a.crossed = k.crossed
    BY <1>0, <1>6 DEF Adopted, Draft
  <2> HIDE DEF a
  <2>3. Fetched(k)
    BY <1>0, <1>9 DEF Fetched
  <2> QED BY <1>6, <1>8, <2>1, <2>2, <2>3
<1>10. CASE k.op = "load"
  <2> DEFINE a == Loaded(k)
  <2>1. draft' = a
    BY <1>10 DEF takeAnswer, k
  <2>2. a \in Draft /\ a.selected <= FLEET_MAX_BOATS /\ a.boats = k.boats /\ a.named = k.named /\ a.savedId = k.id
        /\ a.crossed = k.crossed
    BY <1>0, <1>6 DEF Loaded, Draft
  <2> HIDE DEF a
  <2>3. Fetched(k)
    BY <1>0, <1>10 DEF Fetched
  <2> QED BY <1>8, <2>1, <2>2, <2>3
<1>11. CASE k.op \notin {"create", "update", "load"}
  <2>1. draft' = draft \/ draft' = [draft EXCEPT !.savedId = Empty, !.dirty = TRUE]
    BY <1>11 DEF takeAnswer, Detached, k
  <2>2. CASE draft' = draft
    <3>1. \A v \in Wire \ {w} :
            Pending(requests[v]) /\ ~draft.dirty /\ ~draft.crossed /\ draft.savedId = requests[v].id
              => draft.named = requests[v].named /\ draft.boats = requests[v].boats
      BY <1>5 DEF CallIsTrue
    <3> QED BY <1>0, <1>7, <2>2, <3>1
  <2>3. CASE draft' = [draft EXCEPT !.savedId = Empty, !.dirty = TRUE]
    <3>1. draft' \in Draft /\ draft'.selected = draft.selected /\ draft'.boats = draft.boats /\ draft'.dirty
      BY <1>6, <2>3 DEF Draft
    <3>2. DraftIsBuilt(release, draft') /\ DraftIsTrue(release, rows, draft')
      BY <1>6, <3>1 DEF DraftIsBuilt, DraftIsTrue
    <3> QED BY <1>7, <3>1, <3>2
  <2> QED BY <2>1, <2>2, <2>3
<1> QED BY <1>9, <1>10, <1>11

LEMMA FailingKeeps ==
  ASSUME EditorInv, NEW w \in Wire, takeFailure(w)
  PROVE  EditorInv'
<1> DEFINE k == requests[w]
<1>1. UNCHANGED <<desk, release, rows, draft, saved>> /\ busy' \in BOOLEAN /\ loading' \in BOOLEAN
  BY DEF takeFailure, shownAfter, EditorInv, DeskInv
<1>2. /\ CallsAreTrue(release, rows, draft, requests) /\ requests \in [Wire -> Call]
      /\ \A v \in Wire : CallIsTrue(release, rows, draft, requests[v])
      /\ \A v \in Wire \ {w} : Noticed(k, requests[v]) /\ Noticed(requests[v], k)
  BY DEF EditorInv, DeskInv, CallsAreTrue
<1>3. CallsAreTrue(release, rows, draft, requests') /\ CapInv'
  <2>1. CASE requests' = [requests EXCEPT ![w] = Idle]
    <3>1. \A v \in Wire \ {w} :
            Pending(requests[v]) /\ ~draft.dirty /\ ~draft.crossed /\ draft.savedId = requests[v].id
              => draft.named = requests[v].named /\ draft.boats = requests[v].boats
      BY <1>2 DEF CallIsTrue
    <3>2. CallIsTrue(release, rows, draft, Idle) /\ ~Pending(Idle) /\ Idle.id = Empty /\ Idle.stage # "counted"
      BY IdleIs
    <3>3. desk' = desk /\ rows' = rows
      BY <1>1
    <3> QED BY <2>1, <3>1, <3>2, <3>3, TakenIs
  <2>2. CASE requests' = [requests EXCEPT ![w].waits = FALSE]
    <3> DEFINE m == [k EXCEPT !.waits = FALSE]
    <3>1. requests' = [requests EXCEPT ![w] = m]
      BY <2>2
    <3>2. /\ m \in Call /\ m.op = k.op /\ m.stage = k.stage /\ m.id = k.id /\ m.named = k.named
          /\ m.boats = k.boats /\ m.crossed = k.crossed
      BY <1>2 DEF Call
    <3> HIDE DEF m
    <3>3. CallIsTrue(release, rows, draft, m)
      BY <1>2, <3>2 DEF CallIsTrue, Saving, Fetched, Pending
    <3>4. \A v \in Wire \ {w} : Noticed(m, requests[v]) /\ Noticed(requests[v], m)
      BY <1>2, <3>2 DEF Noticed, Pending
    <3>5. CallsAreTrue(release, rows, draft, requests')
      BY <1>2, <3>1, <3>3, <3>4, OneCallElse
    <3>6. \A v \in Wire : requests'[v].stage = "counted" => requests[v].stage = "counted"
      BY <1>2, <3>1, <3>2
    <3> QED BY <1>1, <3>5, <3>6, CapStays DEF EditorInv
  <2> QED BY <2>1, <2>2 DEF takeFailure
<1> QED BY <1>1, <1>3 DEF EditorInv, DeskInv

LEMMA UpgradingKeeps ==
  ASSUME EditorInv, upgrade
  PROVE  EditorInv'
<1>1. /\ release' \in Release /\ draft' = EMPTY /\ saved' = {} /\ rows' = rows /\ desk' = desk
      /\ requests' = [w \in Wire |-> Idle] /\ busy' = FALSE /\ loading' = FALSE
  BY DEF upgrade
<1>2. RowsAreBuilt(rows)
  BY DEF EditorInv, DeskInv
<1>3. DraftIsBuilt(release', EMPTY) /\ DraftIsTrue(release', rows, EMPTY)
  BY <1>2, EmptyIsBuilt, EmptyIsTrue
<1>4. CallsAreTrue(release', rows, EMPTY, requests')
  BY <1>1, AllIdle
<1>5. CapInv'
  <2>1. \A w \in Wire : requests'[w].stage = "counted" => requests[w].stage = "counted"
    BY <1>1, IdleIs
  <2> QED BY <1>1, <2>1, CapStays DEF EditorInv
<1> QED BY <1>1, <1>2, <1>3, <1>4, <1>5 DEF EditorInv, DeskInv

LEMMA EditorKeeps ==
  ASSUME EditorInv, [NextEditor]_editorVars
  PROVE  EditorInv'
<1>1. CASE UNCHANGED editorVars
  BY <1>1 DEF editorVars, EditorInv, DeskInv, CapInv, Stored
<1>2. CASE NextEditor
  <2>1. CASE loadFleet \/ deleteFleet
    BY <2>1, ChoosingKeeps DEF loadFleet, deleteFleet
  <2>2. CASE \E w \in Wire : serve(w) \/ takeAnswer(w) \/ takeFailure(w)
    BY <2>2, ServingKeeps, TakingKeeps, FailingKeeps
  <2> QED BY <1>2, <2>1, <2>2, EditingKeeps, SavingKeeps, VisitingKeeps, UpgradingKeeps DEF NextEditor
<1> QED BY <1>1, <1>2

---------------------------------------------------------------------------
(* What the invariant says of fleets.                                      *)

LEMMA EditorIsTyped == ASSUME EditorInv PROVE EditorTypeOK
<1>1. Stored \subseteq FleetIds /\ \A id \in Stored : rows[id] \in Row
  BY DEF EditorInv, DeskInv, RowsAreBuilt, RowIsSound, Stored
<1>2. draft \in Draft /\ draft.selected <= FLEET_MAX_BOATS /\ Len(draft.boats) <= FLEET_MAX_BOATS
  BY DEF EditorInv, DeskInv, DraftIsBuilt, Built
<1> QED BY <1>1, <1>2 DEF EditorTypeOK, EditorInv, DeskInv, CallsAreTrue

LEMMA FleetsMeanTheSame == ASSUME EditorInv PROVE FleetsAreSound
<1>1. /\ release \in Release /\ draft.boats \in Seq(BoatTemplate)
      /\ \A i \in DOMAIN draft.boats :
            draft.boats[i] \in BoatTemplate /\ FitWell(release, draft.boats[i].hull, draft.boats[i].modules)
  BY DEF EditorInv, DeskInv, DraftIsBuilt, Built
<1>2. EditorIsNeverRefused
  BY <1>1, ValidIs DEF EditorIsNeverRefused
<1>3. ASSUME NEW id \in DOMAIN rows
      PROVE  /\ toFleet(rows[id]) = Mended(release, rows[id].boats)
             /\ validateFleet(release, rows[id].named, toFleet(rows[id]), FLEET_MAX_BOATS)
             /\ rows[id].under = release =>
                  /\ toFleet(rows[id]) = rows[id].boats
                  /\ rows[id].points = fleetCost(release, rows[id].boats)
  <2> DEFINE entry == rows[id]
             m == Mended(release, entry.boats)
  <2>1. RowIsSound(entry)
    BY DEF EditorInv, DeskInv, RowsAreBuilt
  <2>2. toFleet(entry) = m
    BY DEF toFleet, Mended
  <2>3. entry.boats \in Seq(BoatTemplate) /\ Len(entry.boats) <= FLEET_MAX_BOATS /\ AllNamed(entry.boats)
        /\ entry.named /\ Len(entry.boats) # 0
    BY <2>1 DEF RowIsSound, Built
  <2>4. Built(release, m) /\ Len(m) = Len(entry.boats) /\ AllNamed(m)
        /\ (Built(release, entry.boats) => m = entry.boats)
    <3> HIDE DEF entry
    <3> QED BY <1>1, <2>3, MendedIs
  <2>5. entry.under = release => m = entry.boats /\ entry.points = fleetCost(release, entry.boats)
    BY <2>1, <2>4 DEF RowIsSound
  <2> HIDE DEF entry, m
  <2>6. validateFleet(release, entry.named, m, FLEET_MAX_BOATS)
    <3>1. m \in Seq(BoatTemplate)
      BY <2>4 DEF Built
    <3> QED BY <2>3, <2>4, <3>1, FleetIsValid
  <2> QED BY <2>2, <2>5, <2>6 DEF entry, m
<1>4. StoredFleetsLoad
  BY <1>3 DEF StoredFleetsLoad, Stored
<1>5. CleanMeansStored
  <2>1. DraftIsTrue(release, rows, draft)
    BY DEF EditorInv, DeskInv
  <2> SUFFICES ASSUME ~draft.dirty, ~draft.crossed, draft.savedId \in DOMAIN rows
      PROVE  DraftIsStored
    BY DEF CleanMeansStored, Stored
  <2>2. draft.named = rows[draft.savedId].named
        /\ draft.boats = Mended(release, rows[draft.savedId].boats)
    BY <2>1 DEF DraftIsTrue
  <2> QED BY <1>3, <2>2 DEF DraftIsStored
<1>7. SavesKeepEverything
  BY CallIs DEF SavesKeepEverything, Saving
<1>8. FleetsAreCapped
  BY DEF FleetsAreCapped, EditorInv, CapInv
<1>6. StackingIsOrderless
  <2>1. \A b \in ToSet(draft.boats) : b \in BoatTemplate
    BY <1>1 DEF ToSet
  <2> QED BY <1>1, <2>1, StacksAlike DEF StackingIsOrderless
<1> QED BY <1>2, <1>4, <1>5, <1>6, <1>7, <1>8 DEF FleetsAreSound

---------------------------------------------------------------------------
(* Where the boats start.                                                  *)

Points == [x : Int, y : Int]
BothTeams == {"team1", "team2"}
PutDown == [id : Nat, team : BothTeams, hull : DOMAIN Hulls, pos : Points]

\* Division rounds down.
LEMMA RoundingDown ==
  ASSUME NEW d \in Nat, d > 0, NEW a \in Int, NEW k \in Int
  PROVE  /\ a \div d \in Int
         /\ a >= d * k => a \div d >= k
         /\ a = d * k => a \div d = k
<1> DEFINE q == a \div d
<1>1. q \in Int /\ d * q <= a /\ a < d * q + d
  BY SMT
<1> HIDE DEF q
<1>2. a >= d * k => q >= k
  <2> SUFFICES ASSUME a >= d * k, q < k PROVE FALSE
    BY <1>1
  <2>1. d * (k - q) >= d
    <3>1. k - q - 1 \in Nat
      BY <1>1
    <3>2. d * (k - q - 1) >= 0
      BY <3>1
    <3> QED BY <1>1, <3>2
  <2> QED BY <1>1, <2>1
<1>3. a = d * k => q <= k
  <2> SUFFICES ASSUME a = d * k, q > k PROVE FALSE
    BY <1>1
  <2>1. d * (q - k) >= d
    <3>1. q - k - 1 \in Nat
      BY <1>1
    <3>2. d * (q - k - 1) >= 0
      BY <3>1
    <3> QED BY <1>1, <3>2
  <2> QED BY <1>1, <2>1
<1> QED BY <1>1, <1>2, <1>3 DEF q

\* The places of a band are finite in number.
LEMMA LatticesAreFinite ==
  ASSUME NEW t
  PROVE  IsFiniteSet(Lattice(t)) /\ Lattice(t) \subseteq Points
<1> DEFINE X == 0 .. MapWidth
           Y == 0 .. MapHeight - 1
           All == [x : X, y : Y]
           f == [p \in X \X Y |-> [x |-> p[1], y |-> p[2]]]
<1>1. MapWidth \in Int /\ MapHeight - 1 \in Int
  BY BerthsAssumption
<1>2. IsFiniteSet(X) /\ IsFiniteSet(Y)
  BY <1>1, FS_Interval
<1>3. IsFiniteSet(X \X Y)
  BY <1>2, FS_Product
<1>4. f \in Surjection(X \X Y, All)
  <2>1. f \in [X \X Y -> All]
    OBVIOUS
  <2>2. ASSUME NEW q \in All
        PROVE  \E p \in X \X Y : f[p] = q
    <3>1. <<q.x, q.y>> \in X \X Y /\ f[<<q.x, q.y>>] = q
      OBVIOUS
    <3> QED BY <3>1
  <2> QED BY <2>1, <2>2 DEF Surjection
<1>5. IsFiniteSet(All)
  BY <1>3, <1>4, FS_Surjection
<1>6. Lattice(t) \subseteq All
  BY DEF Lattice
<1>7. All \subseteq Points
  BY <1>1 DEF Points
<1> HIDE DEF All
<1> QED BY <1>5, <1>6, <1>7, FS_Subset

\* The square of a distance is nothing between a place and itself, and one at least between two.
LEMMA HowFarApart ==
  ASSUME NEW p \in Points, NEW q \in Points
  PROVE  /\ Apart(p, q) \in Nat
         /\ p = q => Apart(p, q) = 0
         /\ p # q => Apart(p, q) >= 1
<1>1. p = [x |-> p.x, y |-> p.y] /\ q = [x |-> q.x, y |-> q.y]
      /\ p.x \in Int /\ p.y \in Int /\ q.x \in Int /\ q.y \in Int
  BY DEF Points
<1> DEFINE a == p.x - q.x
           b == p.y - q.y
<1>2. a \in Int /\ b \in Int /\ (p = q => a = 0 /\ b = 0) /\ (p # q => a # 0 \/ b # 0)
  BY <1>1
<1>3. Apart(p, q) = a * a + b * b
  BY DEF Apart, Square
<1> HIDE DEF a, b
<1>4. /\ a * a \in Nat /\ b * b \in Nat /\ (a # 0 => a * a >= 1) /\ (b # 0 => b * b >= 1)
  BY <1>2
<1> QED BY <1>2, <1>3, <1>4

LEMMA BandsOf ==
  ASSUME NEW t \in BothTeams
  PROVE  /\ deploymentBands(t).x0 \in Int /\ deploymentBands(t).x1 \in Int
         /\ deploymentBands(t).x1 = deploymentBands(t).x0 + BandWidth
  BY BerthsAssumption DEF deploymentBands, BothTeams

LEMMA Depths ==
  ASSUME NEW h \in DOMAIN Hulls
  PROVE  /\ deepestBerth(Hulls[h].testDepth) \in Nat
         /\ deepestBerth(Hulls[h].testDepth) >= SHALLOWEST_BERTH
         /\ minY(h) \in Int /\ minY(h) = MapHeight - deepestBerth(Hulls[h].testDepth)
         /\ SHALLOWEST_BERTH \in Nat /\ MapHeight \in Nat
         /\ Hulls[h].clearanceRadius \in Nat \ {0}
<1>1. Hulls[h].testDepth \in Nat /\ SHALLOWEST_BERTH \in Nat /\ MapHeight \in Nat
      /\ TEST_DEPTH_MARGIN \in Nat /\ Hulls[h].clearanceRadius \in Nat \ {0}
  BY BerthsAssumption
<1> DEFINE d == Hulls[h].testDepth
<1>2. deepestBerth(d) \in Nat /\ deepestBerth(d) >= SHALLOWEST_BERTH
  <2>1. d \in Nat
    BY <1>1
  <2> HIDE DEF d
  <2> QED BY <1>1, <2>1 DEF deepestBerth
<1> QED BY <1>1, <1>2 DEF minY

\* What a boat is aimed at is in the middle of its band, no deeper than its hull may go.
LEMMA TargetIsFine ==
  ASSUME NEW t \in BothTeams, NEW h \in DOMAIN Hulls, NEW n \in Nat, NEW ordinal \in 1 .. n
  PROVE  LET target == berthTarget(t, h, ordinal, n)
             p == [x |-> target.x \div (2 * n), y |-> target.y \div (2 * n)]
         IN /\ p \in Points /\ p.y >= minY(h)
            /\ deploymentBands(t).x0 <= p.x /\ p.x < deploymentBands(t).x1
<1> DEFINE d == 2 * n
           target == berthTarget(t, h, ordinal, n)
           x0 == deploymentBands(t).x0
           x1 == deploymentBands(t).x1
           half == BandWidth \div 2
           deep == deepestBerth(Hulls[h].testDepth)
<1>1. n \in Nat /\ n > 0 /\ d \in Nat /\ d > 0 /\ d = 2 * n /\ ordinal \in Nat /\ ordinal <= n
  OBVIOUS
<1>2. /\ x0 \in Int /\ x1 = x0 + BandWidth /\ BandWidth = 2 * half /\ half \in Nat /\ half > 0
  BY BerthsAssumption, BandsOf
<1>3. target.x = d * (x0 + half)
  <2>1. target.x = n * (x0 + x1)
    BY DEF berthTarget
  <2> HIDE DEF target, x0, x1, half, d
  <2>2. x0 + x1 = 2 * (x0 + half) /\ x0 + half \in Int
    BY <1>2
  <2> QED BY <1>1, <2>1, <2>2
<1>4. target.y \in Int /\ target.y >= d * minY(h)
  <2>1. target.y = 2 * n * (MapHeight - SHALLOWEST_BERTH) - (deep - SHALLOWEST_BERTH) * (2 * ordinal - 1)
    BY DEF berthTarget
  <2>2. /\ deep \in Nat /\ deep >= SHALLOWEST_BERTH /\ minY(h) = MapHeight - deep
        /\ SHALLOWEST_BERTH \in Nat /\ MapHeight \in Nat
    BY Depths
  <2> DEFINE k == deep - SHALLOWEST_BERTH
             m == 2 * ordinal - 1
             top == MapHeight - SHALLOWEST_BERTH
  <2>3. k \in Nat /\ m \in Nat /\ top \in Int /\ d - m \in Nat /\ minY(h) = top - k
    BY <1>1, <2>2
  <2>4. target.y = d * top - k * m
    BY <2>1
  <2> HIDE DEF k, m, top, d, target, deep
  <2>5. k * (d - m) >= 0
    BY <2>3
  <2>6. k * (d - m) = d * k - k * m
    BY <1>1, <2>3
  <2>7. d * (top - k) = d * top - d * k
    BY <1>1, <2>3
  <2>8. d * top \in Int /\ k * m \in Int /\ d * k \in Int
    BY <1>1, <2>3
  <2>9. target.y >= d * (top - k)
    BY <2>4, <2>5, <2>6, <2>7, <2>8
  <2> QED BY <2>3, <2>4, <2>8, <2>9
<1>5. target.x \div d = x0 + half
  <2>1. x0 + half \in Int /\ target.x \in Int
    BY <1>1, <1>2, <1>3
  <2> HIDE DEF target, x0, half, d
  <2> QED BY <1>1, <1>3, <2>1, RoundingDown
<1>6. target.y \div d \in Int /\ target.y \div d >= minY(h)
  <2>1. minY(h) \in Int
    BY Depths
  <2> HIDE DEF target, d
  <2> QED BY <1>1, <1>4, <2>1, RoundingDown
<1> HIDE DEF d, target, x0, x1, half, deep
<1> DEFINE p == [x |-> target.x \div d, y |-> target.y \div d]
<1>7. p \in Points /\ p.y >= minY(h) /\ x0 <= p.x /\ p.x < x1
  <2>1. x0 + half \in Int /\ x0 <= x0 + half /\ x0 + half < x1
    BY <1>2
  <2> QED BY <1>5, <1>6, <2>1 DEF Points
<1> QED BY <1>7 DEF d, target, x0, x1

\* The places that would do for a boat, and which of two is the better one (scanBand).
Free(t, h, placed, needed, relaxation) ==
  {p \in legal(t, h, needed) : Clear(p, needed) /\ Separated(p, h, placed, relaxation)}
Score(t, h, ordinal, n, p) ==
  Apart([x |-> n * (2 * p.x + 1), y |-> n * (2 * p.y + 1)], berthTarget(t, h, ordinal, n))
Better(t, h, ordinal, n, p, q) ==
  \/ Score(t, h, ordinal, n, p) < Score(t, h, ordinal, n, q)
  \/ /\ Score(t, h, ordinal, n, p) = Score(t, h, ordinal, n, q)
     /\ p.x < q.x \/ (p.x = q.x /\ p.y <= q.y)

\* The scan finds one of them if there are any.
LEMMA TheScanFinds ==
  ASSUME NEW t \in BothTeams, NEW h \in DOMAIN Hulls, NEW n \in Nat, NEW ordinal \in 1 .. n,
         NEW placed, NEW needed, NEW relaxation
  PROVE  /\ Free(t, h, placed, needed, relaxation) = {} =>
              scanBand(t, h, ordinal, n, placed, needed, relaxation) = NoPlace
         /\ Free(t, h, placed, needed, relaxation) # {} =>
              /\ scanBand(t, h, ordinal, n, placed, needed, relaxation)
                   \in Free(t, h, placed, needed, relaxation)
              /\ scanBand(t, h, ordinal, n, placed, needed, relaxation) # NoPlace
<1> DEFINE free == Free(t, h, placed, needed, relaxation)
           target == berthTarget(t, h, ordinal, n)
           R == {w \in free \X free : Better(t, h, ordinal, n, w[1], w[2])}
           best == CHOOSE p \in free : \A q \in free : Better(t, h, ordinal, n, p, q)
           scan == scanBand(t, h, ordinal, n, placed, needed, relaxation)
<1>1. scan = IF free = {} THEN NoPlace ELSE best
  BY Zenon DEF scanBand, Better, Score, Free
<1>2. free \subseteq Points /\ IsFiniteSet(free)
  <2>1. free \subseteq Lattice(t)
    BY DEF Free, legal
  <2> HIDE DEF free
  <2> QED BY <2>1, LatticesAreFinite, FS_Subset
<1>3. ASSUME NEW p \in free
      PROVE  Score(t, h, ordinal, n, p) \in Nat /\ p.x \in Int /\ p.y \in Int
  <2>1. p.x \in Int /\ p.y \in Int
    BY <1>2 DEF Points
  <2>2. target \in Points
    <3>1. target.x \in Int /\ target.y \in Int
      <4>1. MapHeight \in Int /\ SHALLOWEST_BERTH \in Int /\ deepestBerth(Hulls[h].testDepth) \in Int
        BY Depths
      <4>2. deploymentBands(t).x0 + deploymentBands(t).x1 \in Int
        BY BandsOf, BerthsAssumption
      <4> DEFINE s == deploymentBands(t).x0 + deploymentBands(t).x1
                 deep == deepestBerth(Hulls[h].testDepth)
      <4>3. target.x = n * s
            /\ target.y = 2 * n * (MapHeight - SHALLOWEST_BERTH)
                            - (deep - SHALLOWEST_BERTH) * (2 * ordinal - 1)
        BY DEF berthTarget
      <4> HIDE DEF target, s, deep
      <4> QED BY <4>1, <4>2, <4>3 DEF s, deep
    <3>2. target = [x |-> target.x, y |-> target.y]
      BY DEF berthTarget
    <3> HIDE DEF target
    <3> QED BY <3>1, <3>2 DEF Points
  <2> DEFINE u == n * (2 * p.x + 1)
             v == n * (2 * p.y + 1)
  <2>3. u \in Int /\ v \in Int
    BY <2>1
  <2>4. Score(t, h, ordinal, n, p) = Apart([x |-> u, y |-> v], target)
    BY DEF Score
  <2> HIDE DEF target, u, v
  <2>5. [x |-> u, y |-> v] \in Points
    BY <2>3 DEF Points
  <2> QED BY <2>1, <2>2, <2>4, <2>5, HowFarApart
<1>4. \A p, q \in free : <<p, q>> \in R <=> Better(t, h, ordinal, n, p, q)
  OBVIOUS
<1> HIDE DEF R, free, scan, target
<1>5. Orders(R, free)
  <2>1. \A p, q \in free : Better(t, h, ordinal, n, p, q) \/ Better(t, h, ordinal, n, q, p)
    BY <1>3 DEF Better
  <2>2. \A p, q, r \in free : Better(t, h, ordinal, n, p, q) /\ Better(t, h, ordinal, n, q, r)
                                => Better(t, h, ordinal, n, p, r)
    BY <1>3 DEF Better
  <2> QED BY <1>4, <2>1, <2>2 DEF Orders
<1>6. ASSUME free # {}
      PROVE  best \in free
  <2>1. \E p \in free : \A q \in free : Better(t, h, ordinal, n, p, q)
    <3>1. PICK p \in free : \A q \in free : <<p, q>> \in R
      BY <1>2, <1>5, <1>6, ALeastOne
    <3> QED BY <1>4, <3>1
  <2> QED BY <2>1
<1>7. ASSUME NEW p \in Points
      PROVE  p # NoPlace
  <2>1. "x" \in DOMAIN p /\ "x" \notin DOMAIN NoPlace
    BY <1>7 DEF Points, NoPlace
  <2> QED BY <2>1
<1> HIDE DEF best
<1>8. /\ free = {} => scan = NoPlace
      /\ free # {} => scan \in free /\ scan # NoPlace
  BY <1>1, <1>2, <1>6, <1>7
<1> QED BY <1>8 DEF scan, free

\* No boats but those of this side, wherever they are.
Ours(t, placed) == \A b \in placed : b.hull \in DOMAIN Hulls /\ b.pos \in Points

\* Room is asked for as long as there is any to be had (SEPARATION_STEPS).
LEMMA RoomIsKept ==
  ASSUME NEW t \in BothTeams, NEW h \in DOMAIN Hulls, NEW placed, Ours(t, placed)
  PROVE  /\ \A b \in placed, relaxation \in Nat \ {0} : ~Separated(b.pos, h, placed, relaxation)
         /\ \A p \in Points : Separated(p, h, placed, 0)
<1>1. ASSUME NEW c \in placed
      PROVE  /\ c.pos \in Points
             /\ (Hulls[h].clearanceRadius + Hulls[c.hull].clearanceRadius) * SEPARATION_FACTOR \in Nat
             /\ (Hulls[h].clearanceRadius + Hulls[c.hull].clearanceRadius) * SEPARATION_FACTOR > 0
  <2>1. c.hull \in DOMAIN Hulls /\ c.pos \in Points
    BY DEF Ours
  <2>2. Hulls[h].clearanceRadius \in Nat \ {0} /\ Hulls[c.hull].clearanceRadius \in Nat \ {0}
    BY <2>1, Depths
  <2> QED BY <2>1, <2>2 DEF SEPARATION_FACTOR
<1>2. ASSUME NEW b \in placed, NEW relaxation \in Nat \ {0}
      PROVE  ~Separated(b.pos, h, placed, relaxation)
  <2> DEFINE k == (Hulls[h].clearanceRadius + Hulls[b.hull].clearanceRadius) * SEPARATION_FACTOR
  <2>1. k \in Nat /\ k > 0
    BY <1>1
  <2>2. Apart(b.pos, b.pos) = 0
    BY <1>1, HowFarApart
  <2>3. Square(k * relaxation) > 0
    <3> HIDE DEF k
    <3>1. k * relaxation >= 1 /\ k * relaxation \in Nat
      BY <1>2, <2>1
    <3> QED BY <3>1 DEF Square
  <2> SUFFICES ASSUME Separated(b.pos, h, placed, relaxation) PROVE FALSE
    OBVIOUS
  <2>4. 100 * Apart(b.pos, b.pos) >= Square(k * relaxation)
    BY DEF Separated
  <2> HIDE DEF k
  <2>5. Square(k * relaxation) \in Int
    BY <2>1 DEF Square
  <2> QED BY <2>2, <2>3, <2>4, <2>5
<1>3. ASSUME NEW p \in Points
      PROVE  Separated(p, h, placed, 0)
  <2> SUFFICES ASSUME NEW c \in placed
               PROVE  100 * Apart(p, c.pos)
                        >= Square((Hulls[h].clearanceRadius + Hulls[c.hull].clearanceRadius)
                                    * SEPARATION_FACTOR * 0)
    BY DEF Separated
  <2> DEFINE k == (Hulls[h].clearanceRadius + Hulls[c.hull].clearanceRadius) * SEPARATION_FACTOR
  <2>1. k \in Nat /\ Apart(p, c.pos) \in Nat
    BY <1>1, HowFarApart
  <2> HIDE DEF k
  <2>2. 100 * Apart(p, c.pos) >= Square(k * 0)
    BY <2>1 DEF Square
  <2> QED BY <2>2 DEF k
<1> QED BY <1>2, <1>3

\* What a boat that is put down at pos has a right to.
InItsBand(t, pos) == deploymentBands(t).x0 <= pos.x /\ pos.x < deploymentBands(t).x1
InWaterIfAny(t, h, pos) ==
  (\E p \in Lattice(t) : p.y >= minY(h) /\ p \notin stone) => pos \notin stone
RoomIfAny(t, h, pos) ==
  (\E p \in Lattice(t) : p.y >= minY(h) /\ Clear(p, neededFor(h))) =>
     pos \in Lattice(t) /\ Clear(pos, neededFor(h))
AloneIfPossible(t, h, pos, placed) ==
  (\E b \in placed : b.pos = pos) =>
     \A p \in Lattice(t) : (p.y >= minY(h) /\ Clear(p, neededFor(h))) =>
                              \E d \in placed : ~Separated(p, h, {d}, 3)
WellPut(t, h, pos, placed) ==
  /\ pos \in Points /\ pos.y >= minY(h)
  /\ InItsBand(t, pos) /\ InWaterIfAny(t, h, pos) /\ RoomIfAny(t, h, pos)
  /\ AloneIfPossible(t, h, pos, placed)

\* A place with room around it is water, and any water within the world will do for the last scan.
LEMMA ClearIsWater ==
  ASSUME NEW h \in DOMAIN Hulls, NEW p \in Points, stone \subseteq Points
  PROVE  /\ Clear(p, neededFor(h)) => p \notin stone
         /\ Clear(p, ANY_WATER) => p \notin stone
         /\ (0 <= p.y /\ p.y < MapHeight /\ p \notin stone) => Clear(p, ANY_WATER)
<1>1. Apart(p, p) = 0 /\ \A r \in stone \cup Frame : Apart(p, r) \in Nat /\ (p # r => Apart(p, r) >= 1)
  <2>1. Frame \subseteq Points
    BY BerthsAssumption DEF Frame, Points
  <2> QED BY <2>1, HowFarApart
<1>2. Square(neededFor(h) + RULER_CELL) \in Nat /\ Square(neededFor(h) + RULER_CELL) > 0
  <2>1. Hulls[h].clearanceRadius \in Nat \ {0}
    BY Depths
  <2> DEFINE k == neededFor(h) + RULER_CELL
  <2>2. k \in Nat /\ k > 0
    BY <2>1 DEF neededFor, RULER_CELL
  <2> HIDE DEF k
  <2>3. k * k \in Nat /\ k * k > 0
    BY <2>2
  <2> QED BY <2>3 DEF Square, k
<1>3. Square(ANY_WATER + RULER_CELL) = 36 /\ Square(2 * RULER_CELL) = 100
  BY DEF Square, ANY_WATER, RULER_CELL
<1>4. ASSUME 0 <= p.y, p.y < MapHeight, p \notin stone
      PROVE  Clear(p, ANY_WATER)
  <2>1. p \notin Frame
    <3>1. \A r \in Frame : r.y = -1 \/ r.y = MapHeight
      BY DEF Frame
    <3>2. p.y \in Int /\ MapHeight \in Int
      BY BerthsAssumption DEF Points
    <3> QED BY <1>4, <3>1, <3>2
  <2> QED BY <1>1, <1>3, <1>4, <2>1 DEF Clear
<1>5. p \in stone => ~Clear(p, neededFor(h)) /\ ~Clear(p, ANY_WATER)
  BY <1>1, <1>2, <1>3 DEF Clear
<1> QED BY <1>4, <1>5

\* Where it is as wide as a hull wants, the hull touches nothing.
LEMMA ClearIsRoom ==
  ASSUME NEW t \in BothTeams, NEW h \in DOMAIN Hulls, NEW p \in Points, stone \subseteq Points,
         InItsBand(t, p), Clear(p, neededFor(h)), 0 <= p.y, p.y < MapHeight
  PROVE  LET r == Hulls[h].clearanceRadius
         IN /\ r <= p.y /\ p.y < MapHeight - r
            /\ \A c \in stone : Apart(p, c) > Square(r)
<1> DEFINE r == Hulls[h].clearanceRadius
<1>1. r \in Nat /\ r > 0 /\ MapHeight \in Nat /\ p.x \in Int /\ p.y \in Int
  BY Depths DEF Points
<1>2. Square(2 * RULER_CELL) = 100 /\ Square(neededFor(h) + RULER_CELL) = (16 * r + 5) * (16 * r + 5)
  BY DEF Square, neededFor, RULER_CELL
<1> HIDE DEF r
<1>3. (16 * r + 5) * (16 * r + 5) > 100 * (r * r) /\ r * r \in Nat
  BY <1>1
<1>4. ASSUME NEW c \in stone \cup Frame, Apart(p, c) \in Nat
      PROVE  Apart(p, c) > r * r
  <2>1. 100 * Apart(p, c) >= (16 * r + 5) * (16 * r + 5)
    BY <1>2 DEF Clear
  <2> QED BY <1>1, <1>3, <1>4, <2>1
<1>5. \A c \in stone : Apart(p, c) > Square(r)
  BY <1>4, HowFarApart DEF Square
\* The cells of the frame below and above.
<1>6. ASSUME NEW y \in {-1, MapHeight}
      PROVE  (p.y - y) * (p.y - y) > r * r
  <2> DEFINE c == [x |-> p.x, y |-> y]
  <2>1. p.x \in 0 .. MapWidth - 1
    BY <1>1, BerthsAssumption DEF InItsBand, deploymentBands, BothTeams
  <2>2. c \in Frame /\ c.x = p.x /\ c.y = y
    BY <2>1 DEF Frame
  <2> HIDE DEF c
  <2>3. Apart(p, c) = (p.y - y) * (p.y - y)
    BY <1>1, <2>2 DEF Apart, Square
  <2>4. (p.y - y) * (p.y - y) \in Nat
    BY <1>1
  <2> QED BY <1>4, <2>2, <2>3, <2>4
<1>7. ASSUME NEW d \in Nat, d * d > r * r
      PROVE  d > r
  BY <1>1, <1>7
<1>8. p.y + 1 > r
  <2>1. (p.y + 1) * (p.y + 1) > r * r
    BY <1>1, <1>6
  <2> QED BY <1>1, <1>7, <2>1
<1>9. MapHeight - p.y > r
  <2>1. (p.y - MapHeight) * (p.y - MapHeight) > r * r
    BY <1>6
  <2>2. (p.y - MapHeight) * (p.y - MapHeight) = (MapHeight - p.y) * (MapHeight - p.y)
    BY <1>1
  <2> QED BY <1>1, <1>7, <2>1, <2>2
<1> QED BY <1>1, <1>5, <1>8, <1>9 DEF r

\* Every boat is well put (findBerth).
LEMMA BerthsAreFound ==
  ASSUME NEW t \in BothTeams, NEW h \in DOMAIN Hulls, NEW n \in Nat, NEW ordinal \in 1 .. n,
         NEW placed, Ours(t, placed), stone \subseteq Points
  PROVE  WellPut(t, h, findBerth(t, h, ordinal, n, placed), placed)
<1> DEFINE scan(needed, relaxation) == scanBand(t, h, ordinal, n, placed, needed, relaxation)
           room(needed, relaxation) == Free(t, h, placed, needed, relaxation)
           at(i) == scan(neededFor(h), SEPARATION_STEPS[i])
           found == {i \in DOMAIN SEPARATION_STEPS : at(i) # NoPlace}
           first == CHOOSE i \in found : \A j \in found : i <= j
           wet == scan(ANY_WATER, 0)
           target == berthTarget(t, h, ordinal, n)
           aim == [x |-> target.x \div (2 * n), y |-> target.y \div (2 * n)]
           pos == findBerth(t, h, ordinal, n, placed)
<1>1. pos = IF found # {} THEN at(first) ELSE IF wet # NoPlace THEN wet ELSE aim
  BY Zenon DEF findBerth
<1>2. DOMAIN SEPARATION_STEPS = 1 .. 4
      /\ SEPARATION_STEPS[1] = 10 /\ SEPARATION_STEPS[2] = 6 /\ SEPARATION_STEPS[3] = 3
      /\ SEPARATION_STEPS[4] = 0
  BY DEF SEPARATION_STEPS
<1>3. ASSUME NEW needed, NEW relaxation
      PROVE  /\ room(needed, relaxation) = {} <=> scan(needed, relaxation) = NoPlace
             /\ scan(needed, relaxation) # NoPlace => scan(needed, relaxation) \in room(needed, relaxation)
  BY TheScanFinds
<1>4. aim \in Points /\ aim.y >= minY(h) /\ InItsBand(t, aim)
  BY TargetIsFine DEF InItsBand
<1> HIDE DEF scan, pos, target
<1>5. ASSUME NEW needed, NEW relaxation, NEW p \in room(needed, relaxation)
      PROVE  /\ p \in Lattice(t) /\ p \in Points /\ p.y >= minY(h) /\ InItsBand(t, p)
             /\ Clear(p, needed) /\ Separated(p, h, placed, relaxation)
  BY LatticesAreFinite DEF Free, legal, Lattice, InItsBand
\* If no place was found with room for the boats, and now one is shared, there was none.
<1>6. ASSUME room(neededFor(h), 3) = {}
      PROVE  AloneIfPossible(t, h, pos, placed)
  <2> SUFFICES ASSUME NEW p \in Lattice(t), p.y >= minY(h), Clear(p, neededFor(h))
               PROVE  \E d \in placed : ~Separated(p, h, {d}, 3)
    BY DEF AloneIfPossible
  <2>1. ~Separated(p, h, placed, 3)
    BY <1>6 DEF Free, legal
  <2> QED BY <2>1 DEF Separated
<1>7. ASSUME NEW relaxation \in Nat \ {0}, Separated(pos, h, placed, relaxation)
      PROVE  AloneIfPossible(t, h, pos, placed)
  <2>1. \A b \in placed : b.pos # pos
    BY <1>7, RoomIsKept
  <2> QED BY <2>1 DEF AloneIfPossible
<1> SUFFICES WellPut(t, h, pos, placed)
  BY DEF pos
<1>8. CASE found # {}
  <2>1. first \in found /\ \A j \in found : first <= j
    <3>1. found \in SUBSET Int /\ IsFiniteSet(found)
      <4>1. IsFiniteSet(1 .. 4)
        BY SoManyAreCounted
      <4> HIDE DEF at
      <4> QED BY <1>2, <4>1, FS_Subset
    <3> HIDE DEF found
    <3>2. \E i \in found : \A j \in found : i <= j
      BY <1>8, <3>1, LeastAndGreatest
    <3> QED BY <3>2
  <2> HIDE DEF first
  <2>2. first \in 1 .. 4 /\ at(first) # NoPlace /\ pos = at(first)
    BY <1>1, <1>2, <1>8, <2>1
  <2>3. pos \in room(neededFor(h), SEPARATION_STEPS[first])
    BY <1>3, <2>2
  <2>4. /\ pos \in Points /\ pos.y >= minY(h) /\ InItsBand(t, pos)
        /\ Clear(pos, neededFor(h)) /\ Separated(pos, h, placed, SEPARATION_STEPS[first])
    BY <1>5, <2>3
  <2>5. InWaterIfAny(t, h, pos)
    BY <2>4, ClearIsWater DEF InWaterIfAny
  <2>7. RoomIfAny(t, h, pos)
    BY <1>5, <2>3 DEF RoomIfAny
  <2>6. AloneIfPossible(t, h, pos, placed)
    <3>1. CASE first = 4
      <4>1. 3 \in 1 .. 4 /\ 3 \notin found
        BY <2>1, <3>1
      <4>2. at(3) = NoPlace
        BY <1>2, <4>1
      <4>3. room(neededFor(h), 3) = {}
        BY <1>2, <1>3, <4>2
      <4> QED BY <1>6, <4>3
    <3>2. CASE first # 4
      <4>1. SEPARATION_STEPS[first] \in Nat \ {0}
        BY <1>2, <2>2, <3>2
      <4> QED BY <1>7, <2>4, <4>1
    <3> QED BY <3>1, <3>2
  <2> QED BY <2>4, <2>5, <2>6, <2>7 DEF WellPut
<1>9. CASE found = {}
  <2>1. at(3) = NoPlace
    BY <1>2, <1>9
  <2>2. room(neededFor(h), 3) = {}
    BY <1>2, <1>3, <2>1
  <2>3. AloneIfPossible(t, h, pos, placed)
    BY <1>6, <2>2
  <2>6. RoomIfAny(t, h, pos)
    <3>1. at(4) = NoPlace
      BY <1>2, <1>9
    <3>2. room(neededFor(h), 0) = {}
      BY <1>2, <1>3, <3>1
    <3>3. ASSUME NEW p \in Lattice(t), p.y >= minY(h)
          PROVE  ~Clear(p, neededFor(h))
      <4>1. p \in Points
        BY LatticesAreFinite
      <4>2. Separated(p, h, placed, 0)
        BY <4>1, RoomIsKept DEF Separated
      <4> QED BY <3>2, <3>3, <4>2 DEF Free, legal
    <3> QED BY <3>3 DEF RoomIfAny
  <2>4. CASE wet # NoPlace
    <3>1. pos = wet /\ wet \in room(ANY_WATER, 0)
      BY <1>1, <1>3, <1>9, <2>4
    <3>2. /\ pos \in Points /\ pos.y >= minY(h) /\ InItsBand(t, pos) /\ Clear(pos, ANY_WATER)
      BY <1>5, <3>1
    <3>3. InWaterIfAny(t, h, pos)
      BY <3>2, ClearIsWater DEF InWaterIfAny
    <3> QED BY <2>3, <2>6, <3>2, <3>3 DEF WellPut
  <2>5. CASE wet = NoPlace
    <3>1. pos = aim
      BY <1>1, <1>9, <2>5
    <3>2. room(ANY_WATER, 0) = {}
      BY <1>3, <2>5
    <3>3. ASSUME NEW p \in Lattice(t), p.y >= minY(h)
          PROVE  p \in stone
      <4>1. p \in Points /\ 0 <= p.y /\ p.y < MapHeight
        <5>1. p \in Points
          BY LatticesAreFinite
        <5>2. p \in [x : 0 .. MapWidth, y : 0 .. MapHeight - 1] /\ MapHeight \in Nat
          BY BerthsAssumption DEF Lattice
        <5> QED BY <5>1, <5>2
      <4>2. Separated(p, h, placed, 0)
        BY <4>1, RoomIsKept DEF Separated
      <4>3. ~Clear(p, ANY_WATER)
        BY <3>2, <3>3, <4>2 DEF Free, legal
      <4> QED BY <4>1, <4>3, ClearIsWater
    <3>4. InWaterIfAny(t, h, pos)
      BY <3>3 DEF InWaterIfAny
    <3> QED BY <1>4, <2>3, <2>6, <3>1, <3>4 DEF WellPut
  <2> QED BY <2>4, <2>5
<1> QED BY <1>8, <1>9

\* The boats that a side had when the i-th boat of the match was put down, and the invariant: every
\* boat was well put among those.
Comrades(i) == {k \in 1 .. i - 1 : berths[k].team = berths[i].team}
Earlier(i) == {berths[j] : j \in Comrades(i)}
Rightly(i) ==
  berths[i].id = i /\ WellPut(berths[i].team, berths[i].hull, berths[i].pos, Earlier(i))
BerthsInv ==
  /\ stone \in RockMaps /\ fleets \in Rosters /\ side \in Nat \ {0}
  /\ berths \in Seq(PutDown)
  /\ \A i \in 1 .. Len(berths) : Rightly(i)

LEMMA BerthsBegin == InitBerths => BerthsInv
BY EmptySeq DEF InitBerths, BerthsInv

LEMMA StoneIsSomewhere ==
  ASSUME BerthsInv
  PROVE  stone \subseteq Points
<1>1. stone \subseteq [x : 0 .. MapWidth - 1, y : 0 .. MapHeight - 1]
  BY SitesAssumption DEF BerthsInv
<1> QED BY <1>1, BerthsAssumption DEF Points

\* The stone stays where it is, and so a boat that was well put is.
LEMMA StaysRightly ==
  ASSUME stone' = stone, NEW i, NEW b, NEW before, berths'[i] = b, Earlier(i)' = before,
         b.id = i, WellPut(b.team, b.hull, b.pos, before)
  PROVE  Rightly(i)'
<1>1. InWaterIfAny(b.team, b.hull, b.pos)' <=> InWaterIfAny(b.team, b.hull, b.pos)
  BY DEF InWaterIfAny
<1>2. AloneIfPossible(b.team, b.hull, b.pos, before)' <=> AloneIfPossible(b.team, b.hull, b.pos, before)
  BY DEF AloneIfPossible, Clear
<1>4. RoomIfAny(b.team, b.hull, b.pos)' <=> RoomIfAny(b.team, b.hull, b.pos)
  BY DEF RoomIfAny, Clear
<1>3. WellPut(b.team, b.hull, b.pos, before)'
  BY <1>1, <1>2, <1>4 DEF WellPut
<1> QED BY <1>3 DEF Rightly

LEMMA BerthsStay ==
  ASSUME BerthsInv, stone' = stone, fleets' = fleets, side' \in Nat \ {0}, berths' = berths
  PROVE  BerthsInv'
<1>1. ASSUME NEW i \in 1 .. Len(berths)
      PROVE  Rightly(i)'
  <2> DEFINE b == berths[i]
             before == Earlier(i)
  <2>1. b.id = i /\ WellPut(b.team, b.hull, b.pos, before)
    BY DEF BerthsInv, Rightly
  <2>2. berths'[i] = b /\ Earlier(i)' = before
    BY DEF Earlier, Comrades
  <2> HIDE DEF b, before
  <2> QED BY <2>1, <2>2, StaysRightly
<1> QED BY <1>1 DEF BerthsInv

LEMMA BerthsStep == BerthsInv /\ [NextBerths]_berthVars => BerthsInv'
<1> SUFFICES ASSUME BerthsInv, [NextBerths]_berthVars PROVE BerthsInv'
  OBVIOUS
<1>1. CASE UNCHANGED berthVars
  BY <1>1, BerthsStay DEF BerthsInv, berthVars
<1>2. CASE deployMatch
  <2> DEFINE t == Team
             hulls == fleets[t]
             ordinal == Cardinality(Placed(t)) + 1
             h == hulls[ordinal]
             n == Len(hulls)
             pos == findBerth(t, h, ordinal, n, Placed(t))
             b == [id |-> Len(berths) + 1, team |-> t, hull |-> h, pos |-> pos]
  <2>1. stone' = stone /\ fleets' = fleets /\ side <= 2
    BY <1>2 DEF deployMatch, TEAM_IDS
  <2>2. t \in BothTeams
    <3>1. side = 1 \/ side = 2
      BY <2>1 DEF BerthsInv
    <3> QED BY <3>1 DEF Team, TEAM_IDS, BothTeams
  <2>3. stone \subseteq Points
    BY StoneIsSomewhere
  <2>4. hulls \in Seq(DOMAIN Hulls) /\ n \in Nat
    <3>1. ToSet(TEAM_IDS) = BothTeams
      BY DEF ToSet, TEAM_IDS, BothTeams
    <3>2. fleets \in [BothTeams -> Seq(DOMAIN Hulls)]
      BY <3>1, SitesAssumption DEF BerthsInv
    <3> QED BY <2>2, <3>2
  <2>5. CASE ordinal > n
    <3>1. side' = side + 1 /\ berths' = berths
      BY <1>2, <2>5 DEF deployMatch
    <3>2. side' \in Nat \ {0}
      BY <3>1 DEF BerthsInv
    <3> QED BY <2>1, <3>1, <3>2, BerthsStay
  <2>6. CASE ~(ordinal > n)
    <3> DEFINE last == Len(berths)
    <3>1. side' = side /\ berths' = Append(berths, b)
      BY <1>2, <2>6 DEF deployMatch
    <3>2. berths \in Seq(PutDown) /\ last \in Nat
      BY DEF BerthsInv
    <3>3. ToSet(berths) = {berths[i] : i \in 1 .. last} /\ ToSet(berths) \subseteq PutDown
      BY <3>2, InASequence
    <3>4. Placed(t) = {berths[j] : j \in {k \in 1 .. last : berths[k].team = t}}
      BY <3>3 DEF Placed
    <3>5. ordinal \in 1 .. n
      <4>1. IsFiniteSet(Placed(t))
        <5>1. IsFiniteSet(ToSet(berths))
          BY <3>2, FinitelyMany
        <5>2. Placed(t) \subseteq ToSet(berths)
          BY DEF Placed
        <5> QED BY <5>1, <5>2, FS_Subset
      <4>2. Cardinality(Placed(t)) \in Nat
        BY <4>1, FS_CardinalityType
      <4> QED BY <2>4, <2>6, <4>2
    <3>6. h \in DOMAIN Hulls
      BY <2>4, <3>5
    <3>7. Ours(t, Placed(t))
      BY <3>3 DEF Ours, Placed, PutDown
    <3>8. WellPut(t, h, pos, Placed(t))
      <4> HIDE DEF t, hulls, ordinal, h, n
      <4> QED BY <2>2, <2>3, <2>4, <3>5, <3>6, <3>7, BerthsAreFound
    <3> HIDE DEF t, hulls, ordinal, h, n, pos
    <3>9. b \in PutDown
      BY <2>2, <3>2, <3>6, <3>8 DEF PutDown, WellPut
    <3>10. b.id = last + 1 /\ b.team = t /\ b.hull = h /\ b.pos = pos
      OBVIOUS
    <3> HIDE DEF b
    <3>11. /\ berths' \in Seq(PutDown) /\ Len(berths') = last + 1 /\ berths'[last + 1] = b
           /\ \A i \in 1 .. last : berths'[i] = berths[i]
      BY <3>1, <3>2, <3>9, AppendProperties
    <3> HIDE DEF last
    <3>12. ASSUME NEW i \in 1 .. last
           PROVE  Rightly(i)'
      <4> DEFINE c == berths[i]
                 before == Earlier(i)
      <4>1. Earlier(i)' = before /\ berths'[i] = c
        <5>1. Comrades(i)' = Comrades(i) /\ Comrades(i) \subseteq 1 .. last
          BY <3>2, <3>11 DEF Comrades
        <5>2. {berths'[j] : j \in Comrades(i)} = {berths[j] : j \in Comrades(i)}
          BY <3>11, <5>1
        <5> QED BY <3>11, <5>1, <5>2 DEF Earlier
      <4>2. c.id = i /\ WellPut(c.team, c.hull, c.pos, before)
        BY <3>12 DEF BerthsInv, last, Rightly
      <4> HIDE DEF c, before
      <4> QED BY <2>1, <4>1, <4>2, StaysRightly
    <3>13. ASSUME NEW k, k = last + 1
           PROVE  Rightly(k)'
      <4> DEFINE before == Placed(t)
      <4>1. Earlier(k)' = before
        <5>1. k - 1 = last /\ berths'[k] = b
          BY <3>2, <3>11, <3>13
        <5>2. Comrades(k)' = {m \in 1 .. last : berths[m].team = t}
          BY <3>10, <3>11, <5>1 DEF Comrades
        <5> DEFINE mine == {m \in 1 .. last : berths[m].team = t}
        <5>3. {berths'[j] : j \in mine} = {berths[j] : j \in mine}
          BY <3>11
        <5> HIDE DEF mine
        <5>4. Earlier(k)' = {berths'[j] : j \in mine}
          BY <5>2 DEF Earlier, mine
        <5> QED BY <3>4, <5>3, <5>4 DEF mine
      <4>2. b.id = k /\ WellPut(b.team, b.hull, b.pos, before) /\ berths'[k] = b
        BY <3>8, <3>10, <3>11, <3>13
      <4> HIDE DEF before
      <4> QED BY <2>1, <4>1, <4>2, StaysRightly
    <3>14. ASSUME NEW i \in 1 .. Len(berths')
           PROVE  Rightly(i)'
      <4>1. CASE i = last + 1
        BY <3>13, <4>1
      <4>2. CASE i # last + 1
        <5>1. i \in 1 .. last
          BY <3>2, <3>11, <4>2
        <5> QED BY <3>12, <5>1
      <4> QED BY <4>1, <4>2
    <3> QED BY <2>1, <3>1, <3>11, <3>14 DEF BerthsInv
  <2> QED BY <2>5, <2>6
<1> QED BY <1>1, <1>2 DEF NextBerths

LEMMA BerthsSound == BerthsInv => BerthsAreSound
<1> SUFFICES ASSUME BerthsInv PROVE BerthsAreSound
  OBVIOUS
<1>1. berths \in Seq(PutDown) /\ Len(berths) \in Nat
  BY DEF BerthsInv
<1>2. Deployed = {berths[i] : i \in 1 .. Len(berths)} /\ Deployed \subseteq PutDown
  BY <1>1, InASequence DEF Deployed
<1>3. ASSUME NEW b \in Deployed
      PROVE  \E i \in 1 .. Len(berths) : /\ b = berths[i] /\ b.id = i
                                         /\ WellPut(b.team, b.hull, b.pos, Earlier(i))
  BY <1>2 DEF BerthsInv, Rightly
<1>4. NoneStartsTooDeep
  BY <1>3 DEF NoneStartsTooDeep, WellPut
<1>5. StartsInWater
  BY <1>3 DEF StartsInWater, WellPut, InItsBand, InWaterIfAny
<1>6. SharedOnlyWhenFull
  <2> SUFFICES ASSUME NEW b \in Deployed, NEW c \in Deployed,
                      b.id < c.id /\ b.team = c.team /\ b.pos = c.pos,
                      NEW p \in Lattice(c.team), p.y >= minY(c.hull) /\ Clear(p, neededFor(c.hull))
               PROVE  \E d \in Deployed : d.id < c.id /\ d.team = c.team /\ ~Separated(p, c.hull, {d}, 3)
    BY DEF SharedOnlyWhenFull
  <2>1. PICK i \in 1 .. Len(berths) : b = berths[i] /\ b.id = i
    BY <1>3
  <2>2. PICK k \in 1 .. Len(berths) : /\ c = berths[k] /\ c.id = k
                                      /\ WellPut(c.team, c.hull, c.pos, Earlier(k))
    BY <1>3
  <2>3. b \in Earlier(k)
    BY <1>1, <2>1, <2>2 DEF Earlier, Comrades
  <2>4. PICK d \in Earlier(k) : ~Separated(p, c.hull, {d}, 3)
    BY <2>2, <2>3 DEF WellPut, AloneIfPossible
  <2>5. PICK j \in 1 .. k - 1 : d = berths[j] /\ berths[j].team = berths[k].team
    BY <2>4 DEF Earlier, Comrades
  <2>6. j \in 1 .. Len(berths) /\ j < k
    BY <1>1, <2>2, <2>5
  <2>7. d \in Deployed /\ d.id = j
    BY <1>2, <2>5, <2>6 DEF BerthsInv, Rightly
  <2> QED BY <2>2, <2>4, <2>5, <2>6, <2>7
<1>7. RoomForTheHull
  <2> SUFFICES ASSUME NEW b \in Deployed,
                      \E p \in Lattice(b.team) : p.y >= minY(b.hull) /\ Clear(p, neededFor(b.hull))
               PROVE  LET r == Hulls[b.hull].clearanceRadius
                      IN /\ r <= b.pos.y /\ b.pos.y < MapHeight - r
                         /\ \A c \in stone : Apart(b.pos, c) > Square(r)
    BY DEF RoomForTheHull
  <2>1. /\ b.team \in BothTeams /\ b.hull \in DOMAIN Hulls /\ b.pos \in Points
        /\ InItsBand(b.team, b.pos) /\ Clear(b.pos, neededFor(b.hull)) /\ b.pos \in Lattice(b.team)
    BY <1>2, <1>3 DEF PutDown, WellPut, RoomIfAny
  <2>2. 0 <= b.pos.y /\ b.pos.y < MapHeight
    BY <2>1, BerthsAssumption DEF Lattice
  <2> QED BY <2>1, <2>2, StoneIsSomewhere, ClearIsRoom
<1> QED BY <1>4, <1>5, <1>6, <1>7 DEF BerthsAreSound

---------------------------------------------------------------------------
(* The levels of a cave.                                                   *)

Heaps == Seq(Nat)
Distinct(s) == \A i, j \in DOMAIN s : i # j => s[i] # s[j]

\* The extremes of a stack are in it.
LEMMA Extremes ==
  ASSUME NEW s \in Heaps, s # <<>>
  PROVE  /\ ToSet(s) \subseteq Nat
         /\ Smallest(s) \in ToSet(s) /\ \A h \in ToSet(s) : Smallest(s) <= h
         /\ Biggest(s) \in ToSet(s) /\ \A h \in ToSet(s) : h <= Biggest(s)
<1>1. IsFiniteSet(ToSet(s)) /\ ToSet(s) \subseteq Nat /\ ToSet(s) = {s[i] : i \in 1 .. Len(s)}
  BY FinitelyMany, InASequence DEF Heaps
<1>2. ToSet(s) # {}
  <2>1. 1 \in 1 .. Len(s)
    BY LenProperties, EmptySeq DEF Heaps
  <2> QED BY <1>1, <2>1
<1>3. ToSet(s) \in SUBSET Int
  BY <1>1
<1>4. \E h \in ToSet(s) : \A k \in ToSet(s) : h <= k
  BY <1>1, <1>2, <1>3, LeastAndGreatest
<1>5. \E h \in ToSet(s) : \A k \in ToSet(s) : k <= h
  BY <1>1, <1>2, <1>3, LeastAndGreatest
<1> QED BY <1>1, <1>4, <1>5 DEF Smallest, Biggest

\* Where no two levels are alike the ordinary ones are those between the extremes.
LEMMA OrdinaryIs ==
  ASSUME NEW s \in Heaps, s # <<>>, Distinct(s)
  PROVE  ordinary(s) = {i \in DOMAIN s : s[i] # Smallest(s) /\ s[i] # Biggest(s)}
<1> DEFINE shortest == CHOOSE i \in DOMAIN s : s[i] = Smallest(s) /\ \A j \in 1 .. i - 1 : s[j] # s[i]
           tallest == CHOOSE i \in DOMAIN s : s[i] = Biggest(s) /\ \A j \in i + 1 .. Len(s) : s[j] # s[i]
<1>1. DOMAIN s = 1 .. Len(s) /\ Len(s) \in Nat /\ ToSet(s) = {s[i] : i \in 1 .. Len(s)}
  BY InASequence, LenProperties DEF Heaps
<1>2. shortest \in DOMAIN s /\ s[shortest] = Smallest(s)
  <2>1. PICK i \in DOMAIN s : s[i] = Smallest(s)
    BY <1>1, Extremes
  <2>2. \A j \in 1 .. i - 1 : s[j] # s[i]
    BY <1>1, <2>1 DEF Distinct
  <2> QED BY <2>1, <2>2
<1>3. tallest \in DOMAIN s /\ s[tallest] = Biggest(s)
  <2>1. PICK i \in DOMAIN s : s[i] = Biggest(s)
    BY <1>1, Extremes
  <2>2. \A j \in i + 1 .. Len(s) : s[j] # s[i]
    BY <1>1, <2>1 DEF Distinct
  <2> QED BY <2>1, <2>2
<1>4. ordinary(s) = DOMAIN s \ {shortest, tallest}
  BY Zenon DEF ordinary
<1> HIDE DEF shortest, tallest
<1>5. \A i \in DOMAIN s : (s[i] = Smallest(s) <=> i = shortest) /\ (s[i] = Biggest(s) <=> i = tallest)
  BY <1>2, <1>3 DEF Distinct
<1> QED BY <1>4, <1>5

\* Of two levels neither is ordinary, even if they are alike.
LEMMA OrdinaryOfAPair ==
  ASSUME NEW a \in Nat, NEW b \in Nat, a <= b
  PROVE  ordinary(<<a, b>>) = {}
<1> DEFINE s == <<a, b>>
           shortest == CHOOSE i \in DOMAIN s : s[i] = Smallest(s) /\ \A j \in 1 .. i - 1 : s[j] # s[i]
           tallest == CHOOSE i \in DOMAIN s : s[i] = Biggest(s) /\ \A j \in i + 1 .. Len(s) : s[j] # s[i]
<1>1. /\ s \in Heaps /\ s # <<>> /\ DOMAIN s = 1 .. 2 /\ Len(s) = 2 /\ s[1] = a /\ s[2] = b
      /\ ToSet(s) = {a, b}
  <2>1. /\ s \in Heaps /\ s # <<>> /\ DOMAIN s = 1 .. 2 /\ Len(s) = 2 /\ s[1] = a /\ s[2] = b
    BY DEF Heaps
  <2> HIDE DEF s
  <2>2. ToSet(s) = {s[i] : i \in 1 .. 2}
    BY <2>1 DEF ToSet
  <2>3. 1 .. 2 = {1, 2}
    OBVIOUS
  <2> QED BY <2>1, <2>2, <2>3
<1>2. ordinary(s) = DOMAIN s \ {shortest, tallest}
  BY Zenon DEF ordinary
<1> HIDE DEF s
<1>3. Smallest(s) = a /\ Biggest(s) = b
  <2>1. /\ Smallest(s) \in {a, b} /\ \A h \in {a, b} : Smallest(s) <= h
        /\ Biggest(s) \in {a, b} /\ \A h \in {a, b} : h <= Biggest(s)
    BY <1>1, Extremes
  <2>2. Smallest(s) <= a /\ Biggest(s) >= b
    BY <2>1
  <2> QED BY <2>1, <2>2
<1>4. shortest = 1
  <2>1. 1 \in DOMAIN s /\ s[1] = Smallest(s) /\ \A j \in 1 .. 1 - 1 : s[j] # s[1]
    BY <1>1, <1>3
  <2>2. shortest \in DOMAIN s /\ s[shortest] = Smallest(s) /\ \A j \in 1 .. shortest - 1 : s[j] # s[shortest]
    BY <2>1
  <2> HIDE DEF shortest
  <2>3. shortest = 1 \/ shortest = 2
    BY <1>1, <2>2
  <2>4. shortest # 2
    <3> SUFFICES ASSUME shortest = 2 PROVE FALSE
      OBVIOUS
    <3>1. 1 \in 1 .. shortest - 1 /\ s[1] = s[shortest]
      BY <1>1, <1>3, <2>2
    <3> QED BY <2>2, <3>1
  <2> QED BY <2>3, <2>4
<1>5. tallest = 2
  <2>1. 2 \in DOMAIN s /\ s[2] = Biggest(s) /\ \A j \in 2 + 1 .. Len(s) : s[j] # s[2]
    BY <1>1, <1>3
  <2>2. tallest \in DOMAIN s /\ s[tallest] = Biggest(s) /\ \A j \in tallest + 1 .. Len(s) : s[j] # s[tallest]
    BY <2>1
  <2> HIDE DEF tallest
  <2>3. tallest = 1 \/ tallest = 2
    BY <1>1, <2>2
  <2>4. tallest # 1
    <3> SUFFICES ASSUME tallest = 1 PROVE FALSE
      OBVIOUS
    <3>1. 2 \in tallest + 1 .. Len(s) /\ s[2] = s[tallest]
      BY <1>1, <1>3, <2>2
    <3> QED BY <2>2, <3>1
  <2> QED BY <2>3, <2>4
<1> HIDE DEF shortest, tallest
<1>6. ordinary(s) = {}
  BY <1>1, <1>2, <1>4, <1>5
<1> QED BY <1>6 DEF s

---------------------------------------------------------------------------
(* What a stack takes.                                                     *)

TuningOK == tuning \in Tuning /\ tuning.floor <= tuning.tall

LEMMA TuningIs ==
  ASSUME TuningOK
  PROVE  /\ tuning.mapHeight \in Nat /\ tuning.floor \in Nat /\ tuning.ceiling \in Nat
         /\ tuning.trunk \in Nat /\ tuning.wall \in Nat /\ tuning.margin \in Nat
         /\ tuning.widening \in Nat /\ tuning.routeCount \in Nat \ {0}
         /\ tuning.short \in Nat /\ tuning.tall \in Nat
         /\ \A h \in Nat : reservedHeight(h) \in Nat
BY DEF TuningOK, Tuning, reservedHeight

\* Two levels, and one.
LEMMA FixedOfTwo ==
  ASSUME TuningOK, NEW s \in Heaps, Len(s) = 2, ordinary(s) = {}
  PROVE  Fixed(s) = 30 * tuning.wall + reservedHeight(s[1]) + reservedHeight(s[2])
<1>1. DOMAIN s = 1 .. 2 /\ s[1] \in Nat /\ s[2] \in Nat
  <2>1. DOMAIN s = 1 .. 2 /\ s \in [1 .. 2 -> Nat]
    BY LenProperties DEF Heaps
  <2>2. 1 \in 1 .. 2 /\ 2 \in 1 .. 2
    OBVIOUS
  <2> QED BY <2>1, <2>2
<1> DEFINE f == Floored(s)
<1>2. f[1] = reservedHeight(s[1]) /\ f[2] = reservedHeight(s[2])
  BY <1>1 DEF Floored
<1>3. f[1] \in Int /\ f[2] \in Int
  BY <1>1, <1>2, TuningIs
<1> HIDE DEF f
<1>4. SumOver(f, {1, 2}) = f[1] + f[2]
  <2>1. SumOver(f, {}) = 0 /\ IsFiniteSet({}) /\ IsFiniteSet({1})
    BY FS_EmptySet, FS_Singleton, SumUnfolds
  <2>2. SumOver(f, {} \cup {1}) = f[1] + SumOver(f, {})
    BY <1>3, <2>1, SumGrows
  <2>3. SumOver(f, {1} \cup {2}) = f[2] + SumOver(f, {1})
    <3> DEFINE S == {1}
    <3>1. IsFiniteSet(S) /\ 2 \notin S /\ \A y \in S : f[y] \in Int
      BY <1>3, <2>1
    <3> HIDE DEF S
    <3>2. SumOver(f, S \cup {2}) = f[2] + SumOver(f, S)
      BY <1>3, <3>1, SumGrows
    <3> QED BY <3>2 DEF S
  <2>4. {} \cup {1} = {1} /\ {1} \cup {2} = {1, 2}
    OBVIOUS
  <2>5. SumOver(f, {1}) = f[1] + 0
    BY <2>1, <2>2, <2>4
  <2>6. SumOver(f, {1, 2}) = f[2] + SumOver(f, {1})
    BY <2>3, <2>4
  <2> QED BY <1>3, <2>5, <2>6
<1>5. DOMAIN s = {1, 2}
  BY <1>1
<1>6. Fixed(s) = 10 * (2 + 1) * tuning.wall + (f[1] + f[2])
  BY <1>4, <1>5 DEF Fixed, f
<1> QED BY <1>2, <1>3, <1>6, TuningIs

LEMMA FixedOfOne ==
  ASSUME TuningOK, NEW s \in Heaps, Len(s) = 1
  PROVE  Fixed(s) = 20 * tuning.wall + reservedHeight(s[1])
<1>1. DOMAIN s = {1} /\ s[1] \in Nat /\ s # <<>>
  <2>1. DOMAIN s = 1 .. 1 /\ s \in [1 .. 1 -> Nat]
    BY LenProperties DEF Heaps
  <2>2. 1 .. 1 = {1}
    OBVIOUS
  <2> QED BY <2>1, <2>2, EmptySeq
<1>2. Distinct(s)
  BY <1>1 DEF Distinct
<1>3. ordinary(s) = {}
  <2>1. ToSet(s) = {s[1]}
    BY <1>1 DEF ToSet
  <2>2. Smallest(s) \in {s[1]}
    BY <1>1, <2>1, Extremes
  <2> QED BY <1>1, <1>2, <2>2, OrdinaryIs
<1> DEFINE f == Floored(s)
<1>4. f[1] = reservedHeight(s[1])
  BY <1>1, <1>3 DEF Floored
<1>5. f[1] \in Int
  BY <1>1, <1>4, TuningIs
<1> HIDE DEF f
<1>6. SumOver(f, {1}) = f[1]
  <2>1. IsFiniteSet({1})
    BY FS_Singleton
  <2> QED BY <1>5, <2>1, SumOfOne
<1> QED BY <1>1, <1>4, <1>5, <1>6, TuningIs DEF Fixed, f

---------------------------------------------------------------------------
(* Squeezing.                                                              *)

\* No level is too low.
HighEnough(s) == \A i \in DOMAIN s : s[i] >= tuning.floor

\* What the ordinary levels ask for, as a share of every level.
Extra(s) == [i \in DOMAIN s |-> IF i \in ordinary(s) THEN reservedHeight(s[i]) - reservedHeight(tuning.floor)
                                ELSE 0]
Takes(heights, scale) ==
  [i \in DOMAIN heights |-> heights[i] * (10 + tuning.widening) + 20 * scale * tuning.margin]

LEMMA StacksAreTyped ==
  ASSUME TuningOK, NEW s \in Heaps
  PROVE  /\ DOMAIN s = 1 .. Len(s) /\ Len(s) \in Nat /\ IsFiniteSet(DOMAIN s)
         /\ ordinary(s) \subseteq DOMAIN s
         /\ \A i \in DOMAIN s : s[i] \in Nat /\ Floored(s)[i] \in Int /\ Extra(s)[i] \in Int
         /\ Slope(s) = SumOver(Extra(s), DOMAIN s)
         /\ Fixed(s) \in Int /\ Slope(s) \in Int
<1>1. DOMAIN s = 1 .. Len(s) /\ Len(s) \in Nat
  BY LenProperties DEF Heaps
<1>2. IsFiniteSet(DOMAIN s)
  BY <1>1, SoManyAreCounted
<1>3. ordinary(s) \subseteq DOMAIN s
  BY DEF ordinary
<1>4. ASSUME NEW i \in DOMAIN s
      PROVE  s[i] \in Nat /\ Floored(s)[i] \in Int /\ Extra(s)[i] \in Int
  <2>1. s[i] \in Nat
    BY LenProperties DEF Heaps
  <2>2. reservedHeight(s[i]) \in Int /\ reservedHeight(tuning.floor) \in Int
    BY <2>1, TuningIs
  <2>3. Floored(s)[i] \in Int
    <3>1. CASE i \in ordinary(s)
      BY <2>2, <3>1 DEF Floored
    <3>2. CASE i \notin ordinary(s)
      BY <2>2, <3>2 DEF Floored
    <3> QED BY <3>1, <3>2
  <2>4. Extra(s)[i] \in Int
    BY <2>2 DEF Extra
  <2> QED BY <2>1, <2>3, <2>4
<1>5. Slope(s) = SumOver(Extra(s), DOMAIN s)
  <2> DEFINE f == Extra(s)
             g == [i \in ordinary(s) |-> reservedHeight(s[i]) - reservedHeight(tuning.floor)]
             S == DOMAIN s
             T == ordinary(s)
  <2>1. \A i \in T : g[i] = f[i] /\ f[i] \in Int
    BY <1>3, <1>4 DEF Extra
  <2>2. \A i \in S : f[i] \in Int
    BY <1>4
  <2>3. \A i \in S \ T : f[i] = 0
    BY DEF Extra
  <2>4. IsFiniteSet(T) /\ T \subseteq S /\ IsFiniteSet(S)
    BY <1>2, <1>3, FS_Subset
  <2>5. Slope(s) = SumOver(g, T)
    BY DEF Slope
  <2> HIDE DEF f, g, S, T
  <2>6. SumOver(g, T) = SumOver(f, T)
    BY <2>1, <2>4, SumSame
  <2>7. SumOver(f, S) = SumOver(f, T)
    BY <2>2, <2>3, <2>4, SumOfSome
  <2> QED BY <2>5, <2>6, <2>7 DEF f, S
<1>6. SumOver(Extra(s), DOMAIN s) \in Int /\ SumOver(Floored(s), DOMAIN s) \in Int
  <2> DEFINE f == Extra(s)
             g == Floored(s)
  <2>1. \A i \in DOMAIN s : f[i] \in Int /\ g[i] \in Int
    BY <1>4
  <2> HIDE DEF f, g
  <2>2. SumOver(f, DOMAIN s) \in Int /\ SumOver(g, DOMAIN s) \in Int
    BY <1>2, <2>1, SumInt
  <2> QED BY <2>2 DEF f, g
<1>7. Fixed(s) \in Int
  <2> DEFINE held == SumOver(Floored(s), DOMAIN s)
             walls == 10 * (Len(s) + 1)
             wall == tuning.wall
  <2>1. held \in Int /\ walls \in Int /\ wall \in Int
    <3>1. held \in Int
      BY <1>6
    <3>2. walls \in Int
      BY <1>1
    <3>3. wall \in Int
      BY TuningIs
    <3> QED BY <3>1, <3>2, <3>3
  <2>2. Fixed(s) = walls * wall + held
    BY DEF Fixed
  <2> HIDE DEF held, walls, wall
  <2> QED BY <2>1, <2>2
<1> QED BY <1>1, <1>2, <1>3, <1>4, <1>5, <1>6, <1>7

\* The room there is: a share of one at most, which is spent on what the ordinary levels ask for.
LEMMA RoomIs ==
  ASSUME TuningOK, NEW s \in Heaps, Fits(s)
  PROVE  /\ Room(s).den \in Nat \ {0} /\ Room(s).num \in Nat /\ Room(s).num <= Room(s).den
         /\ Room(s).den * Fixed(s) + Room(s).num * Slope(s) <= Room(s).den * (10 * tuning.mapHeight)
<1> DEFINE left == 10 * tuning.mapHeight - Fixed(s)
<1>1. Fixed(s) \in Int /\ Slope(s) \in Int /\ tuning.mapHeight \in Nat
  BY StacksAreTyped, TuningIs
<1>2. left \in Nat
  BY <1>1 DEF Fits
<1>3. CASE Slope(s) = 0 \/ left >= Slope(s)
  <2>1. Room(s) = [num |-> 1, den |-> 1]
    BY <1>3 DEF Room
  <2>2. Room(s).num = 1 /\ Room(s).den = 1
    BY <2>1
  <2> HIDE DEF Fits
  <2>3. Fixed(s) + Slope(s) <= 10 * tuning.mapHeight
    BY <1>1, <1>2, <1>3
  <2> QED BY <1>1, <2>2, <2>3
<1>4. CASE ~(Slope(s) = 0 \/ left >= Slope(s))
  <2>1. Room(s) = [num |-> left, den |-> Slope(s)]
    BY <1>4 DEF Room
  <2>2. Room(s).num = left /\ Room(s).den = Slope(s)
    BY <2>1
  <2> DEFINE k == Slope(s)
             x == Fixed(s)
             m == 10 * tuning.mapHeight
  <2>3. k \in Nat \ {0} /\ left < k /\ x \in Int /\ m \in Int /\ left = m - x
    BY <1>1, <1>2, <1>4
  <2> HIDE DEF k, x, m, left
  <2>4. k * x + left * k = k * m
    BY <2>3
  <2>5. k * x \in Int /\ left * k \in Int /\ k * m \in Int
    BY <1>2, <2>3
  <2>6. k * x + left * k <= k * m
    BY <2>4, <2>5
  <2> QED BY <1>2, <2>2, <2>3, <2>6 DEF k, x, m
<1> QED BY <1>3, <1>4

\* So the stack that is squeezed into it fits, and its extremes have kept their heights.
LEMMA SqueezedFits ==
  ASSUME TuningOK, NEW s \in Heaps, Fits(s), HighEnough(s), NEW p, p = squeezeToFit(s)
  PROVE  /\ p.scale \in Nat \ {0} /\ p.heights \in Seq(Int) /\ Len(p.heights) = Len(s)
         /\ 10 * p.scale * tuning.wall * (Len(p.heights) + 1)
              + SumOver(Takes(p.heights, p.scale), DOMAIN p.heights) <= 10 * p.scale * tuning.mapHeight
         /\ \A i \in DOMAIN p.heights : p.heights[i] >= p.scale * tuning.floor
         /\ \A i \in DOMAIN s \ ordinary(s) : p.heights[i] = p.scale * s[i]
<1> DEFINE den == Room(s).den
           num == Room(s).num
           low == tuning.floor
           w == 10 + tuning.widening
           m == 20 * tuning.margin
           H == [i \in DOMAIN s |-> IF i \in ordinary(s) THEN low * den + (s[i] - low) * num ELSE s[i] * den]
           S == DOMAIN s
           f == Floored(s)
           g == Extra(s)
           h == Takes(H, den)
<1>1. p.scale = den /\ p.heights = H
  BY DEF squeezeToFit
<1>2. /\ den \in Nat \ {0} /\ num \in Nat /\ num <= den
      /\ den * Fixed(s) + num * Slope(s) <= den * (10 * tuning.mapHeight)
  BY RoomIs
<1>3. low \in Nat /\ w \in Nat /\ m \in Nat /\ tuning.wall \in Nat /\ tuning.mapHeight \in Nat
      /\ tuning.trunk \in Nat
  BY TuningIs
<1>4. /\ S = 1 .. Len(s) /\ Len(s) \in Nat /\ IsFiniteSet(S) /\ ordinary(s) \subseteq S
      /\ \A i \in S : s[i] \in Nat /\ f[i] \in Int /\ g[i] \in Int
      /\ Slope(s) = SumOver(g, S) /\ Slope(s) \in Int /\ Fixed(s) \in Int
  BY StacksAreTyped
<1>5. \A k \in Nat : reservedHeight(k) = k * w + m
  BY DEF reservedHeight
<1>6. \A i \in S : h[i] = H[i] * w + den * m
  <2>1. \A i \in S : h[i] = H[i] * (10 + tuning.widening) + 20 * den * tuning.margin
    BY DEF Takes
  <2>2. 20 * den * tuning.margin = den * m
    <3>1. tuning.margin \in Nat
      BY TuningIs
    <3> DEFINE a == tuning.margin
    <3> HIDE DEF a, den
    <3>2. a \in Nat
      BY <3>1 DEF a
    <3>3. 20 * den * a = den * (20 * a)
      BY <1>2, <3>2
    <3> QED BY <3>3 DEF a
  <2> QED BY <2>1, <2>2
<1> HIDE DEF den, num, low, w, m, f, g
<1>7. ASSUME NEW i \in S
      PROVE  /\ H[i] \in Int /\ h[i] \in Int /\ h[i] = den * f[i] + num * g[i]
             /\ H[i] >= den * low
             /\ i \notin ordinary(s) => H[i] = den * s[i]
  <2> DEFINE a == s[i]
  <2>1. a \in Nat /\ a >= low
    BY <1>4 DEF HighEnough, low
  <2>2. h[i] = H[i] * w + den * m
    BY <1>6
  <2>3. CASE i \in ordinary(s)
    <3>1. H[i] = low * den + (a - low) * num
      BY <2>3
    <3>2. f[i] = low * w + m /\ g[i] = (a * w + m) - (low * w + m)
      BY <1>3, <1>5, <2>1, <2>3 DEF f, g, Floored, Extra, low
    <3> DEFINE x == H[i]
    <3> HIDE DEF a, H
    <3>3. x \in Int /\ x * w + den * m \in Int
      BY <1>2, <1>3, <2>1, <3>1
    <3>4. x * w + den * m = den * f[i] + num * g[i]
      <4>1. x * w = (low * den) * w + ((a - low) * num) * w
        BY <1>2, <1>3, <2>1, <3>1
      <4>2. den * f[i] = (low * den) * w + den * m
        BY <1>2, <1>3, <3>2
      <4>3. num * g[i] = ((a - low) * num) * w
        BY <1>2, <1>3, <2>1, <3>2
      <4> DEFINE b == (low * den) * w
                 c == ((a - low) * num) * w
                 d == den * m
      <4>4. b \in Int /\ c \in Int /\ d \in Int
        BY <1>2, <1>3, <2>1
      <4> HIDE DEF b, c, d
      <4> QED BY <4>1, <4>2, <4>3, <4>4 DEF b, c, d
    <3>5. x >= den * low
      <4>1. (a - low) * num >= 0
        BY <1>2, <1>3, <2>1
      <4> QED BY <1>2, <1>3, <2>1, <3>1, <4>1
    <3> QED BY <2>2, <2>3, <3>3, <3>4, <3>5
  <2>4. CASE i \notin ordinary(s)
    <3>1. H[i] = a * den
      BY <2>4
    <3>2. f[i] = a * w + m /\ g[i] = 0
      BY <1>5, <2>1, <2>4 DEF f, g, Floored, Extra
    <3> DEFINE x == H[i]
    <3> HIDE DEF H
    <3>3. x = den * a /\ x \in Int /\ x * w + den * m \in Int
      BY <1>2, <1>3, <2>1, <3>1
    <3>4. x * w + den * m = den * f[i] + num * g[i]
      BY <1>2, <1>3, <2>1, <3>2, <3>3
    <3>5. x >= den * low
      <4>1. den * (a - low) >= 0
        BY <1>2, <1>3, <2>1
      <4> QED BY <1>2, <1>3, <2>1, <3>3, <4>1
    <3> QED BY <2>2, <3>3, <3>4, <3>5
  <2> QED BY <2>3, <2>4
<1>8. DOMAIN H = S /\ H \in Seq(Int) /\ Len(H) = Len(s)
  <2>1. DOMAIN H = S
    OBVIOUS
  <2>2. H \in [1 .. Len(s) -> Int]
    BY <1>4, <1>7
  <2> HIDE DEF H
  <2> QED BY <1>4, <2>1, <2>2, SeqDef, LenProperties
<1> HIDE DEF H, h, S
<1>9. SumOver(h, S) = den * SumOver(f, S) + num * SumOver(g, S)
  <2> DEFINE df == [i \in S |-> den * f[i]]
             ng == [i \in S |-> num * g[i]]
  <2>1. \A i \in S : /\ f[i] \in Int /\ df[i] = den * f[i] /\ df[i] \in Int
                     /\ g[i] \in Int /\ ng[i] = num * g[i] /\ ng[i] \in Int
                     /\ h[i] = df[i] + ng[i]
    BY <1>2, <1>4, <1>7
  <2>2. IsFiniteSet(S) /\ den \in Int /\ num \in Int
    BY <1>2, <1>4
  <2> HIDE DEF df, ng
  <2>3. SumOver(df, S) = den * SumOver(f, S)
    BY <2>1, <2>2, SumTimes
  <2>4. SumOver(ng, S) = num * SumOver(g, S)
    BY <2>1, <2>2, SumTimes
  <2>5. SumOver(h, S) = SumOver(df, S) + SumOver(ng, S)
    BY <2>1, <2>2, SumPlus
  <2> QED BY <2>3, <2>4, <2>5
<1>10. 10 * den * tuning.wall * (Len(s) + 1) + SumOver(h, S) <= 10 * den * tuning.mapHeight
  <2> DEFINE F == SumOver(f, S)
             G == SumOver(g, S)
             n == Len(s) + 1
             wall == tuning.wall
             top == tuning.mapHeight
  <2>1. F \in Int /\ G \in Int
    BY <1>4, SumInt
  <2>2. Fixed(s) = 10 * n * wall + F
    BY DEF Fixed, f, S
  <2>3. n \in Nat /\ wall \in Nat /\ top \in Nat /\ Slope(s) = G
    BY <1>3, <1>4
  <2>4. den * Fixed(s) + num * G <= den * (10 * top)
    BY <1>2, <2>3
  <2> HIDE DEF F, G, n, wall, top
  <2>5. den * Fixed(s) = 10 * den * wall * n + den * F
    BY <1>2, <2>1, <2>2, <2>3
  <2>6. den * (10 * top) = 10 * den * top
    BY <1>2, <2>3
  <2> DEFINE a == 10 * den * wall * n
             b == den * F
             c == num * G
  <2>7. a \in Int /\ b \in Int /\ c \in Int /\ 10 * den * top \in Int
    BY <1>2, <2>1, <2>3
  <2>8. a + (b + c) <= 10 * den * top
    <3> HIDE DEF a, b, c
    <3> QED BY <2>4, <2>5, <2>6, <2>7 DEF a, b, c
  <2> QED BY <1>9, <2>8 DEF F, G, n, wall, top
<1> QED BY <1>1, <1>2, <1>7, <1>8, <1>10 DEF h, S, low

---------------------------------------------------------------------------
(* The stack while it is drawn and fitted.                                 *)

LevelsInv ==
  /\ TuningOK
  /\ drawn \in Heaps /\ levels \in Heaps /\ Distinct(drawn) /\ Distinct(levels)
  /\ Len(drawn) <= tuning.routeCount /\ HighEnough(levels) /\ ToSet(levels) \subseteq ToSet(drawn)
  /\ drawn # <<>> => levels # <<>>
  /\ Len(drawn) < tuning.routeCount => levels = drawn
  /\ Len(drawn) >= 2 => drawn[2] >= tuning.trunk
  /\ ExtremesFit => {Smallest(drawn), Biggest(drawn)} \subseteq ToSet(levels)
  /\ PlanIsSound

\* The tallest of a plan.
LEMMA Tallest ==
  ASSUME NEW s \in Seq(Int), NEW h \in ToSet(s)
  PROVE  Biggest(s) \in Int /\ h <= Biggest(s)
<1>1. IsFiniteSet(ToSet(s)) /\ ToSet(s) \in SUBSET Int /\ ToSet(s) # {}
  BY FinitelyMany, InASequence
<1>2. \E g \in ToSet(s) : \A k \in ToSet(s) : k <= g
  BY <1>1, LeastAndGreatest
<1> QED BY <1>1, <1>2 DEF Biggest

\* What is where in a stack without its k-th.
OneLess(s, k, t) ==
  \A i \in 1 .. Len(s) - 1 : (i < k => t[i] = s[i]) /\ (i >= k => t[i] = s[i + 1])

\* A sequence with one of its places taken out.
LEMMA WithoutOne ==
  ASSUME NEW A, NEW s \in Seq(A), NEW k \in 1 .. Len(s), NEW t, t = RemoveAt(s, k)
  PROVE  /\ t \in Seq(A) /\ Len(t) = Len(s) - 1
         /\ OneLess(s, k, t)
<1> DEFINE a == SubSeq(s, 1, k - 1)
           b == SubSeq(s, k + 1, Len(s))
           n == Len(s)
<1>1. n \in Nat /\ k \in 1 .. n /\ \A i \in 1 .. n : s[i] \in A
  BY LenProperties
<1>2. a \in Seq(A) /\ Len(a) = k - 1 /\ \A i \in 1 .. k - 1 : a[i] = s[i]
  <2>1. 1 \in Int /\ k - 1 \in Int /\ \A i \in 1 .. k - 1 : s[i] \in A
    BY <1>1
  <2>2. /\ a \in Seq(A)
        /\ Len(a) = IF 1 <= k - 1 THEN (k - 1) - 1 + 1 ELSE 0
        /\ \A i \in 1 .. (k - 1) - 1 + 1 : a[i] = s[1 + i - 1]
    BY <2>1, SubSeqProperties
  <2> HIDE DEF a
  <2>3. Len(a) = k - 1
    BY <1>1, <2>2
  <2>4. (k - 1) - 1 + 1 = k - 1 /\ \A i \in 1 .. k - 1 : 1 + i - 1 = i
    BY <1>1
  <2> QED BY <2>2, <2>3, <2>4
<1>3. b \in Seq(A) /\ Len(b) = n - k /\ \A i \in 1 .. n - k : b[i] = s[k + i]
  <2>1. k + 1 \in Int /\ n \in Int /\ \A i \in k + 1 .. n : s[i] \in A
    BY <1>1
  <2>2. /\ b \in Seq(A)
        /\ Len(b) = IF k + 1 <= n THEN n - (k + 1) + 1 ELSE 0
        /\ \A i \in 1 .. n - (k + 1) + 1 : b[i] = s[(k + 1) + i - 1]
    BY <2>1, SubSeqProperties
  <2> HIDE DEF b
  <2>3. Len(b) = n - k
    BY <1>1, <2>2
  <2>4. n - (k + 1) + 1 = n - k /\ \A i \in 1 .. n - k : (k + 1) + i - 1 = k + i
    BY <1>1
  <2> QED BY <2>2, <2>3, <2>4
<1>4. t = a \o b
  BY DEF RemoveAt
<1> HIDE DEF a, b
<1>5. /\ t \in Seq(A) /\ Len(t) = (k - 1) + (n - k)
      /\ \A i \in 1 .. (k - 1) + (n - k) : t[i] = IF i <= k - 1 THEN a[i] ELSE b[i - (k - 1)]
  <2>1. /\ a \o b \in Seq(A) /\ Len(a \o b) = Len(a) + Len(b)
        /\ \A i \in 1 .. Len(a) + Len(b) : (a \o b)[i] = IF i <= Len(a) THEN a[i] ELSE b[i - Len(a)]
    BY <1>2, <1>3, ConcatProperties
  <2>2. Len(a) = k - 1 /\ Len(b) = n - k
    BY <1>2, <1>3
  <2> QED BY <1>4, <2>1, <2>2, Zenon
<1>6. (k - 1) + (n - k) = n - 1
  BY <1>1
<1>7. ASSUME NEW i \in 1 .. n - 1
      PROVE  (i < k => t[i] = s[i]) /\ (i >= k => t[i] = s[i + 1])
  <2>0. t[i] = IF i <= k - 1 THEN a[i] ELSE b[i - (k - 1)]
    BY <1>5, <1>6
  <2>1. CASE i < k
    <3>1. i <= k - 1 /\ i \in 1 .. k - 1
      BY <1>1, <2>1
    <3> QED BY <1>1, <1>2, <2>0, <2>1, <3>1
  <2>2. CASE ~(i < k)
    <3> DEFINE j == i - (k - 1)
    <3>1. ~(i <= k - 1) /\ j \in 1 .. n - k /\ k + j = i + 1
      BY <1>1, <2>2
    <3>2. t[i] = b[j]
      BY <2>0, <3>1
    <3> HIDE DEF j
    <3> QED BY <1>3, <2>2, <3>1, <3>2
  <2> QED BY <2>1, <2>2
<1> QED BY <1>5, <1>6, <1>7 DEF n, OneLess

\* And a stack with one of its levels dropped.
LEMMA Dropping ==
  ASSUME NEW s \in Heaps, Distinct(s), Len(s) > 1, NEW k \in 1 .. Len(s), NEW t, t = RemoveAt(s, k)
  PROVE  /\ t \in Heaps /\ Distinct(t) /\ ToSet(t) \subseteq ToSet(s) /\ t # <<>>
         /\ \A c \in ToSet(s) : c # s[k] => c \in ToSet(t)
<1> DEFINE n == Len(s)
           From(i, j) == (i < k /\ j = i) \/ (i >= k /\ j = i + 1)
<1>1. /\ t \in Seq(Nat) /\ Len(t) = n - 1
      /\ \A i \in 1 .. n - 1 : (i < k => t[i] = s[i]) /\ (i >= k => t[i] = s[i + 1])
  <2>1. s \in Seq(Nat)
    BY DEF Heaps
  <2>2. t \in Seq(Nat) /\ Len(t) = Len(s) - 1 /\ OneLess(s, k, t)
    BY <2>1, WithoutOne
  <2> QED BY <2>2 DEF OneLess
<1>2. /\ n \in Nat /\ n > 1 /\ k \in 1 .. n
      /\ DOMAIN s = 1 .. n /\ ToSet(s) = {s[i] : i \in 1 .. n}
      /\ DOMAIN t = 1 .. n - 1 /\ ToSet(t) = {t[i] : i \in 1 .. n - 1}
  <2>1. n \in Nat /\ DOMAIN s = 1 .. n /\ ToSet(s) = {s[i] : i \in 1 .. n}
    BY LenProperties, InASequence DEF Heaps
  <2>2. DOMAIN t = 1 .. Len(t) /\ ToSet(t) = {t[i] : i \in 1 .. Len(t)}
    BY <1>1, LenProperties, InASequence
  <2>3. DOMAIN t = 1 .. n - 1 /\ ToSet(t) = {t[i] : i \in 1 .. n - 1}
    BY <1>1, <2>2, Zenon
  <2> QED BY <2>1, <2>3
<1> HIDE DEF n
<1>3. ASSUME NEW i \in 1 .. n - 1
      PROVE  \E j \in 1 .. n : t[i] = s[j] /\ From(i, j)
  <2>1. CASE i < k
    <3>1. i \in 1 .. n /\ t[i] = s[i]
      BY <1>1, <1>2, <2>1
    <3> QED BY <2>1, <3>1
  <2>2. CASE ~(i < k)
    <3>1. i + 1 \in 1 .. n /\ i >= k
      BY <1>2, <2>2
    <3>2. t[i] = s[i + 1]
      BY <1>1, <3>1
    <3> QED BY <3>1, <3>2
  <2> QED BY <2>1, <2>2
<1>4. Distinct(t)
  <2> SUFFICES ASSUME NEW i \in 1 .. n - 1, NEW j \in 1 .. n - 1, i # j
               PROVE  t[i] # t[j]
    BY <1>2 DEF Distinct
  <2>1. PICK c \in 1 .. n : t[i] = s[c] /\ From(i, c)
    BY <1>3
  <2>2. PICK d \in 1 .. n : t[j] = s[d] /\ From(j, d)
    BY <1>3
  <2>3. c # d
    BY <1>2, <2>1, <2>2
  <2>4. s[c] # s[d]
    BY <1>2, <2>3 DEF Distinct
  <2> QED BY <2>1, <2>2, <2>4
<1>5. ASSUME NEW c \in ToSet(s), c # s[k]
      PROVE  c \in ToSet(t)
  <2>1. PICK j \in 1 .. n : s[j] = c
    BY <1>2
  <2>2. CASE j < k
    <3>1. j \in 1 .. n - 1 /\ t[j] = c
      BY <1>1, <1>2, <2>1, <2>2
    <3> QED BY <1>2, <3>1
  <2>3. CASE j > k
    <3>1. j - 1 \in 1 .. n - 1 /\ j - 1 >= k /\ (j - 1) + 1 = j
      BY <1>2, <2>3
    <3>2. t[j - 1] = c
      BY <1>1, <2>1, <3>1
    <3> QED BY <1>2, <3>1, <3>2
  <2> QED BY <1>2, <1>5, <2>1, <2>2, <2>3
<1>6. ToSet(t) \subseteq ToSet(s)
  BY <1>2, <1>3
<1>7. t # <<>>
  BY <1>1, <1>2, EmptySeq
<1> QED BY <1>1, <1>4, <1>5, <1>6, <1>7 DEF Heaps

LEMMA LevelsBegin == InitLevels => LevelsInv
<1> SUFFICES ASSUME InitLevels PROVE LevelsInv
  OBVIOUS
<1>1. tuning \in Tuning /\ levels = <<>> /\ drawn = <<>> /\ plan.fitted = FALSE
  BY LevelsAssumption DEF InitLevels, Unfitted
<1>2. <<>> \in Heaps /\ Len(<<>>) = 0 /\ DOMAIN <<>> = {} /\ ToSet(<<>>) = {}
  BY EmptySeq, InASequence DEF Heaps
<1>3. TuningOK
  BY <1>1, LevelsAssumption DEF TuningOK, InitLevels
<1>4. ~ExtremesFit /\ PlanIsSound
  BY <1>1 DEF ExtremesFit, PlanIsSound, StackFits, SpreadSurvives, TrunkSurvives
<1> QED BY <1>1, <1>2, <1>3, <1>4, TuningIs DEF LevelsInv, Distinct, HighEnough

\* What is not about the plan or what was drawn does not change with them.
LEMMA ExtremesStay ==
  ASSUME tuning' = tuning, drawn' = drawn
  PROVE  ExtremesFit' <=> ExtremesFit
BY DEF ExtremesFit, Fits, Fixed, Floored, reservedHeight, ordinary, Smallest, Biggest

\* The tallest drawn is as wide as the trunk, if there is a second.
LEMMA WideEnough ==
  ASSUME LevelsInv, Len(drawn) >= 2
  PROVE  Biggest(drawn) \in Nat /\ Biggest(drawn) >= tuning.trunk
<1>1. drawn \in Heaps /\ drawn # <<>> /\ drawn[2] >= tuning.trunk
  BY EmptySeq DEF LevelsInv, Heaps
<1>2. drawn[2] \in ToSet(drawn)
  <2>1. 2 \in 1 .. Len(drawn)
    BY <1>1, LenProperties DEF LevelsInv, Heaps
  <2> QED BY <1>1, <2>1, InASequence DEF Heaps
<1>3. Biggest(drawn) \in Nat /\ drawn[2] \in Nat /\ drawn[2] <= Biggest(drawn)
  BY <1>1, <1>2, Extremes
<1>4. tuning.trunk \in Nat
  BY TuningIs DEF LevelsInv
<1> QED BY <1>1, <1>3, <1>4

LEMMA LevelsDrawn == LevelsInv /\ draw => LevelsInv'
<1> SUFFICES ASSUME LevelsInv, draw PROVE LevelsInv'
  OBVIOUS
<1>1. PICK h \in Drawable(Len(drawn) + 1) \ ToSet(drawn) : levels' = Append(levels, h) /\ drawn' = levels'
  BY DEF draw
<1> DEFINE n == Len(drawn)
<1>2. /\ tuning' = tuning /\ plan' = plan /\ plan = Unfitted /\ n < tuning.routeCount
      /\ levels = drawn /\ drawn \in Seq(Nat) /\ n \in Nat /\ tuning.routeCount \in Nat
      /\ tuning.floor \in Nat /\ tuning.trunk \in Nat
  <2>1. tuning' = tuning /\ plan' = plan /\ plan = Unfitted /\ n < tuning.routeCount
    BY DEF draw
  <2>2. levels = drawn /\ drawn \in Seq(Nat)
    BY <2>1 DEF LevelsInv, Heaps
  <2> QED BY <2>1, <2>2, LenProperties, TuningIs DEF LevelsInv
<1>3. /\ h \in Nat /\ h \notin ToSet(drawn) /\ h >= tuning.floor
      /\ n + 1 = 2 => h >= tuning.trunk
  <2>1. h \in Drawable(n + 1) /\ h \notin ToSet(drawn)
    BY <1>1
  <2>2. CASE n + 1 = 1
    BY <1>2, <2>1, <2>2, LevelsAssumption DEF Drawable
  <2>3. CASE n + 1 = 2
    <3>1. h \in Nat /\ tuning.tall <= h /\ tuning.trunk <= h
      BY <2>1, <2>3, LevelsAssumption DEF Drawable
    <3>2. tuning.floor <= tuning.tall /\ tuning.tall \in Nat
      BY TuningIs DEF LevelsInv, TuningOK
    <3> QED BY <1>2, <2>1, <2>3, <3>1, <3>2
  <2>4. CASE n + 1 # 1 /\ n + 1 # 2
    BY <1>2, <2>1, <2>4, LevelsAssumption DEF Drawable
  <2> QED BY <2>2, <2>3, <2>4
<1>4. /\ drawn' \in Seq(Nat) /\ Len(drawn') = n + 1 /\ drawn'[n + 1] = h
      /\ \A i \in 1 .. n : drawn'[i] = drawn[i]
      /\ DOMAIN drawn = 1 .. n /\ DOMAIN drawn' = 1 .. n + 1
      /\ levels' = drawn'
  <2>1. drawn' = Append(drawn, h)
    BY <1>1, <1>2
  <2>2. drawn' \in Seq(Nat) /\ Len(drawn') = n + 1 /\ drawn'[n + 1] = h
        /\ \A i \in 1 .. n : drawn'[i] = drawn[i]
    BY <1>2, <1>3, <2>1, AppendProperties
  <2> QED BY <1>1, <1>2, <2>2, LenProperties
<1> HIDE DEF n
<1>5. Distinct(drawn')
  <2> SUFFICES ASSUME NEW i \in 1 .. n + 1, NEW j \in 1 .. n + 1, i # j
               PROVE  drawn'[i] # drawn'[j]
    BY <1>4 DEF Distinct
  <2>1. ASSUME NEW k \in 1 .. n PROVE drawn'[k] # h /\ drawn'[k] = drawn[k]
    <3>1. drawn[k] \in ToSet(drawn)
      BY <1>2, InASequence DEF n
    <3> QED BY <1>3, <1>4, <3>1
  <2>2. CASE i = n + 1
    <3>1. j \in 1 .. n
      BY <1>2, <2>2
    <3> QED BY <1>4, <2>1, <2>2, <3>1
  <2>3. CASE j = n + 1
    <3>1. i \in 1 .. n
      BY <1>2, <2>3
    <3> QED BY <1>4, <2>1, <2>3, <3>1
  <2>4. CASE i # n + 1 /\ j # n + 1
    <3>1. i \in 1 .. n /\ j \in 1 .. n
      BY <1>2, <2>4
    <3>2. drawn[i] # drawn[j]
      BY <1>4, <3>1 DEF LevelsInv, Distinct
    <3> QED BY <2>1, <3>1, <3>2
  <2> QED BY <2>2, <2>3, <2>4
<1>6. HighEnough(levels)'
  <2> SUFFICES ASSUME NEW i \in 1 .. n + 1
               PROVE  drawn'[i] >= tuning.floor
    BY <1>2, <1>4 DEF HighEnough
  <2>1. CASE i = n + 1
    BY <1>3, <1>4, <2>1
  <2>2. CASE i # n + 1
    <3>1. i \in 1 .. n
      BY <1>2, <2>2
    <3>2. drawn[i] >= tuning.floor
      BY <1>2, <1>4, <3>1 DEF LevelsInv, HighEnough
    <3> QED BY <1>4, <3>1, <3>2
  <2> QED BY <2>1, <2>2
<1>7. drawn' # <<>>
  BY <1>2, <1>4, EmptySeq
<1>8. Len(drawn') >= 2 => drawn'[2] >= tuning.trunk
  <2>1. CASE n + 1 = 2
    BY <1>3, <1>4, <2>1
  <2>2. CASE n + 1 # 2
    <3> SUFFICES ASSUME n + 1 >= 2 PROVE drawn'[2] >= tuning.trunk
      BY <1>4
    <3>1. n >= 2 /\ 2 \in 1 .. n
      BY <1>2, <2>2
    <3>2. drawn[2] >= tuning.trunk
      BY <3>1 DEF LevelsInv, n
    <3> QED BY <1>4, <3>1, <3>2
  <2> QED BY <2>1, <2>2
<1>9. {Smallest(drawn'), Biggest(drawn')} \subseteq ToSet(drawn')
  BY <1>4, <1>7, Extremes DEF Heaps
<1>10. PlanIsSound'
  <2>1. plan'.fitted = FALSE
    BY <1>2 DEF Unfitted
  <2> QED BY <2>1 DEF PlanIsSound, StackFits, SpreadSurvives, TrunkSurvives
<1>11. TuningOK' /\ Len(drawn') <= tuning'.routeCount
  <2>1. TuningOK'
    BY <1>2 DEF LevelsInv, TuningOK
  <2> QED BY <1>2, <1>4, <2>1
<1>12. Smallest(drawn)' = Smallest(drawn') /\ Biggest(drawn)' = Biggest(drawn')
  BY DEF Smallest, Biggest
<1> QED BY <1>2, <1>4, <1>5, <1>6, <1>7, <1>8, <1>9, <1>10, <1>11, <1>12 DEF LevelsInv, Heaps

---------------------------------------------------------------------------
(* What is dropped.                                                        *)

LEMMA ALeastCharacterful ==
  ASSUME NEW s \in Heaps, s # <<>>, Distinct(s), NEW k, k = leastCharacterful(s)
  PROVE  /\ k \in 1 .. Len(s)
         /\ Len(s) > 2 => s[k] # Smallest(s) /\ s[k] # Biggest(s)
<1> DEFINE off(h) == LET d == 2 * h - Smallest(s) - Biggest(s) IN IF d < 0 THEN -d ELSE d
           may == {i \in DOMAIN s : Len(s) <= 2 \/ s[i] \notin {Smallest(s), Biggest(s)}}
           Less(i, j) == off(s[i]) < off(s[j]) \/ (off(s[i]) = off(s[j]) /\ i <= j)
           R == {p \in may \X may : Less(p[1], p[2])}
           n == Len(s)
<1>1. DOMAIN s = 1 .. n /\ n \in Nat \ {0} /\ \A i \in 1 .. n : s[i] \in Nat
  BY LenProperties, EmptySeq DEF Heaps
<1>2. Smallest(s) \in Nat /\ Biggest(s) \in Nat
  BY Extremes
<1>3. \A i \in may : off(s[i]) \in Nat /\ i \in Int
  BY <1>1, <1>2
<1>4. IsFiniteSet(may)
  <2>1. may \subseteq 1 .. n
    BY <1>1
  <2> HIDE DEF may
  <2> QED BY <1>1, <2>1, SoManyAreCounted, FS_Subset
<1>5. CASE may = {}
  <2>1. k = n
    BY <1>5, Zenon DEF leastCharacterful
  <2>2. CASE n <= 2
    <3>1. k \in 1 .. n /\ ~(n > 2)
      BY <1>1, <2>1, <2>2
    <3> QED BY <3>1
  <2>3. CASE ~(n <= 2)
    <3>1. \A i \in 1 .. n : s[i] = Smallest(s) \/ s[i] = Biggest(s)
      BY <1>1, <1>5, <2>3
    <3>2. 1 \in 1 .. n /\ 2 \in 1 .. n /\ 3 \in 1 .. n
      BY <1>1, <2>3
    <3>3. s[1] # s[2] /\ s[2] # s[3] /\ s[1] # s[3]
      BY <1>1, <3>2 DEF Distinct
    <3> QED BY <3>1, <3>2, <3>3
  <2> QED BY <2>2, <2>3
<1>6. CASE may # {}
  <2>1. k = CHOOSE i \in may : \A j \in may : Less(i, j)
    BY <1>6, Zenon DEF leastCharacterful
  <2>2. \A i, j \in may : <<i, j>> \in R <=> Less(i, j)
    OBVIOUS
  <2>3. Orders(R, may)
    <3>1. \A i, j \in may : Less(i, j) \/ Less(j, i)
      <4> HIDE DEF off, may
      <4> QED BY <1>3
    <3>2. \A i, j, m \in may : Less(i, j) /\ Less(j, m) => Less(i, m)
      <4> HIDE DEF off, may
      <4> QED BY <1>3
    <3> HIDE DEF R, Less, may
    <3> QED BY <2>2, <3>1, <3>2 DEF Orders
  <2> HIDE DEF R, Less, may
  <2>4. \E i \in may : \A j \in may : <<i, j>> \in R
    BY <1>4, <1>6, <2>3, ALeastOne
  <2>5. \E i \in may : \A j \in may : Less(i, j)
    BY <2>2, <2>4
  <2>6. k \in may
    BY <2>1, <2>5
  <2> QED BY <1>1, <2>6 DEF may
<1> QED BY <1>5, <1>6

\* Two levels that are the extremes take what the extremes alone would.
LEMMA APairTakes ==
  ASSUME TuningOK, NEW s \in Heaps, s # <<>>, Distinct(s), Len(s) = 2,
         NEW a \in Nat, NEW b \in Nat, a <= b, ToSet(s) = {a, b}
  PROVE  Fixed(s) = Fixed(<<a, b>>)
<1>1. DOMAIN s = 1 .. 2 /\ s[1] \in Nat /\ s[2] \in Nat /\ s[1] # s[2]
  <2>1. DOMAIN s = 1 .. 2 /\ s \in [1 .. 2 -> Nat]
    BY LenProperties DEF Heaps
  <2>2. 1 \in 1 .. 2 /\ 2 \in 1 .. 2
    OBVIOUS
  <2> QED BY <2>1, <2>2 DEF Distinct
<1>2. ToSet(s) = {s[1], s[2]}
  <2>1. ToSet(s) = {s[i] : i \in 1 .. 2} /\ 1 .. 2 = {1, 2}
    BY <1>1 DEF ToSet
  <2> QED BY <2>1
<1>3. /\ Smallest(s) \in {a, b} /\ \A h \in {a, b} : Smallest(s) <= h
      /\ Biggest(s) \in {a, b} /\ \A h \in {a, b} : h <= Biggest(s)
  BY Extremes
<1>4. Smallest(s) = a /\ Biggest(s) = b
  <2>1. Smallest(s) <= a /\ Biggest(s) >= b
    BY <1>3
  <2> QED BY <1>3, <2>1
<1>5. ordinary(s) = {}
  <2>1. ordinary(s) = {i \in DOMAIN s : s[i] # Smallest(s) /\ s[i] # Biggest(s)}
    BY OrdinaryIs
  <2>2. \A i \in DOMAIN s : s[i] = a \/ s[i] = b
    <3>1. \A i \in DOMAIN s : i = 1 \/ i = 2
      BY <1>1
    <3> QED BY <1>2, <3>1
  <2> QED BY <1>4, <2>1, <2>2
<1>6. Fixed(s) = 30 * tuning.wall + reservedHeight(s[1]) + reservedHeight(s[2])
  BY <1>5, FixedOfTwo
<1>7. Fixed(<<a, b>>) = 30 * tuning.wall + reservedHeight(a) + reservedHeight(b)
  <2> DEFINE t == <<a, b>>
  <2>1. t \in Heaps /\ Len(t) = 2 /\ t[1] = a /\ t[2] = b
    BY DEF Heaps
  <2>2. ordinary(t) = {}
    BY OrdinaryOfAPair
  <2> HIDE DEF t
  <2>3. Fixed(t) = 30 * tuning.wall + reservedHeight(a) + reservedHeight(b)
    BY <2>1, <2>2, FixedOfTwo
  <2> QED BY <2>3 DEF t
<1>8. (s[1] = a /\ s[2] = b) \/ (s[1] = b /\ s[2] = a)
  BY <1>1, <1>2
<1>9. reservedHeight(a) \in Nat /\ reservedHeight(b) \in Nat /\ tuning.wall \in Nat
  BY TuningIs
<1> QED BY <1>6, <1>7, <1>8, <1>9

\* One level takes no more than the extremes that it is.
LEMMA OneTakes ==
  ASSUME TuningOK, NEW s \in Heaps, Len(s) = 1, NEW a \in Nat, NEW b \in Nat, a <= b, {a, b} \subseteq ToSet(s)
  PROVE  Fixed(s) <= Fixed(<<a, b>>)
<1>1. ToSet(s) = {s[1]}
  <2>1. DOMAIN s = 1 .. 1 /\ 1 .. 1 = {1}
    BY LenProperties DEF Heaps
  <2> QED BY <2>1 DEF ToSet
<1>2. a = s[1] /\ b = s[1]
  BY <1>1
<1>3. Fixed(s) = 20 * tuning.wall + reservedHeight(a)
  BY <1>2, FixedOfOne
<1>4. Fixed(<<a, b>>) = 30 * tuning.wall + reservedHeight(a) + reservedHeight(b)
  <2> DEFINE t == <<a, b>>
  <2>1. t \in Heaps /\ Len(t) = 2 /\ t[1] = a /\ t[2] = b
    BY DEF Heaps
  <2>2. ordinary(t) = {}
    BY OrdinaryOfAPair
  <2> HIDE DEF t
  <2>3. Fixed(t) = 30 * tuning.wall + reservedHeight(a) + reservedHeight(b)
    BY <2>1, <2>2, FixedOfTwo
  <2> QED BY <2>3 DEF t
<1>5. reservedHeight(a) \in Nat /\ reservedHeight(b) \in Nat /\ tuning.wall \in Nat
  BY TuningIs
<1> QED BY <1>3, <1>4, <1>5

---------------------------------------------------------------------------
(* Fitting.                                                                *)

\* What is to be shown of a step that leaves what was drawn.
LEMMA LevelsKept ==
  ASSUME LevelsInv, tuning' = tuning, drawn' = drawn, Len(drawn) = tuning.routeCount \/ levels' = levels,
         levels' \in Heaps, Distinct(levels'), HighEnough(levels)', ToSet(levels') \subseteq ToSet(drawn),
         drawn # <<>> => levels' # <<>>,
         ExtremesFit => {Smallest(drawn), Biggest(drawn)} \subseteq ToSet(levels'),
         PlanIsSound'
  PROVE  LevelsInv'
<1>1. ExtremesFit' <=> ExtremesFit
  BY ExtremesStay
<1>2. Smallest(drawn)' = Smallest(drawn) /\ Biggest(drawn)' = Biggest(drawn)
  BY DEF Smallest, Biggest
<1>3. TuningOK'
  BY DEF LevelsInv, TuningOK
<1>4. Len(drawn) \in Nat /\ tuning.routeCount \in Nat
  BY LenProperties, TuningIs DEF LevelsInv, Heaps
<1>5. Len(drawn') < tuning'.routeCount => levels' = drawn'
  BY <1>4 DEF LevelsInv
<1>6. Distinct(drawn)' /\ Distinct(levels)'
  BY DEF LevelsInv, Distinct
<1>7. drawn' \in Heaps /\ Len(drawn') <= tuning'.routeCount /\ (Len(drawn') >= 2 => drawn'[2] >= tuning'.trunk)
  BY DEF LevelsInv
<1> QED BY <1>1, <1>2, <1>3, <1>5, <1>6, <1>7 DEF LevelsInv

\* A plan that keeps the spread keeps the trunk.
LEMMA SpreadKeepsTrunk ==
  ASSUME LevelsInv, drawn # <<>>, Len(drawn) = tuning.routeCount,
         NEW heights \in Seq(Int), NEW scale \in Nat,
         scale * Biggest(drawn) \in ToSet(heights)
  PROVE  tuning.routeCount >= 2 => Biggest(heights) >= scale * tuning.trunk
<1> SUFFICES ASSUME tuning.routeCount >= 2 PROVE Biggest(heights) >= scale * tuning.trunk
  OBVIOUS
<1> DEFINE b == Biggest(drawn)
           k == tuning.trunk
           m == Biggest(heights)
<1>1. b \in Nat /\ b >= k
  BY WideEnough
<1>2. k \in Nat
  BY TuningIs DEF LevelsInv
<1>3. m \in Int /\ scale * b <= m
  BY Tallest
<1> HIDE DEF b, k, m
<1>4. scale * (b - k) >= 0
  BY <1>1, <1>2
<1>5. scale * b \in Int /\ scale * k \in Int /\ scale * b >= scale * k
  BY <1>1, <1>2, <1>4
<1>6. m >= scale * k
  BY <1>3, <1>5
<1> QED BY <1>6 DEF k, m

LEMMA LevelsFitted == LevelsInv /\ fit => LevelsInv'
<1> SUFFICES ASSUME LevelsInv, fit PROVE LevelsInv'
  OBVIOUS
<1>1. /\ tuning' = tuning /\ drawn' = drawn /\ plan = Unfitted /\ ~unsatisfiable
      /\ Len(drawn) = tuning.routeCount
  BY DEF fit
<1>2. TuningOK /\ drawn \in Heaps /\ drawn # <<>> /\ levels \in Heaps /\ levels # <<>> /\ Distinct(levels)
  <2>1. TuningOK /\ drawn \in Heaps /\ levels \in Heaps /\ Distinct(levels)
    BY DEF LevelsInv
  <2>2. tuning.routeCount \in Nat \ {0}
    BY <2>1, TuningIs
  <2>3. drawn # <<>>
    BY <1>1, <2>2, EmptySeq
  <2> QED BY <2>1, <2>3 DEF LevelsInv
<1> DEFINE a == Smallest(drawn)
           b == Biggest(drawn)
<1>3. /\ a \in Nat /\ b \in Nat /\ a <= b
      /\ \A h \in ToSet(drawn) : a <= h /\ h <= b /\ h \in Nat
  BY <1>2, Extremes
<1>4. ToSet(levels) \subseteq ToSet(drawn)
  BY DEF LevelsInv
<1>5. ExtremesFit => /\ a \in ToSet(levels) /\ b \in ToSet(levels)
                     /\ Smallest(levels) = a /\ Biggest(levels) = b
  <2> SUFFICES ASSUME ExtremesFit PROVE /\ a \in ToSet(levels) /\ b \in ToSet(levels)
                                        /\ Smallest(levels) = a /\ Biggest(levels) = b
    OBVIOUS
  <2>1. a \in ToSet(levels) /\ b \in ToSet(levels)
    BY DEF LevelsInv
  <2>2. /\ Smallest(levels) \in ToSet(levels) /\ \A h \in ToSet(levels) : Smallest(levels) <= h
        /\ Biggest(levels) \in ToSet(levels) /\ \A h \in ToSet(levels) : h <= Biggest(levels)
    BY <1>2, Extremes
  <2> HIDE DEF a, b
  <2>3. Smallest(levels) = a
    <3>1. Smallest(levels) <= a
      BY <2>1, <2>2
    <3>2. a <= Smallest(levels) /\ Smallest(levels) \in Nat
      BY <1>3, <1>4, <2>2
    <3> QED BY <1>3, <3>1, <3>2
  <2>4. Biggest(levels) = b
    <3>1. b <= Biggest(levels)
      BY <2>1, <2>2
    <3>2. Biggest(levels) <= b /\ Biggest(levels) \in Nat
      BY <1>3, <1>4, <2>2
    <3> QED BY <1>3, <3>1, <3>2
  <2> QED BY <2>1, <2>3, <2>4
<1>6. DOMAIN levels = 1 .. Len(levels) /\ Len(levels) \in Nat \ {0}
      /\ ToSet(levels) = {levels[i] : i \in 1 .. Len(levels)}
  BY <1>2, LenProperties, EmptySeq, InASequence DEF Heaps
<1>7. CASE Fits(levels)
  <2>1. plan' = squeezeToFit(levels) /\ levels' = levels
    BY <1>7 DEF fit
  <2> DEFINE p == squeezeToFit(levels)
             H == p.heights
             k == p.scale
  <2>2. p.fitted = TRUE
    BY DEF squeezeToFit
  <2>3. /\ k \in Nat \ {0} /\ H \in Seq(Int) /\ Len(H) = Len(levels)
        /\ 10 * k * tuning.wall * (Len(H) + 1) + SumOver(Takes(H, k), DOMAIN H) <= 10 * k * tuning.mapHeight
        /\ \A i \in DOMAIN H : H[i] >= k * tuning.floor
        /\ \A i \in DOMAIN levels \ ordinary(levels) : H[i] = k * levels[i]
    <3> HIDE DEF Fits
    <3>1. HighEnough(levels)
      BY DEF LevelsInv
    <3> QED BY <1>2, <1>7, <3>1, SqueezedFits
  <2>4. plan' = p /\ plan'.heights = H /\ plan'.scale = k
    BY <2>1
  <2> HIDE DEF p, H, k
  <2>5. ToSet(H) = {H[i] : i \in 1 .. Len(levels)} /\ DOMAIN H = 1 .. Len(levels)
    BY <2>3, InASequence, LenProperties
  <2>6. StackFits'
    <3>1. Claimed' = Takes(H, k)
      BY <1>1, <2>4 DEF Claimed, Takes
    <3>2. \A h \in ToSet(H) : h >= k * tuning.floor
      BY <2>3, <2>5
    <3>3. 10 * plan'.scale * tuning'.wall * (Len(plan'.heights) + 1) + SumOver(Claimed', DOMAIN plan'.heights)
            <= 10 * plan'.scale * tuning'.mapHeight
      BY <1>1, <2>3, <2>4, <3>1, Zenon
    <3>4. \A h \in ToSet(plan'.heights) : h >= plan'.scale * tuning'.floor
      BY <1>1, <2>4, <3>2
    <3> QED BY <3>3, <3>4 DEF StackFits
  <2>7. ExtremesFit => {k * a, k * b} \subseteq ToSet(H)
    <3> SUFFICES ASSUME ExtremesFit, NEW c \in {a, b} PROVE k * c \in ToSet(H)
      OBVIOUS
    <3>1. c \in ToSet(levels) /\ (c = Smallest(levels) \/ c = Biggest(levels))
      BY <1>5
    <3>2. PICK i \in 1 .. Len(levels) : levels[i] = c
      BY <1>6, <3>1
    <3>3. i \notin ordinary(levels)
      BY <1>2, <3>1, <3>2, OrdinaryIs
    <3>4. H[i] = k * c
      BY <1>6, <2>3, <3>2, <3>3
    <3> QED BY <2>5, <3>4
  <2>8. Smallest(drawn)' = a /\ Biggest(drawn)' = b /\ (ExtremesFit' <=> ExtremesFit)
    <3>1. ExtremesFit' <=> ExtremesFit
      BY <1>1, ExtremesStay
    <3> QED BY <1>1, <3>1 DEF Smallest, Biggest
  <2>9. SpreadSurvives'
    BY <2>4, <2>7, <2>8 DEF SpreadSurvives
  <2>10. TrunkSurvives'
    <3> SUFFICES ASSUME ExtremesFit, tuning.routeCount >= 2
                 PROVE  Biggest(H) >= k * tuning.trunk
      <4>1. Biggest(plan.heights)' = Biggest(H)
        BY <2>4 DEF Biggest
      <4> QED BY <1>1, <2>4, <2>8, <4>1 DEF TrunkSurvives
    <3>1. k * b \in ToSet(H)
      BY <2>7
    <3> QED BY <1>1, <1>2, <2>3, <3>1, SpreadKeepsTrunk
  <2>11. HighEnough(levels)'
    BY <1>1, <2>1 DEF LevelsInv, HighEnough
  <2>12. PlanIsSound'
    BY <2>6, <2>9, <2>10 DEF PlanIsSound
  <2> QED BY <1>1, <1>2, <1>4, <1>5, <2>1, <2>11, <2>12, LevelsKept
<1>8. CASE ~Fits(levels) /\ Len(levels) > 1
  <2> DEFINE k == leastCharacterful(levels)
             n == Len(levels)
  <2>1. levels' = RemoveAt(levels, k) /\ plan' = Unfitted
    BY <1>1, <1>8 DEF fit
  <2>2. k \in 1 .. n /\ (n > 2 => levels[k] # Smallest(levels) /\ levels[k] # Biggest(levels))
    BY <1>2, ALeastCharacterful
  <2> HIDE DEF k
  <2>3. /\ levels' \in Heaps /\ Distinct(levels') /\ ToSet(levels') \subseteq ToSet(levels) /\ levels' # <<>>
        /\ \A c \in ToSet(levels) : c # levels[k] => c \in ToSet(levels')
    <3> DEFINE s == RemoveAt(levels, k)
    <3>1. /\ s \in Heaps /\ Distinct(s) /\ ToSet(s) \subseteq ToSet(levels) /\ s # <<>>
          /\ \A c \in ToSet(levels) : c # levels[k] => c \in ToSet(s)
      <4> HIDE DEF s
      <4> QED BY <1>2, <1>8, <2>2, Dropping DEF s
    <3> HIDE DEF s
    <3> QED BY <2>1, <3>1 DEF s
  <2>4. n \in Nat /\ n > 1
    BY <1>6, <1>8
  <2>7. HighEnough(levels)'
    <3>1. \A h \in ToSet(levels) : h >= tuning.floor
      BY <1>6 DEF LevelsInv, HighEnough
    <3>2. \A i \in DOMAIN levels' : levels'[i] \in ToSet(levels')
      BY DEF ToSet
    <3>3. \A i \in DOMAIN levels' : levels'[i] >= tuning.floor
      BY <2>3, <3>1, <3>2
    <3> QED BY <1>1, <3>3 DEF HighEnough
  <2>8. ToSet(levels') \subseteq ToSet(drawn)
    BY <1>4, <2>3
  <2>10. ExtremesFit => n > 2
    <3> SUFFICES ASSUME ExtremesFit, ~(n > 2) PROVE FALSE
      OBVIOUS
    <3>0. n = 2
      <4> HIDE DEF n
      <4> QED BY <2>4
    <3>1. ToSet(levels) = {a, b}
      <4>1. ToSet(levels) = {levels[1], levels[2]} /\ levels[1] # levels[2]
        <5>1. 1 .. n = {1, 2} /\ 1 \in 1 .. n /\ 2 \in 1 .. n
          BY <3>0
        <5> QED BY <1>2, <1>6, <5>1 DEF Distinct
      <4>2. a # b
        <5> SUFFICES ASSUME a = b PROVE FALSE
          OBVIOUS
        <5>1. levels[1] \in ToSet(drawn) /\ levels[2] \in ToSet(drawn)
          BY <1>4, <4>1
        <5> HIDE DEF a, b
        <5>2. levels[1] = a /\ levels[2] = a
          BY <1>3, <5>1
        <5> QED BY <4>1, <5>2
      <4>3. a \in ToSet(levels) /\ b \in ToSet(levels)
        BY <1>5
      <4> HIDE DEF a, b
      <4> QED BY <4>1, <4>2, <4>3
    <3>2. Fixed(levels) = Fixed(<<a, b>>)
      <4> HIDE DEF a, b
      <4> QED BY <1>2, <1>3, <3>0, <3>1, APairTakes
    <3>3. Fits(<<a, b>>)
      BY DEF ExtremesFit
    <3> HIDE DEF a, b
    <3> QED BY <1>8, <3>2, <3>3 DEF Fits
  <2>11. ExtremesFit => {a, b} \subseteq ToSet(levels')
    <3> SUFFICES ASSUME ExtremesFit, NEW c \in {a, b} PROVE c \in ToSet(levels')
      OBVIOUS
    <3>1. c \in ToSet(levels) /\ (c = Smallest(levels) \/ c = Biggest(levels))
      BY <1>5
    <3>2. levels[k] # c
      BY <2>2, <2>10, <3>1
    <3> QED BY <2>3, <3>1, <3>2
  <2>12. PlanIsSound'
    <3>1. plan'.fitted = FALSE
      BY <2>1 DEF Unfitted
    <3> QED BY <3>1 DEF PlanIsSound, StackFits, SpreadSurvives, TrunkSurvives
  <2> QED BY <1>1, <2>3, <2>7, <2>8, <2>11, <2>12, LevelsKept
<1>9. CASE ~Fits(levels) /\ ~(Len(levels) > 1)
  <2> DEFINE w == 10 + tuning.widening
             H == 10 * (tuning.mapHeight - 2 * tuning.wall) - 20 * tuning.margin
  <2>1. levels' = levels /\ plan' = [fitted |-> TRUE, scale |-> w, heights |-> <<H>>]
    BY <1>9 DEF fit
  <2>2. plan'.fitted = TRUE /\ plan'.scale = w /\ plan'.heights = <<H>>
    BY <2>1
  <2>3. Len(levels) = 1
    BY <1>6, <1>9
  <2>4. ~ExtremesFit
    <3> SUFFICES ASSUME ExtremesFit PROVE FALSE
      OBVIOUS
    <3>1. {a, b} \subseteq ToSet(levels)
      BY <1>5
    <3>2. Fits(<<a, b>>)
      BY DEF ExtremesFit
    <3> HIDE DEF a, b
    <3>3. Fixed(levels) <= Fixed(<<a, b>>)
      BY <1>2, <1>3, <2>3, <3>1, OneTakes
    <3>4. <<a, b>> \in Heaps
      BY <1>3 DEF Heaps
    <3>5. Fixed(levels) \in Int /\ Fixed(<<a, b>>) \in Int /\ tuning.mapHeight \in Nat
      BY <1>2, <3>4, StacksAreTyped, TuningIs
    <3> QED BY <1>9, <3>2, <3>3, <3>5 DEF Fits
  <2>5. ~ExtremesFit'
    BY <1>1, <2>4, ExtremesStay
  <2>6. /\ tuning.mapHeight \in Nat /\ tuning.wall \in Nat /\ tuning.margin \in Nat /\ tuning.trunk \in Nat
        /\ w \in Nat /\ H \in Int
    <3>1. /\ tuning.mapHeight \in Nat /\ tuning.wall \in Nat /\ tuning.margin \in Nat /\ tuning.trunk \in Nat
          /\ tuning.widening \in Nat
      BY <1>2, TuningIs
    <3> QED BY <3>1
  <2>7. H >= w * tuning.trunk
    <3>1. tuning.trunk * (10 + tuning.widening) + 20 * tuning.margin + 20 * tuning.wall <= 10 * tuning.mapHeight
      <4> DEFINE x == tuning.trunk * (10 + tuning.widening)
                 y == 20 * tuning.margin
                 z == 20 * tuning.wall
                 t == 10 * tuning.mapHeight
      <4>1. x \in Int
        <5>1. tuning.trunk \in Nat /\ tuning.widening \in Nat
          BY <1>2, TuningIs
        <5> QED BY <5>1
      <4>2. y \in Int /\ z \in Int /\ t \in Int
        BY <2>6
      <4>3. ~(x + y + z > t)
        BY <1>1 DEF unsatisfiable, reservedHeight
      <4> HIDE DEF x, y, z, t
      <4>4. x + y + z <= t
        BY <4>1, <4>2, <4>3
      <4> QED BY <4>4 DEF x, y, z, t
    <3> DEFINE k == tuning.trunk
               t == tuning.mapHeight
               l == tuning.wall
               m == tuning.margin
    <3>2. k * w + 20 * m + 20 * l <= 10 * t /\ H = 10 * (t - 2 * l) - 20 * m
      BY <3>1
    <3>3. k \in Nat /\ t \in Nat /\ l \in Nat /\ m \in Nat
      BY <2>6
    <3> HIDE DEF k, t, l, m, w, H
    <3>4. k * w \in Int /\ k * w = w * k
      BY <2>6, <3>3
    <3>5. H >= w * k
      BY <3>2, <3>3, <3>4
    <3> QED BY <3>5 DEF k
  <2>8. StackFits'
    <3> DEFINE s == <<H>>
               f == Takes(s, w)
    <3>1. Claimed' = f
      BY <1>1, <2>2 DEF Claimed, Takes
    <3>2. DOMAIN s = {1} /\ Len(s) = 1 /\ s[1] = H /\ ToSet(s) = {H}
      <4>1. s \in Seq(Int) /\ Len(s) = 1 /\ s[1] = H
        BY <2>6
      <4> HIDE DEF s
      <4>2. DOMAIN s = 1 .. 1 /\ 1 .. 1 = {1}
        BY <4>1, LenProperties
      <4> QED BY <4>1, <4>2 DEF ToSet
    <3>3. f[1] = H * w + 20 * w * tuning.margin
      BY <3>2 DEF Takes
    <3>4. f[1] \in Int
      <4> DEFINE x == H * w
                 y == 20 * w * tuning.margin
      <4>1. x \in Int /\ y \in Int
        <5> HIDE DEF w, H
        <5> QED BY <2>6
      <4> HIDE DEF x, y, f
      <4> QED BY <3>3, <4>1 DEF x, y
    <3> HIDE DEF f
    <3>5. SumOver(f, {1}) = f[1]
      <4>1. IsFiniteSet({1})
        BY FS_Singleton
      <4> QED BY <3>4, <4>1, SumOfOne
    <3>6. 10 * w * tuning.wall * (1 + 1) + f[1] <= 10 * w * tuning.mapHeight
      <4> DEFINE t == tuning.mapHeight
                 l == tuning.wall
                 m == tuning.margin
      <4>1. t \in Nat /\ l \in Nat /\ m \in Nat /\ H = 10 * (t - 2 * l) - 20 * m
        BY <2>6
      <4>2. f[1] = H * w + 20 * w * m
        BY <3>3
      <4> HIDE DEF t, l, m, w, H
      <4>3. H * w = 10 * w * t - 20 * w * l - 20 * w * m
        BY <2>6, <4>1
      <4>4. 10 * w * l * (1 + 1) = 20 * w * l
        BY <2>6, <4>1
      <4>5. w * t \in Int /\ 10 * w * t \in Int /\ 20 * w * l \in Int /\ 20 * w * m \in Int
        BY <2>6, <4>1
      <4> DEFINE x == 10 * w * t
                 y == 20 * w * l
                 z == 20 * w * m
      <4>6. x \in Int /\ y \in Int /\ z \in Int /\ H * w = x - y - z /\ f[1] = H * w + z
            /\ 10 * w * l * (1 + 1) = y
        BY <4>2, <4>3, <4>4, <4>5
      <4> HIDE DEF x, y, z
      <4>7. 10 * w * l * (1 + 1) + f[1] <= x
        BY <4>6
      <4> QED BY <4>7 DEF x, l, t
    <3> HIDE DEF s
    <3>7. Len(s) = 1 /\ \A h \in ToSet(s) : h >= w * tuning.trunk
      BY <2>7, <3>2
    <3>8. plan'.heights = s
      BY <2>2 DEF s
    <3> HIDE DEF w, H
    <3> QED BY <1>1, <2>2, <3>1, <3>2, <3>5, <3>6, <3>7, <3>8 DEF StackFits
  <2>9. PlanIsSound'
    BY <2>5, <2>8 DEF PlanIsSound, SpreadSurvives, TrunkSurvives
  <2>10. HighEnough(levels)'
    BY <1>1, <2>1 DEF LevelsInv, HighEnough
  <2> QED BY <1>1, <1>2, <1>4, <2>1, <2>4, <2>9, <2>10, LevelsKept
<1> QED BY <1>7, <1>8, <1>9

LEMMA LevelsStep == LevelsInv /\ [NextLevels]_levelVars => LevelsInv'
<1> SUFFICES ASSUME LevelsInv, [NextLevels]_levelVars PROVE LevelsInv'
  OBVIOUS
<1>1. CASE draw
  BY <1>1, LevelsDrawn
<1>2. CASE fit
  BY <1>2, LevelsFitted
<1>3. CASE unplannable
  <2>1. tuning' = tuning /\ drawn' = drawn /\ levels' = levels /\ plan' = Refused
    BY <1>3 DEF unplannable
  <2>2. PlanIsSound'
    BY <2>1 DEF PlanIsSound, StackFits, SpreadSurvives, TrunkSurvives, Refused
  <2>3. HighEnough(levels)'
    BY <2>1 DEF LevelsInv, HighEnough
  <2>4. /\ levels' \in Heaps /\ Distinct(levels') /\ ToSet(levels') \subseteq ToSet(drawn)
        /\ drawn # <<>> => levels' # <<>>
        /\ ExtremesFit => {Smallest(drawn), Biggest(drawn)} \subseteq ToSet(levels')
    BY <2>1 DEF LevelsInv
  <2> QED BY <2>1, <2>2, <2>3, <2>4, LevelsKept
<1>4. CASE UNCHANGED levelVars
  <2>1. tuning' = tuning /\ drawn' = drawn /\ levels' = levels /\ plan' = plan
    BY <1>4 DEF levelVars
  <2>2. PlanIsSound'
    <3>1. PlanIsSound
      BY DEF LevelsInv
    <3>2. ExtremesFit' <=> ExtremesFit
      BY <2>1, ExtremesStay
    <3>3. Claimed' = Claimed /\ Smallest(drawn)' = Smallest(drawn) /\ Biggest(drawn)' = Biggest(drawn)
          /\ Biggest(plan.heights)' = Biggest(plan.heights)
      BY <2>1 DEF Claimed, Smallest, Biggest
    <3>4. StackFits'
      BY <2>1, <3>1, <3>3 DEF PlanIsSound, StackFits
    <3> QED BY <2>1, <3>1, <3>2, <3>3, <3>4 DEF PlanIsSound, SpreadSurvives, TrunkSurvives
  <2>3. HighEnough(levels)'
    BY <2>1 DEF LevelsInv, HighEnough
  <2>4. /\ levels' \in Heaps /\ Distinct(levels') /\ ToSet(levels') \subseteq ToSet(drawn)
        /\ drawn # <<>> => levels' # <<>>
        /\ ExtremesFit => {Smallest(drawn), Biggest(drawn)} \subseteq ToSet(levels')
    BY <2>1 DEF LevelsInv
  <2> QED BY <2>1, <2>2, <2>3, <2>4, LevelsKept
<1> QED BY <1>1, <1>2, <1>3, <1>4 DEF NextLevels

---------------------------------------------------------------------------
(* Side by side.                                                           *)

\* Fleets, berths and levels see nothing of the other parts.
LEMMA BerthsAlone == SpecServices => SpecBerths
<1>1. InitServices => InitBerths
  BY DEF InitServices
<1>2. [NextServices]_serviceVars => [NextBerths]_berthVars
  BY DEF NextServices, serviceVars, berthVars
<1> QED BY <1>1, <1>2, PTL DEF SpecServices, SpecBerths

LEMMA FleetsAlone == SpecServices => SpecEditor
<1>1. InitServices => InitEditor
  BY DEF InitServices
<1>2. [NextServices]_serviceVars => [NextEditor]_editorVars
  BY DEF NextServices, serviceVars, editorVars, listeningVars, soundVars
<1> QED BY <1>1, <1>2, PTL DEF SpecServices, SpecEditor

LEMMA LevelsAlone == SpecServices => SpecLevels
<1>1. InitServices => InitLevels
  BY DEF InitServices
<1>2. [NextServices]_serviceVars => [NextLevels]_levelVars
  BY DEF NextServices, serviceVars, levelVars
<1> QED BY <1>1, <1>2, PTL DEF SpecServices, SpecLevels

\* Whatever is drawn and whatever the rock, a match begins on sound water: the planned cave keeps
\* its extremes and its trunk (planLevels), and no boat is put down too deep, in stone where there is
\* water, nearer to rock, surface or seabed than its radius where there is room for it, or where
\* another of its side lies while another place would do (deployMatch, findBerth).
THEOREM TheStartIsSound == SpecServices => []StartIsSound
<1>1. LevelsInv => PlanIsSound
  BY DEF LevelsInv
<1>2. SpecLevels => []PlanIsSound
  BY <1>1, LevelsBegin, LevelsStep, PTL DEF SpecLevels
<1>3. SpecBerths => []BerthsAreSound
  BY BerthsSound, BerthsBegin, BerthsStep, PTL DEF SpecBerths
<1>4. BerthsAreSound /\ PlanIsSound => StartIsSound
  BY DEF StartIsSound
<1> QED BY <1>2, <1>3, <1>4, BerthsAlone, LevelsAlone, PTL

\* A fleet means the same to the editor that built it, the server that took it, the rows that keep
\* it and any later release that loads it (validateFleet, repairBoat), however many calls overlap,
\* are answered out of order or lost: the editor builds nothing that is refused; a draft that shows
\* nothing unsaved is what is stored, unless it is from an answer that a save of that fleet crossed;
\* a save keeps all that was sent, and the cap holds on a synchronous engine; and no boat is better
\* for the order that its modules were fitted in (applyModifiers).
THEOREM FleetsStaySound == SpecServices => []FleetsAreSound
BY EditorBegins, EditorKeeps, FleetsMeanTheSame, FleetsAlone, PTL DEF SpecEditor
==============================================================================
