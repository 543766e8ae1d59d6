----------------------------- MODULE FleetRules -----------------------------
(***************************************************************************)
(* What a legal boat is, what it costs and what it can do: the rules that  *)
(* the fleet editor and the server share (shared/src/fleet/validate.ts and *)
(* resolve.ts, content/stats.ts, match/conditions.ts).                     *)
(*                                                                         *)
(* The content tables are a parameter of every rule, because fleets are    *)
(* stored and outlive them: a later release may retire a module or take a  *)
(* slot off a hull.  A boat has one statistic here, an integer.            *)
(***************************************************************************)
EXTENDS Series, SequencesExt

CONSTANTS
  Hull, Module,
  Slots,        \* release -> hull -> kind of slot -> how many of them
  Known,        \* release -> the modules it has
  SlotOf,       \* module -> the kind of slot it fits
  ModulePrice, HullPrice, HullStat,
  Modifiers,    \* module -> the sequence of what it does to the statistic
  Empty         \* what is in a slot that nothing is in

SLOT_KINDS == <<"equipment", "weapon">>
OP_ORDER == <<"set", "add", "mul", "min", "max">>
Notch == {"slow", "full", "flank"}

Release == DOMAIN Known

\* What a module does to the statistic.
Modifier == [op : ToSet(OP_ORDER), value : Int, notch : Notch \cup {"always"}]

ASSUME TablesAssumption ==
  /\ 1 \in Release
  /\ \A c \in Release : /\ Known[c] \subseteq Module
                       /\ \A h \in Hull, k \in ToSet(SLOT_KINDS) : Slots[c][h][k] \in 0 .. 10
  /\ SlotOf \in [Module -> ToSet(SLOT_KINDS)] /\ Modifiers \in [Module -> Seq(Modifier)]
  /\ ModulePrice \in [Module -> Nat] /\ HullPrice \in [Hull -> Nat] /\ HullStat \in [Hull -> Int]
  /\ Empty \notin Module
  \* Whatever sets the statistic sets it to the same: no boat is fitted with two that differ.
  /\ \A m, n \in Module : \A i \in DOMAIN Modifiers[m], j \in DOMAIN Modifiers[n] :
       (Modifiers[m][i].op = "set" /\ Modifiers[n][j].op = "set") =>
          Modifiers[m][i].value = Modifiers[n][j].value

\* A module in a slot, a boat of the editor, and a place on a hull where a module may be.
FittedModule == [slot : ToSet(SLOT_KINDS), index : Nat, module : Module]
BoatTemplate == [hull : Hull, named : BOOLEAN, modules : Seq(FittedModule)]
SlotsOf(c, h) == {s \in ToSet(SLOT_KINDS) \X (0 .. 9) : s[2] < Slots[c][h][s[1]]}

---------------------------------------------------------------------------
(* Validation and repair.                                                  *)

\* Mutant: the last slot of a kind is off the hull.
FittingShort(c, h, f) ==
  f.module \in Known[c] /\ SlotOf[f.module] = f.slot /\ f.index + 1 < Slots[c][h][f.slot]

\* The module is in the tables, fits the kind of slot it claims, and the hull has that slot.
Fitting(c, h, f) ==
  /\ f.module \in Known[c]
  /\ SlotOf[f.module] = f.slot
  /\ f.index < Slots[c][h][f.slot]

SameSlot(f, g) == f.slot = g.slot /\ f.index = g.index

validateBoat(c, b) ==
  /\ b.named
  /\ \A i \in DOMAIN b.modules :
       /\ Fitting(c, b.hull, b.modules[i])
       /\ \A j \in 1 .. i - 1 : ~SameSlot(b.modules[i], b.modules[j])

\* The problems of a fleet, as a verdict: a name, a boat at least and not too many, all legal.
validateFleet(c, named, boats, most) ==
  /\ named
  /\ Len(boats) \in 1 .. most
  /\ \A i \in DOMAIN boats : validateBoat(c, boats[i])

\* Mutant: takes a stored boat at its word.
repairNothing(c, b) == b

\* What is left of a stored boat under these tables; of two modules in a slot, the first that fits.
Keeping(c, h) ==
  [p \in Seq(FittedModule) \X FittedModule |->
     IF Fitting(c, h, p[2]) /\ ~\E g \in ToSet(p[1]) : SameSlot(p[2], g) THEN Append(p[1], p[2])
     ELSE p[1]]
repairBoat(c, b) == [b EXCEPT !.modules = Folded(Keeping(c, b.hull), <<>>, @)]

---------------------------------------------------------------------------
(* Slots, cost and the statistic.                                          *)

\* Every slot the hull has under these tables, with what is in it.
resolveSlots(c, b) ==
  [s \in SlotsOf(c, b.hull) |->
     LET here == {i \in DOMAIN b.modules : <<b.modules[i].slot, b.modules[i].index>> = s}
         found == b.modules[CHOOSE i \in here : \A j \in here : i <= j].module
     IN IF here # {} /\ found \in Known[c] /\ SlotOf[found] = s[1] THEN found ELSE Empty]

Aboard(c, b) == {s \in SlotsOf(c, b.hull) : resolveSlots(c, b)[s] # Empty}

boatCost(c, b) ==
  HullPrice[b.hull] + SumOver([s \in Aboard(c, b) |-> ModulePrice[resolveSlots(c, b)[s]]], Aboard(c, b))

fleetCost(c, boats) == SumOver([i \in DOMAIN boats |-> boatCost(c, boats[i])], DOMAIN boats)

Joined(lists) == Folded([p \in Seq(Modifier) \X Seq(Modifier) |-> p[1] \o p[2]], <<>>, lists)

\* The modules in the order of their slots, and all that they do.
Stacked(c, b) ==
  LET fitted == resolveSlots(c, b)
  IN Joined([k \in DOMAIN SLOT_KINDS |->
       Joined([i \in 1 .. Slots[c][b.hull][SLOT_KINDS[k]] |->
                 LET m == fitted[<<SLOT_KINDS[k], i - 1>>]
                 IN IF m = Empty THEN <<>> ELSE Modifiers[m]])])

Applied(value, m) ==
  CASE m.op = "set" -> m.value
    [] m.op = "add" -> value + m.value
    [] m.op = "mul" -> value * m.value
    [] m.op = "min" -> IF value < m.value THEN m.value ELSE value
    [] m.op = "max" -> IF value > m.value THEN m.value ELSE value

\* Mutant: each modifier as it comes.
applyAsFitted(base, mods) == Folded([p \in Int \X Modifier |-> Applied(p[1], p[2])], base, mods)

\* The operations one after another, each over all the modifiers that have it.
Pass(op) == [p \in Int \X Modifier |-> IF p[2].op = op THEN Applied(p[1], p[2]) ELSE p[1]]
applyModifiers(base, mods) ==
  Folded([p \in Int \X ToSet(OP_ORDER) |-> Folded(Pass(p[2]), p[1], mods)], base, OP_ORDER)

\* A modifier with no condition counts always, one with a notch counts at that notch.
activeModifiers(mods, notch) == Filtered(mods, {m \in Modifier : m.notch \in {"always", notch}})
liveStatsOf(base, mods, notch) == applyModifiers(base, activeModifiers(mods, notch))
=============================================================================
