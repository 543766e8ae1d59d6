----------------------------- MODULE Listening -----------------------------
(***************************************************************************)
(* One tick of the ocean: what each team is shown of the surfaces sound    *)
(* comes back from.  AcousticSolver.solve, reachOf, reflectionCutoff, look *)
(* and assemble of shared/src/sim/acoustics/solve.ts, with the rules of    *)
(* loudness in shared/src/content/acoustics.ts.                            *)
(*                                                                         *)
(* Levels are powers, as in the solver's inner loops: what is audible is a *)
(* comparison of products.  A solve keeps nothing of the one before but    *)
(* swept fields, and Sound shows that these cannot be told from fresh ones;*)
(* so a field here is a fresh one, and a behaviour is a single solve.      *)
(***************************************************************************)
EXTENDS Sound, TLC

CONSTANTS
  Loss,               \* range -> the power that is left, in parts of Loss[0]; DOMAIN is 0 .. maxRange
  ambientPower,       \* of the ocean, in the units of a source
  BACKGROUND, WHOLE,  \* the share of the sound around that counts against a listener
  THRESHOLD,          \* how far a return must stand out, the gain of the array taken off
  terrainFactor,      \* what rock swallows of a sound, as a factor on what a return has to reach
  maxImagingRange,
  Crews               \* bound: what may be in the water, a set of lists of entities

Teams == {"team1", "team2"}
Nowhere == "none"
Rockface == 0   \* what a square belongs to that is no hull's
Entity == [at : Cell, seed : Nat, emits : Nat, deafens : Nat, hears : BOOLEAN, selfNoise : Nat,
           team : Teams \cup {Nowhere}, hull : SUBSET Cell, absorption : Nat]

farthest == Max(DOMAIN Loss)

ASSUME ListeningAssumption ==
  /\ DOMAIN Loss = 0 .. Cardinality(DOMAIN Loss) - 1
  /\ \A r \in DOMAIN Loss : Loss[r] \in Nat \ {0} /\ (r > 0 => Loss[r] <= Loss[r - 1])
  /\ {ambientPower, BACKGROUND, THRESHOLD, terrainFactor} \subseteq Nat \ {0}
  /\ WHOLE \in Nat /\ BACKGROUND <= WHOLE /\ maxImagingRange \in DOMAIN Loss
  /\ \A crew \in Crews : /\ crew \in Seq(Entity)
                         \* A sound deafens by no more than it is, and absorption is a loss.
                         /\ \A e \in ToSet(crew) : e.deafens <= e.emits /\ e.absorption >= 1

VARIABLES
  entities,   \* what is in the water, by id
  work,       \* of the solve so far: the pass it is at, the fields, the heatmap; or nothing yet
  vision      \* team -> the picture it is sent; or nothing yet

listeningVars == <<soundVars, entities, work, vision>>

---------------------------------------------------------------------------
(* Rules of loudness.                                                      *)

lossFactorAt(r) == IF r < 0 THEN Loss[0] ELSE IF r > farthest THEN Loss[farthest] ELSE Loss[r]

\* What a return is heard over, in WHOLEs of the units of sound that has travelled.
noiseFloorOf(around, selfNoise) == BACKGROUND * around + WHOLE * Loss[0] * (selfNoise + ambientPower)
returnThreshold(around, selfNoise) == THRESHOLD * noiseFloorOf(around, selfNoise)

---------------------------------------------------------------------------
(* Fields.                                                                 *)

Ids == DOMAIN entities
Home(e) == nearestWater(entities[e].at)
Seats == {e \in Ids : entities[e].hears /\ entities[e].team # Nowhere}

\* The least a return has to reach for the keenest listener, in silence.
quietestThreshold == Min({returnThreshold(0, entities[e].selfNoise) : e \in Seats})

\* A source is followed until nobody could hear it directly and it is half the ocean's own noise;
\* a listener as far as it draws reflections.
reachOf(e) ==
  LET heard(r)  == Seats # {} /\ WHOLE * entities[e].emits * lossFactorAt(r) > quietestThreshold
      louder(r) == 2 * entities[e].emits * lossFactorAt(r) > Loss[0] * ambientPower
      followed  == {r \in 1 .. farthest : \A q \in r .. farthest : ~heard(q) /\ ~louder(q)}
      sounding  == IF entities[e].emits = 0 THEN 0 ELSE Min(followed \cup {farthest})
      imaging   == IF entities[e].hears THEN maxImagingRange ELSE 0
  IN Max({sounding, imaging})

Swept(e) == sweepFrom(Home(e), radiusFor(reachOf(e)))

\* How far the sound of an entity travels to each cell, the way to the centre of its own cell
\* included, in the order of the sweep.
FieldOf(e) ==
  LET seed == entities[e].seed
      found == IF reachOf(e) = 0 THEN <<>> ELSE emit(Swept(e).cells, seed, reachOf(e))
  IN [i \in DOMAIN found |-> [cell |-> found[i].cell, range |-> seed + found[i].range]]
Clipped == \E e \in Ids : reachOf(e) > 0 /\ Swept(e).clipped

\* The range at which a field has a cell, as a set of one or none.
Ranges(f, c) == {f[i].range : i \in {j \in DOMAIN f : f[j].cell = c}}

---------------------------------------------------------------------------
(* The heatmap.                                                            *)

\* The faces of rock a cell of water can hear, and the hulls.
RockCells == {nearestWater(c) : c \in rock}
HullsAt(c) == {e \in Ids : \E s \in entities[e].hull : nearestWater(s) = c}

\* Mutant: who listens is forgotten.
stampedReflectors == RockCells \cup UNION {{nearestWater(s) : s \in entities[e].hull} : e \in Ids}

\* The cells that something reads, the only ones the heatmap is written for.
stamped ==
  RockCells \cup UNION {{nearestWater(s) : s \in entities[e].hull} : e \in Ids}
            \cup {Home(e) : e \in {a \in Ids : entities[a].hears}}

Arriving(fields, level, c) ==
  MapThenSumSet(LAMBDA e : level[e] * MapThenSumSet(lossFactorAt, Ranges(fields[e], c)), Ids)

Emitted == [e \in Ids |-> entities[e].emits]
Deafening == [e \in Ids |-> entities[e].deafens]

Heat(fields, level, cells) == [c \in Water |-> IF c \in cells THEN Arriving(fields, level, c) ELSE 0]

---------------------------------------------------------------------------
(* What a listener makes out.  w is the work of the solve so far.          *)

\* The sound around a listener, its own taken out.
around(w, l) ==
  LET own == entities[l].deafens * lossFactorAt(entities[l].seed)
  IN Max({0, w.background[Home(l)] - own})

Reached(w, s, l) == Ranges(w.fields[s], Home(l))

\* A sound heard directly, and what it has to stand out of: everything else.
direct(w, l, s) ==
  LET heard == entities[s].emits * lossFactorAt(Min(Reached(w, s, l)))
      gate  == returnThreshold(Max({0, around(w, l) - heard}), entities[l].selfNoise)
  IN [power |-> WHOLE * heard, gate |-> gate]

\* A range and the cell it leads to may both be off by the way to a centre.
Slack == 2 * CELL

\* How near a source can be to a listener.
NoNearer(w, s, l) ==
  IF Reached(w, s, l) # {} THEN Max({0, Min(Reached(w, s, l)) - Slack})
  ELSE IF w.clipped THEN 0 ELSE reachOf(s)

\* The most sound there can be in a ring a cell wide that begins this far from a listener.
incidentAt(w, l, near) ==
  Min({w.maxIncident,
       Loss[0] * ambientPower
         + MapThenSumSet(LAMBDA s : entities[s].emits
                                      * lossFactorAt(Max({0, NoNearer(w, s, l) - near - CELL})),
                         {s \in Ids : entities[s].emits > 0})})

\* Mutant: the search ends with the first ring that does not clear.
firstCutoff(w, l) ==
  LET threshold == returnThreshold(around(w, l), entities[l].selfNoise)
      weakest   == Min({terrainFactor} \cup {entities[e].absorption : e \in Ids})
      rings     == {r \in 0 .. farthest - 1 : r % CELL = 0}
      clears(r) == WHOLE * incidentAt(w, l, r) * lossFactorAt(r) >= threshold * Loss[0] * weakest
      ends      == {r \in rings : ~clears(r)}
  IN Max({0} \cup {r + CELL : r \in {q \in rings : clears(q) /\ \A n \in ends : q < n}})

\* How far out anything at all could still light up: the farthest ring that clears the weakest
\* gate, short of the first that does not beyond every source.
reflectionCutoff(w, l) ==
  LET threshold == returnThreshold(around(w, l), entities[l].selfNoise)
      weakest   == Min({terrainFactor} \cup {entities[e].absorption : e \in Ids})
      rings     == {r \in 0 .. farthest - 1 : r % CELL = 0}
      clears(r) == WHOLE * incidentAt(w, l, r) * lossFactorAt(r) >= threshold * Loss[0] * weakest
      furthest  == Max({0} \cup {NoNearer(w, s, l) : s \in {a \in Ids : entities[a].emits > 0}})
      ends      == {r \in rings : ~clears(r) /\ r > furthest}
  IN Max({0} \cup {r + CELL : r \in {q \in rings : clears(q) /\ \A n \in ends : q < n}})

\* Mutant: a walk ends at the first cell beyond the cutoff.
WalkedToTheLetter(w, l) ==
  LET f == w.fields[l]
      stopAt == reflectionCutoff(w, l)
      stop == {i \in DOMAIN f : f[i].range >= stopAt}
  IN IF ~w.bounded \/ stop = {} THEN f ELSE SubSeq(f, 1, Min(stop) - 1)

\* The cells the reflection pass comes to: in the order of the field, to the first that lies a
\* cell beyond the cutoff.
Walked(w, l) ==
  LET f == w.fields[l]
      stopAt == reflectionCutoff(w, l) + CELL
      stop == {i \in DOMAIN f : f[i].range >= stopAt}
  IN IF ~w.bounded \/ stop = {} THEN f ELSE SubSeq(f, 1, Min(stop) - 1)

\* What stands out of a gate by the power it has; nothing when it does not clear it.
Lit(owner, c, power, gate) ==
  IF power < gate THEN {} ELSE {[owner |-> owner, at |-> c, excess |-> power \div gate]}

\* The cells of hull that another entity shows by its own noise.
heardDirectly(w, l) ==
  UNION {UNION {Lit(s, c, direct(w, l, s).power, direct(w, l, s).gate) :
                c \in {nearestWater(h) : h \in entities[s].hull}} :
         s \in {a \in Ids \ {l} : Reached(w, a, l) # {} /\ entities[a].emits > 0}}

Straight(c, d) ==
  LET a == OffBy(c, d) IN CELL * Hops(c, d) + (DIAGONAL - CELL) * Min({a.rows, a.cols})

\* What comes back from one cell of a walk.  A hull does not give back its own noise, nor is a
\* listener shown its own.
returns(w, l, threshold, e) ==
  LET back     == lossFactorAt(e.range)
      incident == w.noise[e.cell] + Loss[0] * ambientPower
      mine(o)  == entities[o].emits * lossFactorAt(Straight(e.cell, entities[o].at))
      lit(o)   == Max({0, incident - mine(o)})
  IN (IF e.cell \notin RockCells THEN {}
      ELSE Lit(Rockface, e.cell, WHOLE * incident * back, threshold * Loss[0] * terrainFactor))
     \cup UNION {Lit(o, e.cell, WHOLE * lit(o) * back, threshold * Loss[0] * entities[o].absorption) :
                 o \in HullsAt(e.cell) \ {l}}

makesOut(w, l) ==
  LET threshold == returnThreshold(around(w, l), entities[l].selfNoise)
  IN heardDirectly(w, l) \cup UNION {returns(w, l, threshold, e) : e \in ToSet(Walked(w, l))}

\* The picture of a team: of each square the best that any of its listeners makes out.
look(w, t) ==
  LET lit == UNION {makesOut(w, l) : l \in {s \in Seats : entities[s].team = t}}
  IN {r \in lit : \A o \in lit : (o.owner = r.owner /\ o.at = r.at) => o.excess <= r.excess}

---------------------------------------------------------------------------
(* The solve, in its passes.                                               *)

Heated(fields, cells) ==
  LET noise == Heat(fields, Emitted, cells)
  IN [noise |-> noise, background |-> Heat(fields, Deafening, cells),
      maxIncident |-> Max({noise[c] : c \in Water}) + Loss[0] * ambientPower]

InitListening ==
  /\ InitSound
  /\ entities \in Crews
  /\ work = <<>>
  /\ vision = <<>>

fieldsPass ==
  /\ work = <<>>
  /\ work' = [pass |-> "fields", fields |-> [e \in Ids |-> FieldOf(e)], clipped |-> Clipped]
  /\ UNCHANGED <<soundVars, entities, vision>>

heatmapPass ==
  /\ work # <<>> /\ work.pass = "fields"
  /\ work' = [pass |-> "look", bounded |-> TRUE]
               @@ Heated(work.fields, stamped) @@ work
  /\ UNCHANGED <<soundVars, entities, vision>>

lookPass ==
  /\ work # <<>> /\ work.pass = "look" /\ vision = <<>>
  /\ vision' = [t \in Teams |-> look(work, t)]
  /\ UNCHANGED <<soundVars, entities, work>>

NextListening == fieldsPass \/ heatmapPass \/ lookPass
SpecListening == InitListening /\ [][NextListening]_listeningVars

---------------------------------------------------------------------------
(* Properties.                                                             *)

\* The two shortcuts, a heatmap that is written only where something reads it and a walk that stops
\* where nothing could light any more, change no picture: not a square is dropped, and none has
\* another brightness (reflectionBound: "it cannot drop a square").
ShortcutsChangeNothing ==
  vision # <<>> =>
    LET whole == Heated(work.fields, Water) @@ [work EXCEPT !.bounded = FALSE]
    IN vision = [t \in Teams |-> look(whole, t)]

\* What is kept, used again or passed over to save work cannot be told from the answers.
SoundIsExact == FieldsAreExact /\ ShortcutsChangeNothing
=============================================================================
