------------------------------- MODULE Sound -------------------------------
(***************************************************************************)
(* How far a sound has travelled to reach each part of the water: the      *)
(* lattice of shared/src/sim/acoustics/lattice.ts and the fields swept     *)
(* over it by the arena of shared/src/sim/acoustics/field.ts, which keeps  *)
(* the latest of them.                                                     *)
(*                                                                         *)
(* Lengths are whole numbers: a step is CELL long, a diagonal DIAGONAL.    *)
(* The typed arrays, their growth and the offsets into them are sequences. *)
(***************************************************************************)
EXTENDS Integers, FiniteSets, FiniteSetsExt, SequencesExt

CONSTANTS
  Cols, Rows,       \* the lattice
  Caverns,          \* which of its cells may be rock, a set of sets
  CELL, DIAGONAL,   \* the two lengths of a step
  maxFieldCells,    \* no field has more cells
  cacheCells,       \* what the cache may hold, in cells
  Sources, Seeds, Lengths  \* bound: where a sound is, how far off the centre of its cell, how loud

Cell == 0 .. Cols * Rows - 1
col(c) == c % Cols
row(c) == c \div Cols

ASSUME SoundAssumption ==
  /\ {Cols, Rows, CELL, maxFieldCells, cacheCells} \subseteq Nat \ {0}
  /\ DIAGONAL \in CELL .. 2 * CELL - 1
  /\ Caverns \subseteq SUBSET Cell /\ Sources \subseteq Cell
  /\ Seeds \cup Lengths \subseteq Nat

VARIABLES
  rock,         \* the cells that are rock
  cache,        \* the swept fields that are kept, least recently used first
  cachedCells,  \* how many cells they hold, as the arena counts them
  field         \* the field that was handed out last, and what was asked for

soundVars == <<rock, cache, cachedCells, field>>

Water == Cell \ rock
Unreached == DIAGONAL * Cols * Rows + 1

---------------------------------------------------------------------------
(* The lattice.                                                            *)

OffBy(c, d) == LET off(x, y) == IF x < y THEN y - x ELSE x - y
               IN [rows |-> off(row(c), row(d)), cols |-> off(col(c), col(d))]
Hops(c, d) == Max({OffBy(c, d).rows, OffBy(c, d).cols})

\* The water a place is heard from: its own cell, or of the cells fewest hops away a fixed one.
nearestWater(c) == CHOOSE w \in Water : \A v \in Water : Hops(c, w) <= Hops(c, v)

NEIGHBOUR == << <<-1, -1>>, <<-1, 0>>, <<-1, 1>>, <<0, -1>>, <<0, 1>>, <<1, -1>>, <<1, 0>>, <<1, 1>> >>

\* Mutant: a diagonal step is one between cells of water.
mayStepAnyhow(c, n) ==
  LET r == row(c) + n[1]  k == col(c) + n[2]
  IN r \in 0 .. Rows - 1 /\ k \in 0 .. Cols - 1 /\ r * Cols + k \in Water

\* On the map, in water, and round no corner of rock.
mayStep(c, n) ==
  LET r == row(c) + n[1]  k == col(c) + n[2]
  IN /\ r \in 0 .. Rows - 1 /\ k \in 0 .. Cols - 1
     /\ {r * Cols + k, row(c) * Cols + k, r * Cols + col(c)} \subseteq Water

steps(c) == SelectSeq(NEIGHBOUR, LAMBDA n : mayStep(c, n))
offset(n) == n[1] * Cols + n[2]
length(n) == IF n[1] # 0 /\ n[2] # 0 THEN DIAGONAL ELSE CELL

---------------------------------------------------------------------------
(* One sweep: Dijkstra with a queue of buckets.                            *)

bucket(key) == key \div CELL

\* The last that is pushed is the first of its bucket.
push(s, c, key) ==
  [s EXCEPT !.distance[c] = key,
            !.buckets[bucket(key)] = <<[cell |-> c, key |-> key]>> \o @]

relax(s, e, n, radius) ==
  LET next == e.cell + offset(n)
      step == e.key + length(n)
  IN IF step > radius \/ step >= s.distance[next] THEN s ELSE push(s, next, step)

\* Mutant: an entry is taken as it comes, also when the cell has been improved on since.
popStale(s, e, radius) ==
  IF s.clipped THEN s
  ELSE IF Len(s.cells) >= maxFieldCells THEN [s EXCEPT !.clipped = TRUE]
  ELSE FoldLeft(LAMBDA t, n : relax(t, e, n, radius),
                [s EXCEPT !.cells = Append(@, [cell |-> e.cell, range |-> e.key])], steps(e.cell))

\* An entry that is not its cell's last word is passed over; a cell too many ends the sweep.
pop(s, e, radius) ==
  IF s.clipped \/ e.key > s.distance[e.cell] THEN s
  ELSE IF Len(s.cells) >= maxFieldCells THEN [s EXCEPT !.clipped = TRUE]
  ELSE FoldLeft(LAMBDA t, n : relax(t, e, n, radius),
                [s EXCEPT !.cells = Append(@, [cell |-> e.cell, range |-> e.key])], steps(e.cell))

\* The buckets are drained in turn; what is pushed onto one while it is drained is not seen.
sweepFrom(start, radius) ==
  LET last  == radius \div CELL + 1
      blank == [distance |-> [c \in Cell |-> Unreached], buckets |-> [b \in 0 .. last |-> <<>>],
                cells |-> <<>>, clipped |-> FALSE]
      drain(s, b) == FoldLeft(LAMBDA t, e : pop(t, e, radius), s, s.buckets[b])
      swept == FoldLeft(drain, push(blank, start, 0), [i \in 1 .. last + 1 |-> i - 1])
  IN [cells |-> swept.cells, clipped |-> swept.clipped]

\* What a sweep found, less what the way to the centre of the first cell puts out of range.
emit(cells, seed, maxRange) == SelectSeq(cells, LAMBDA c : seed + c.range <= maxRange)

---------------------------------------------------------------------------
(* The arena.                                                              *)

\* The radius a range is swept at: two cells at a time.
radiusFor(maxRange) == 2 * CELL * ((maxRange + 2 * CELL - 1) \div (2 * CELL))

Others(start) == SelectSeq(cache, LAMBDA f : f.start # start)
Held(start) == SelectSeq(cache, LAMBDA f : f.start = start)
Count(fs) == FoldLeft(LAMBDA n, f : n + Len(f.cells), 0, fs)

\* Mutant: a field that is kept answers whatever is asked from its cell.
reusableAnyway(start, maxRange) == Held(start) # <<>>

\* A field that is kept answers for every range up to its own.
reusable(start, maxRange) == Held(start) # <<>> /\ Held(start)[1].radius >= maxRange

\* The oldest go until there is room.
Evicted(fs, held, count) ==
  LET enough(k) == held - Count(SubSeq(fs, 1, k)) + count <= cacheCells
      gone == CHOOSE k \in 0 .. Len(fs) : /\ enough(k) \/ k = Len(fs)
                                          /\ \A j \in 0 .. k - 1 : ~enough(j)
  IN [kept |-> SubSeq(fs, gone + 1, Len(fs)), held |-> held - Count(SubSeq(fs, 1, gone))]

\* Mutant: what is replaced stays counted.
storeOnTop(start, radius, cells) ==
  LET room  == Evicted(Others(start), cachedCells, Len(cells))
  IN IF Len(cells) > cacheCells THEN cache' = Others(start) /\ cachedCells' = cachedCells
     ELSE /\ cache' = Append(room.kept, [start |-> start, radius |-> radius, cells |-> cells])
          /\ cachedCells' = room.held + Len(cells)

\* The new field replaces the one from the same cell, and the oldest until it fits; one that never
\* would is not kept.
store(start, radius, cells) ==
  LET held  == cachedCells - Count(Held(start))
      room  == Evicted(Others(start), held, Len(cells))
  IN IF Len(cells) > cacheCells THEN cache' = Others(start) /\ cachedCells' = held
     ELSE /\ cache' = Append(room.kept, [start |-> start, radius |-> radius, cells |-> cells])
          /\ cachedCells' = room.held + Len(cells)

HandedOut(start, seed, maxRange, swept) ==
  [start |-> start, seed |-> seed, maxRange |-> maxRange,
   cells |-> emit(swept.cells, seed, maxRange), clipped |-> swept.clipped]

\* A field that is kept is used again, and is the latest used then; one that was cut short is not
\* kept, as it is no part of what a sweep of a shorter range would find.
solveField(at, seed, maxRange) ==
  LET start == nearestWater(at)
      swept == sweepFrom(start, radiusFor(maxRange))
      kept  == Held(start)[1]
  IN /\ IF reusable(start, maxRange)
        THEN /\ cache' = Append(Others(start), kept)
             /\ field' = HandedOut(start, seed, maxRange, [cells |-> kept.cells, clipped |-> FALSE])
             /\ UNCHANGED cachedCells
        ELSE /\ IF swept.clipped THEN UNCHANGED <<cache, cachedCells>>
                ELSE store(start, radiusFor(maxRange), swept.cells)
             /\ field' = HandedOut(start, seed, maxRange, swept)
     /\ UNCHANGED rock

InitSound ==
  /\ rock \in Caverns
  /\ cache = <<>> /\ cachedCells = 0
  /\ field = HandedOut(0, 0, 0, [cells |-> <<>>, clipped |-> TRUE])

NextSound == \E at \in Sources, seed \in Seeds, maxRange \in Lengths : solveField(at, seed, maxRange)
SpecSound == InitSound /\ [][NextSound]_soundVars

---------------------------------------------------------------------------
(* Properties.                                                             *)

\* Side by side with water between, whichever way one looks; and how far from each other.
Beside(c, d) ==
  /\ c # d /\ Hops(c, d) = 1
  /\ {c, d, row(c) * Cols + col(d), row(d) * Cols + col(c)} \subseteq Water
StepOf(c, d) == IF row(c) # row(d) /\ col(c) # col(d) THEN DIAGONAL ELSE CELL

\* A field holds the water within its range, each cell once and as far as the shortest way to it
\* through water is long: every range but the first is that of a cell beside it and the step
\* between, and none is longer than by any other cell.  It is in order to within a cell, the cell
\* of the sound first.  The buckets are no approximation (field.ts); a field that was cut short
\* holds less, and nothing wrong.
FieldIsExact ==
  LET cells == field.cells
      truly == [c \in {cells[i].cell : i \in DOMAIN cells} |->
                  (CHOOSE e \in ToSet(cells) : e.cell = c).range]
      found == DOMAIN truly
  IN cells # <<>> =>
       /\ \A i, j \in DOMAIN cells : i < j => /\ cells[i].cell # cells[j].cell
                                             /\ cells[i].range - CELL < cells[j].range
       /\ cells[1] = [cell |-> field.start, range |-> 0]
       /\ \A c \in found \ {field.start} :
            \E b \in found : Beside(b, c) /\ truly[c] = truly[b] + StepOf(b, c)
       /\ \A b \in found : \A c \in {w \in Water : Beside(b, w)} :
            /\ c \in found => truly[c] <= truly[b] + StepOf(b, c)
            /\ field.seed + truly[b] + StepOf(b, c) <= field.maxRange => c \in found \/ field.clipped
       /\ \A c \in found : field.seed + truly[c] <= field.maxRange

\* Whether a field was swept for the question or kept from another, one of longer range or from
\* another place in the cell, cannot be told from it: the same cells, in the same order, and cut
\* short or not (field.ts: "the cache is unobservable").
CacheIsUnobservable ==
  field.maxRange > 0 =>
    field = HandedOut(field.start, field.seed, field.maxRange,
                      sweepFrom(field.start, radiusFor(field.maxRange)))

\* The arena's count of what it keeps is right, and within what it may keep; a cell has one field.
CacheKeepsItsBudget ==
  /\ cachedCells = Count(cache) /\ cachedCells <= cacheCells
  /\ \A i, j \in DOMAIN cache : cache[i].start = cache[j].start => i = j

FieldsAreExact == FieldIsExact /\ CacheIsUnobservable /\ CacheKeepsItsBudget
=============================================================================
