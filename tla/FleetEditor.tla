---------------------------- MODULE FleetEditor ----------------------------
(***************************************************************************)
(* Building a fleet: the editor's working copy (client/src/state/fleet.ts) *)
(* and the saved fleets of an account behind the routes that read and      *)
(* write them (server/src/http/routes/fleets.ts, db/repos/fleets.ts).      *)
(*                                                                         *)
(* The player goes on editing while calls are under way, and begins more   *)
(* of them: the screen holds back a second save, never a load, a deletion  *)
(* or the list.  The server may serve calls in any order and the page may  *)
(* take their answers in any other; any call may fail for the page before  *)
(* the server acts on it, or after, and a write the page has given up may  *)
(* still be served.  A release replaces the server and the page, with new  *)
(* content tables over the fleets stored under the old ones.               *)
(***************************************************************************)
EXTENDS FleetRules

CONSTANTS
  FleetIds,                \* what an id may be; one that nothing refers to any more may be new again
  FLEET_MAX_BOATS,
  MAX_FLEETS_PER_ACCOUNT,
  Wires,                   \* how many calls there is room for
  Desks                    \* bounds: how many edits, of which kinds, the calls under way at once,
                           \* the last release; the engine

Wire == 1 .. Wires
EditKind == {"new", "names", "boats", "modules"}

ASSUME FleetsAssumption ==
  /\ FLEET_MAX_BOATS \in Nat \ {0} /\ MAX_FLEETS_PER_ACCOUNT \in Nat \ {0}
  /\ Empty \notin FleetIds /\ Wires \in Nat
  /\ Desks # {}
  /\ Desks \subseteq [edits : Nat, kinds : SUBSET EditKind, calls : Nat, last : Release,
                      engine : {"sync", "async"}]

VARIABLES
  desk,       \* which of the Desks this is
  release,    \* which content tables server and page were built with
  rows,       \* fleet id -> what is stored for it
  draft,      \* the working copy
  saved,      \* the ids of the list the page last got
  requests,   \* the calls under way
  busy,       \* the page shows that a save, a load or a deletion is under way
  loading,    \* it shows that the list is
  edits       \* how many edits there have been

editorVars == <<desk, release, rows, draft, saved, requests, busy, loading, edits>>

\* crossed is history: the draft was taken from an answer that a save had been under way beside.
Row == [named : BOOLEAN, boats : Seq(BoatTemplate), points : Nat, under : Release]
Draft == [named : BOOLEAN, boats : Seq(BoatTemplate), savedId : FleetIds \cup {Empty},
          selected : Nat, dirty : BOOLEAN, crossed : BOOLEAN]

EMPTY == [named |-> TRUE, boats |-> <<>>, savedId |-> Empty, selected |-> 0, dirty |-> FALSE,
          crossed |-> FALSE]

\* A relist is the list that a save or a deletion ends with; the page that has given a call up
\* no longer waits for it.
Call == [op : {"none", "create", "update", "load", "remove", "list", "relist"},
         stage : {"sent", "counted", "answered", "failed"}, id : FleetIds \cup {Empty},
         named : BOOLEAN, boats : Seq(BoatTemplate), ids : SUBSET FleetIds,
         waits : BOOLEAN, crossed : BOOLEAN]
Idle == [op |-> "none", stage |-> "answered", id |-> Empty, named |-> TRUE, boats |-> <<>>, ids |-> {},
         waits |-> TRUE, crossed |-> FALSE]
Stored == DOMAIN rows
Underway == {w \in Wire : requests[w] # Idle}

InitEditor ==
  /\ desk \in Desks /\ release = 1
  /\ rows = <<>> /\ draft = EMPTY /\ saved = {} /\ requests = [w \in Wire |-> Idle]
  /\ busy = FALSE /\ loading = FALSE /\ edits = 0

---------------------------------------------------------------------------
(* The editor.  A selection of 0 is none, otherwise an index, which may be  *)
(* left over from a longer fleet: the screen then shows no boat.           *)

Edited(d) == draft' = [d EXCEPT !.dirty = TRUE]

anEdit ==
  /\ edits < desk.edits /\ edits' = edits + 1
  /\ UNCHANGED <<desk, release, rows, saved, requests, busy, loading>>

newFleet == draft' = EMPTY

setFleetName(ok) == ~busy /\ Edited([draft EXCEPT !.named = ok])

\* Mutant: one boat more than a fleet may have.
addBoatPastLimit(h) ==
  Edited([draft EXCEPT !.boats = Append(@, [hull |-> h, named |-> TRUE, modules |-> <<>>]),
                       !.selected = Len(draft.boats) + 1])

addBoat(h) ==
  /\ Len(draft.boats) < FLEET_MAX_BOATS
  /\ Edited([draft EXCEPT !.boats = Append(@, [hull |-> h, named |-> TRUE, modules |-> <<>>]),
                          !.selected = Len(draft.boats) + 1])

removeBoat(i) ==
  LET next == RemoveAt(draft.boats, i)
  IN Edited([draft EXCEPT !.boats = next,
                          !.selected = IF @ > Len(next) THEN Len(next) ELSE @])

selectBoat(i) == draft' = [draft EXCEPT !.selected = i]

renameBoat(i, ok) == Edited([draft EXCEPT !.boats[i].named = ok])

Without(modules, s) == Filtered(modules, {f \in FittedModule : <<f.slot, f.index>> # s})

\* Mutant: one more module, and what was in the slot stays.
Appended(modules, s, m) == Append(modules, [slot |-> s[1], index |-> s[2], module |-> m])

\* One module per slot: a module replaces what was there.
Refitted(modules, s, m) == Append(Without(modules, s), [slot |-> s[1], index |-> s[2], module |-> m])

fitModule(s, m) ==
  Edited([draft EXCEPT !.boats[draft.selected].modules = Refitted(@, s, m)])

clearSlot(s) ==
  Edited([draft EXCEPT !.boats[draft.selected].modules = Without(@, s)])

\* The screen offers the slots the hull has and the modules that fit each.
editing ==
  /\ anEdit
  /\ \/ "new" \in desk.kinds /\ newFleet
     \/ /\ "names" \in desk.kinds
        /\ \E ok \in BOOLEAN : setFleetName(ok) \/ \E i \in DOMAIN draft.boats : renameBoat(i, ok)
     \/ /\ "boats" \in desk.kinds
        /\ \/ \E h \in Hull : addBoat(h)
           \/ \E i \in DOMAIN draft.boats : removeBoat(i) \/ selectBoat(i)
     \/ /\ "modules" \in desk.kinds /\ draft.selected \in DOMAIN draft.boats
        /\ \E s \in SlotsOf(release, draft.boats[draft.selected].hull) :
             clearSlot(s) \/ \E m \in Known[release] : SlotOf[m] = s[1] /\ fitModule(s, m)

---------------------------------------------------------------------------
(* Calls, as the page makes them.                                          *)

\* An update the server has not served: it may do so before or after any other call.
Pending(k) == k.op = "update" /\ k.stage = "sent"

Begun(c) == [c EXCEPT !.stage = "sent", !.waits = TRUE,
                      !.crossed = \E v \in Wire : Pending(requests[v]) /\ requests[v].id = c.id]

\* The call takes the first wire that is free; an update crosses whatever else is under way for
\* its fleet.
begin(c) ==
  /\ Cardinality(Underway) < desk.calls
  /\ \E w \in Wire \ Underway :
       /\ \A v \in 1 .. w - 1 : v \in Underway
       /\ requests' = [v \in Wire |->
            IF v = w THEN Begun(c)
            ELSE [requests[v] EXCEPT !.crossed = @ \/ (c.op = "update" /\ requests[v].id = c.id)]]
  /\ UNCHANGED <<desk, release, rows, saved, edits>>

saveFleet ==
  /\ ~busy /\ draft.boats # <<>>
  /\ begin([Idle EXCEPT !.op = IF draft.savedId = Empty THEN "create" ELSE "update",
                        !.id = draft.savedId, !.named = draft.named, !.boats = draft.boats])
  /\ busy' = TRUE /\ UNCHANGED <<draft, loading>>

\* The list is on the screen, whatever else is under way.
choose(op) ==
  /\ ~loading /\ \E id \in saved : begin([Idle EXCEPT !.op = op, !.id = id])
  /\ busy' = TRUE /\ UNCHANGED <<draft, loading>>
loadFleet == choose("load")
deleteFleet == choose("remove")

refreshSaved == begin([Idle EXCEPT !.op = "list"]) /\ loading' = TRUE /\ UNCHANGED busy

\* The list is read on every visit; a visit that finds no name on the draft starts a new fleet.
openPicker == refreshSaved /\ UNCHANGED draft
openEditor == refreshSaved /\ (draft' = draft \/ (~draft.named /\ newFleet))

---------------------------------------------------------------------------
(* Calls, as the server serves them.                                       *)

\* What becomes of call k at wire w; nobody takes the answer of one the page has given up.
ends(w, k) == requests' = [requests EXCEPT ![w] = IF k.waits THEN k ELSE Idle]
answers(w, k) == ends(w, [k EXCEPT !.stage = "answered"])
refuses(w) == ends(w, [requests[w] EXCEPT !.stage = "failed"])

Written(named, boats) ==
  [named |-> named, boats |-> boats, points |-> fleetCost(release, boats), under |-> release]

readSaveRequest(k) == validateFleet(release, k.named, k.boats, FLEET_MAX_BOATS)
Repaired(k) == [i \in DOMAIN k.boats |-> repairBoat(release, k.boats[i])]

toFleet(row) == [i \in DOMAIN row.boats |-> repairBoat(release, row.boats[i])]

\* Mutant: counts up to one too many.
FullLate == Cardinality(Stored) > MAX_FLEETS_PER_ACCOUNT
Full == Cardinality(Stored) >= MAX_FLEETS_PER_ACCOUNT

\* Ids are never given twice: one that anything still refers to is not new.
Fresh ==
  FleetIds \ (Stored \cup saved \cup {draft.savedId}
                \cup UNION {requests[w].ids \cup {requests[w].id} : w \in Wire})

\* The count and the insertion are two calls of the database.
count(w) ==
  LET k == requests[w]
  IN /\ k.op = "create" /\ k.stage = "sent" /\ UNCHANGED rows
     /\ IF ~readSaveRequest(k) \/ Full THEN refuses(w)
        ELSE requests' = [requests EXCEPT ![w].stage = "counted"]

create(w) ==
  LET k == requests[w]
  IN /\ k.op = "create" /\ k.stage = "counted"
     /\ \E id \in Fresh :
          /\ rows' = [f \in Stored \cup {id} |-> IF f = id THEN Written(k.named, Repaired(k)) ELSE rows[f]]
          /\ answers(w, [k EXCEPT !.id = id, !.boats = Repaired(k)])

update(w) ==
  LET k == requests[w]
  IN /\ k.op = "update" /\ k.stage = "sent"
     /\ IF ~readSaveRequest(k) \/ k.id \notin Stored
        THEN refuses(w) /\ UNCHANGED rows
        ELSE /\ rows' = [rows EXCEPT ![k.id] = Written(k.named, Repaired(k))]
             /\ answers(w, [k EXCEPT !.boats = Repaired(k)])

remove(w) ==
  LET k == requests[w]
  IN /\ k.op = "remove" /\ k.stage = "sent"
     /\ IF k.id \notin Stored THEN refuses(w) /\ UNCHANGED rows
        ELSE rows' = [id \in Stored \ {k.id} |-> rows[id]] /\ answers(w, k)

load(w) ==
  LET k == requests[w]
  IN /\ k.op = "load" /\ k.stage = "sent" /\ UNCHANGED rows
     /\ IF k.id \notin Stored THEN refuses(w)
        ELSE answers(w, [k EXCEPT !.boats = toFleet(rows[k.id]), !.named = rows[k.id].named])

list(w) ==
  /\ requests[w].op \in {"list", "relist"} /\ requests[w].stage = "sent" /\ UNCHANGED rows
  /\ answers(w, [requests[w] EXCEPT !.ids = Stored])

\* With the synchronous engine nothing is served between a count and its insertion.
ServerTurn(w) == desk.engine = "sync" => \A v \in Wire \ {w} : requests[v].stage # "counted"

serve(w) ==
  /\ ServerTurn(w)
  /\ count(w) \/ create(w) \/ update(w) \/ remove(w) \/ load(w) \/ list(w)
  /\ UNCHANGED <<desk, release, draft, saved, busy, loading, edits>>

---------------------------------------------------------------------------
(* Answers, as the page takes them.                                        *)

\* Mutant: what was edited meanwhile stays, and counts as saved.
AdoptedInName(d, c) ==
  [d EXCEPT !.savedId = c.id, !.named = c.named, !.dirty = FALSE, !.crossed = c.crossed]

\* The page takes over what the server stored, whatever has been edited since.
Adopted(d, c) ==
  [d EXCEPT !.savedId = c.id, !.named = c.named, !.boats = c.boats, !.dirty = FALSE,
            !.crossed = c.crossed]

Loaded(c) == [named |-> c.named, boats |-> c.boats, savedId |-> c.id, dirty |-> FALSE,
              crossed |-> c.crossed, selected |-> IF c.boats = <<>> THEN 0 ELSE 1]

\* The fleet that is open was deleted: the draft stays, and belongs to no saved fleet.
Detached(d, id) == IF d.savedId = id THEN [d EXCEPT !.savedId = Empty, !.dirty = TRUE] ELSE d

\* The end of any call but the list clears what shows that one is under way, whichever it was.
shownAfter(k) ==
  /\ busy' = (busy /\ k.op = "list")
  /\ loading' = (loading /\ k.op \notin {"list", "relist"})

takeAnswer(w) ==
  LET k == requests[w]
  IN /\ k # Idle /\ k.stage = "answered"
     /\ draft' = CASE k.op \in {"create", "update"} -> Adopted(draft, k)
                   [] k.op = "load"   -> Loaded(k)
                   [] k.op = "remove" -> Detached(draft, k.id)
                   [] OTHER -> draft
     /\ saved' = IF k.op \in {"list", "relist"} THEN k.ids ELSE saved
     \* A save and a deletion end with the list being read again.
     /\ IF k.op \in {"create", "update", "remove"}
        THEN /\ requests' = [requests EXCEPT ![w] = [Idle EXCEPT !.op = "relist", !.stage = "sent"]]
             /\ loading' = TRUE /\ UNCHANGED busy
        ELSE requests' = [requests EXCEPT ![w] = Idle] /\ shownAfter(k)
     /\ UNCHANGED <<desk, release, rows, edits>>

\* The call failed for the page: it never reached the server, or the server has yet to serve it,
\* or has answered.
takeFailure(w) ==
  LET k == requests[w]
  IN /\ k # Idle /\ k.waits /\ shownAfter(k)
     /\ \/ k.stage # "counted" /\ requests' = [requests EXCEPT ![w] = Idle]
        \/ /\ k.stage \in {"sent", "counted"} /\ k.op \in {"create", "update", "remove"}
           /\ requests' = [requests EXCEPT ![w].waits = FALSE]
     /\ UNCHANGED <<desk, release, rows, draft, saved, edits>>

\* A new release: the server and the page start again, and only the rows are left.
upgrade ==
  /\ release < desk.last /\ release + 1 \in Release /\ release' = release + 1
  /\ draft' = EMPTY /\ saved' = {} /\ requests' = [w \in Wire |-> Idle]
  /\ busy' = FALSE /\ loading' = FALSE
  /\ UNCHANGED <<desk, rows, edits>>

NextEditor ==
  \/ editing
  \/ saveFleet \/ loadFleet \/ deleteFleet \/ openPicker \/ openEditor
  \/ \E w \in Wire : serve(w) \/ takeAnswer(w) \/ takeFailure(w)
  \/ upgrade

SpecEditor == InitEditor /\ [][NextEditor]_editorVars

---------------------------------------------------------------------------
(* Properties.                                                             *)

EditorTypeOK ==
  /\ desk \in Desks /\ release \in Release
  /\ Stored \subseteq FleetIds /\ \A id \in Stored : rows[id] \in Row
  /\ draft \in Draft /\ draft.selected <= FLEET_MAX_BOATS /\ Len(draft.boats) <= FLEET_MAX_BOATS
  /\ saved \subseteq FleetIds
  /\ requests \in [Wire -> Call] /\ busy \in BOOLEAN /\ loading \in BOOLEAN

\* The editor never builds a boat that the server refuses, other than for its name: whatever
\* was fitted, cleared, loaded or adopted before, and though boats come and go meanwhile
\* (fitModule: "so the editor can never build a fleet the server refuses").
EditorIsNeverRefused ==
  \A i \in DOMAIN draft.boats :
    validateBoat(release, [draft.boats[i] EXCEPT !.named = TRUE])

\* The draft's content is what is stored, and its price the stored one if it was priced by these
\* tables.
DraftIsStored ==
  LET row == rows[draft.savedId]
  IN /\ draft.named = row.named /\ draft.boats = toFleet(row)
     /\ row.under = release => row.points = fleetCost(release, draft.boats)

\* A draft that says nothing is unsaved is what is stored, as long as the fleet is there: whatever
\* calls are under way, through edits during a save, answers in any order, calls that failed for
\* the page and were served after all, and deletions.  Excepted is the draft that was taken from
\* an answer beside which a save of the same fleet was under way: the page has no way to tell
\* which of the two was served last (loadFleet, saveFleet).
CleanMeansStored == (~draft.dirty /\ ~draft.crossed /\ draft.savedId \in Stored) => DraftIsStored

\* What the server stores of a save is what the player sent: the repair of what comes in takes
\* nothing off a boat that was built under the same tables (readSaveRequest).
SavesKeepEverything ==
  \A w \in Wire : requests[w].op \in {"create", "update"} => Repaired(requests[w]) = requests[w].boats

\* However the saves of an account overlap, it never has more fleets than it may, with a database
\* that answers before the next request is served.
FleetsAreCapped == desk.engine = "sync" => Cardinality(Stored) <= MAX_FLEETS_PER_ACCOUNT

\* Every stored fleet loads as one that may be saved again and deployed, whichever release
\* stored it (toFleet and repairBoat).
StoredFleetsLoad ==
  \A id \in Stored : validateFleet(release, rows[id].named, toFleet(rows[id]), FLEET_MAX_BOATS)

\* What a boat can do does not depend on which slot a module was put in, at any throttle
\* (applyModifiers: the operations are grouped).
StackingIsOrderless ==
  \A b \in ToSet(draft.boats) :
    b.modules # <<>> =>
      LET mods == Stacked(release, b)
      IN \A notch \in Notch :
           liveStatsOf(HullStat[b.hull], mods, notch) = liveStatsOf(HullStat[b.hull], Reverse(mods), notch)

\* A fleet means the same wherever it is: to the editor that built it, the server that takes it,
\* the rows that keep it and the release that loads it again; and there are not too many.
FleetsAreSound ==
  /\ EditorIsNeverRefused /\ CleanMeansStored /\ SavesKeepEverything /\ FleetsAreCapped
  /\ StoredFleetsLoad /\ StackingIsOrderless
=============================================================================
