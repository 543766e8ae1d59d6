------------------------------- MODULE Lobby -------------------------------
(***************************************************************************)
(* The lobby registry of the server (server/src/lobby/service.ts) together *)
(* with the asynchronous edge around it: fleet lookups made for a          *)
(* selection, re-reads made after a saved fleet is written or deleted      *)
(* (server/src/lobby/handler.ts, server/src/http/routes/fleets.ts), and    *)
(* the roster a start captures before the fleets are loaded.               *)
(*                                                                         *)
(* A request the service refuses changes nothing, so refusals are not      *)
(* steps.  Names, map and mode settings are left out: no rule reads them.  *)
(***************************************************************************)
EXTENDS Naturals, FiniteSets

CONSTANTS
  Account, LobbyId, JoinCode,
  Fleet,          \* ids of saved fleets
  OwnerOf,        \* the account each fleet row belongs to
  FleetName,      \* what a save may change besides the cost
  Points,         \* costs a fleet may have
  PlayerCaps, DefaultCap,
  Budgets, DefaultBudget,
  Visibility,     \* "public", and "unlisted" where joining by id is of interest
  SpectatorCap, Cooldown,
  SyncStore,      \* TRUE: the SQLite engine, whose answers arrive before the next request
  ReadsMayFail,   \* TRUE: a re-read of a fleet may reject
  MaxClock,       \* bound on time
  MaxLookups,     \* bound on lookups in flight
  None

Position == {"team1", "team2", "spectator"}
Team == Position \ {"spectator"}
\* The part of a fleet row a lobby reads.
FleetRow == [name : FleetName, points : Points]
SelectedFleet == [id : Fleet, name : FleetName, points : Points]
Member == [position : Position, joinedAt : Nat, fleet : SelectedFleet \cup {None}, ready : BOOLEAN]
Settings == [maxPlayers : PlayerCaps, fleetPoints : Budgets, visibility : Visibility]
LobbyRecord == [host : Account, code : JoinCode, settings : Settings,
                members : [Account -> Member \cup {None}]]

\* A read that is under way: what it was for, and the row it found.
Lookup == [op : {"select", "resync"}, account : Account, fleet : Fleet,
           row : SelectedFleet \cup {None}]

\* What a start takes with it: the budget, and the fleet each player brings.
StartOrder == [budget : Budgets, roster : [Account -> Fleet \cup {None}]]

ASSUME LobbyAssumption ==
  /\ PlayerCaps \subseteq {n \in Nat : n > 0 /\ n % 2 = 0} /\ DefaultCap \in PlayerCaps
  /\ Budgets \subseteq Nat /\ DefaultBudget \in Budgets
  /\ "public" \in Visibility /\ Points \subseteq Nat
  /\ SpectatorCap \in Nat /\ Cooldown \in Nat /\ MaxClock \in Nat /\ MaxLookups \in Nat
  /\ OwnerOf \in [Fleet -> Account]
  /\ SyncStore \in BOOLEAN /\ ReadsMayFail \in BOOLEAN

ASSUME NoneAssumption ==
  /\ None \notin Account /\ None \notin LobbyId /\ None \notin Fleet /\ None \notin Nat
  /\ None \notin Member /\ None \notin LobbyRecord /\ None \notin SelectedFleet
  /\ None \notin FleetRow /\ None \notin StartOrder

ASSUME AccountsFinite == IsFiniteSet(Account)

VARIABLES
  lobbies,        \* lobby id -> lobby, or None
  byCode,         \* join code -> lobby id, or None
  membership,     \* account -> the one lobby it is in, or None
  lastCreatedAt,  \* account -> when it last created a lobby, or None
  rows,           \* fleet id -> its stored row, or None once deleted
  lookups,        \* reads under way
  start,          \* a start whose fleets are being loaded, or None
  clock

registry == <<lobbies, byCode, membership>>
vars == <<lobbies, byCode, membership, lastCreatedAt, rows, lookups, start, clock>>

---------------------------------------------------------------------------
(* Queries over the members of a lobby.                                    *)

Occupants(members) == {a \in Account : members[a] # None}
At(members, p) == {a \in Occupants(members) : members[a].position = p}
Players(members) == {a \in Occupants(members) : members[a].position # "spectator"}

playerCount(members) == Cardinality(Players(members))
positionCount(members, p) == Cardinality(At(members, p))
teamCapacity(maxPlayers) == maxPlayers \div 2

everyoneReady(members) ==
  /\ Players(members) # {}
  /\ \A a \in Players(members) : members[a].ready

firstOpenPosition(lobby) ==
  LET perTeam == teamCapacity(lobby.settings.maxPlayers)
      team1 == positionCount(lobby.members, "team1")
      team2 == positionCount(lobby.members, "team2")
  IN CASE team1 <= team2 /\ team1 < perTeam -> "team1"
       [] team1 > team2 /\ team2 < perTeam -> "team2"
       [] team1 <= team2 /\ team1 >= perTeam /\ team2 < perTeam -> "team2"
       [] team1 > team2 /\ team2 >= perTeam /\ team1 < perTeam -> "team1"
       [] OTHER -> IF positionCount(lobby.members, "spectator") < SpectatorCap
                   THEN "spectator" ELSE None

capacityFor(lobby, p, a) ==
  LET others == At(lobby.members, p) \ {a}
  IN Cardinality(others) < IF p = "spectator" THEN SpectatorCap
                           ELSE teamCapacity(lobby.settings.maxPlayers)

\* Mutant: whoever joined earliest, spectators included.
HeirsOfAnyKind(members) ==
  {a \in Occupants(members) :
     \A b \in Occupants(members) : members[a].joinedAt <= members[b].joinedAt}

\* Players before spectators, then whoever joined earliest.  The code settles
\* equal join times by seating order; here any of the tied members may inherit.
Heirs(members) ==
  LET pool == IF Players(members) # {} THEN Players(members) ELSE Occupants(members)
  IN {a \in pool : \A b \in pool : members[a].joinedAt <= members[b].joinedAt}

Newcomer(p) == [position |-> p, joinedAt |-> clock, fleet |-> None, ready |-> FALSE]

\* The lookup injected by app.ts: null for a missing row and for someone else's.
fleets(a, f) ==
  IF rows[f] # None /\ OwnerOf[f] = a
  THEN [id |-> f, name |-> rows[f].name, points |-> rows[f].points]
  ELSE None

---------------------------------------------------------------------------
Init ==
  /\ lobbies = [l \in LobbyId |-> None]
  /\ byCode = [c \in JoinCode |-> None]
  /\ membership = [a \in Account |-> None]
  /\ lastCreatedAt = [a \in Account |-> None]
  /\ rows \in [Fleet -> FleetRow]
  /\ lookups = {}
  /\ start = None
  /\ clock = 0

\* With a synchronous engine a re-read has already been answered when the next
\* message is taken up; with an asynchronous one it may still be under way.
Turn == SyncStore => \A k \in lookups : k.op # "resync"

create(a) ==
  /\ Turn
  /\ membership[a] = None
  /\ lastCreatedAt[a] # None => clock - lastCreatedAt[a] >= Cooldown
  /\ \E l \in LobbyId, code \in JoinCode :
       /\ lobbies[l] = None
       /\ byCode[code] = None
       /\ lobbies' = [lobbies EXCEPT ![l] =
            [host |-> a, code |-> code,
             settings |-> [maxPlayers |-> DefaultCap, fleetPoints |-> DefaultBudget,
                           visibility |-> "public"],
             members |-> [b \in Account |-> IF b = a THEN Newcomer("team1") ELSE None]]]
       /\ byCode' = [byCode EXCEPT ![code] = l]
       /\ membership' = [membership EXCEPT ![a] = l]
  /\ lastCreatedAt' = [lastCreatedAt EXCEPT ![a] = clock]
  /\ UNCHANGED <<rows, lookups, start, clock>>

Seat(a, l) ==
  /\ lobbies' = [lobbies EXCEPT ![l].members[a] = Newcomer(firstOpenPosition(lobbies[l]))]
  /\ membership' = [membership EXCEPT ![a] = l]
  /\ UNCHANGED <<byCode, lastCreatedAt, rows, lookups, start, clock>>

\* Mutants: a full lobby still seats people; an account may sit in two lobbies.
joinFull(a, l) == Turn /\ membership[a] = None /\ lobbies[l] # None /\ Seat(a, l)
joinTwice(a, l) ==
  Turn /\ lobbies[l] # None /\ firstOpenPosition(lobbies[l]) # None /\ Seat(a, l)

join(a, l) ==
  /\ Turn
  /\ membership[a] = None
  /\ lobbies[l] # None
  /\ firstOpenPosition(lobbies[l]) # None
  /\ Seat(a, l)

joinByCode(a, c) == byCode[c] # None /\ join(a, byCode[c])

joinById(a, l) ==
  /\ lobbies[l] # None
  /\ lobbies[l].settings.visibility = "public"
  /\ join(a, l)

\* A change to one member's row of the lobby it is seated in.
UpdateMember(a, m) ==
  /\ lobbies' = [lobbies EXCEPT ![membership[a]].members[a] = m]
  /\ UNCHANGED <<byCode, membership, lastCreatedAt, rows, clock>>

InLobby(a) == membership[a] # None
LobbyOf(a) == lobbies[membership[a]]
MemberOf(a) == LobbyOf(a).members[a]

\* A move to the stands takes readiness with it; the mutant forgets to.
MovedStillReady(a, p) == [MemberOf(a) EXCEPT !.position = p]
Moved(a, p) == [MemberOf(a) EXCEPT !.position = p, !.ready = @ /\ p # "spectator"]

setPosition(a, p) ==
  /\ Turn
  /\ InLobby(a)
  /\ MemberOf(a).position # p
  /\ capacityFor(LobbyOf(a), p, a)
  /\ UpdateMember(a, Moved(a, p))
  /\ UNCHANGED <<lookups, start>>

setReady(a, ready) ==
  /\ Turn
  /\ InLobby(a)
  /\ ready => MemberOf(a).position # "spectator" /\ MemberOf(a).fleet # None
  /\ UpdateMember(a, [MemberOf(a) EXCEPT !.ready = ready])
  /\ UNCHANGED <<lookups, start>>

---------------------------------------------------------------------------
(* Fleet selection.  Choosing none is immediate; choosing one reads it     *)
(* first, and the budget is judged when the read answers.                  *)

\* A swap retracts readiness; the mutant keeps it.
SelectionStillReady(a, fleet) == [MemberOf(a) EXCEPT !.fleet = fleet]
Selection(a, fleet) == [MemberOf(a) EXCEPT !.fleet = fleet, !.ready = FALSE]

selectNone(a) ==
  /\ Turn
  /\ InLobby(a)
  /\ UpdateMember(a, Selection(a, None))
  /\ UNCHANGED <<lookups, start>>

requestFleet(a, f) ==
  /\ Turn
  /\ Cardinality(lookups) < MaxLookups
  /\ lookups' = lookups \cup
       {[op |-> "select", account |-> a, fleet |-> f, row |-> fleets(a, f)]}
  /\ UNCHANGED <<registry, lastCreatedAt, rows, start, clock>>

Affordable(a, row) == row # None /\ row.points <= LobbyOf(a).settings.fleetPoints

selectFleet(k) ==
  /\ k.op = "select"
  /\ lookups' = lookups \ {k}
  /\ \/ /\ InLobby(k.account)
        /\ Affordable(k.account, k.row)
        /\ UpdateMember(k.account, Selection(k.account, k.row))
     \/ /\ ~(InLobby(k.account) /\ Affordable(k.account, k.row))
        /\ UNCHANGED <<registry, lastCreatedAt, rows, clock>>
  /\ UNCHANGED start

\* What a re-read leaves selected.  Mutants: it keeps the copy as it was while
\* the row is affordable; it never looks at the budget.
ResyncedStale(a, row) == IF Affordable(a, row) THEN MemberOf(a).fleet ELSE None
ResyncedUnchecked(a, row) == row
Resynced(a, row) == IF Affordable(a, row) THEN row ELSE None

resyncFleet(k) ==
  LET a == k.account
      changes == /\ InLobby(a)
                 /\ MemberOf(a).fleet # None
                 /\ MemberOf(a).fleet.id = k.fleet
                 /\ MemberOf(a).fleet # Resynced(a, k.row)
  IN /\ k.op = "resync"
     /\ lookups' = lookups \ {k}
     /\ \/ changes /\ UpdateMember(a, Selection(a, Resynced(a, k.row)))
        \/ ~changes /\ UNCHANGED <<registry, lastCreatedAt, rows, clock>>
     /\ UNCHANGED start

\* PUT (row # None) or DELETE (row = None) of a saved fleet, and the
\* fleetChanged notification that follows it: the owner's lobby, if any,
\* re-reads the fleet, unless the read rejects.
writeFleet(f, row) ==
  LET a == OwnerOf[f]
      found == IF row = None THEN None
               ELSE [id |-> f, name |-> row.name, points |-> row.points]
  IN /\ rows[f] # None
     /\ SyncStore => lookups = {} /\ start = None
     /\ rows' = [rows EXCEPT ![f] = row]
     /\ \/ /\ InLobby(a)
           /\ Cardinality(lookups) < MaxLookups
           /\ lookups' = lookups \cup
                {[op |-> "resync", account |-> a, fleet |-> f, row |-> found]}
        \/ /\ InLobby(a) => ReadsMayFail
           /\ UNCHANGED lookups
     /\ UNCHANGED <<registry, lastCreatedAt, start, clock>>

---------------------------------------------------------------------------
(* Leaving, by choice, by the host, or with the socket.                    *)

remove(l, a) ==
  LET rest == [lobbies[l].members EXCEPT ![a] = None]
  IN /\ membership' = [membership EXCEPT ![a] = None]
     /\ \/ /\ Occupants(rest) = {}
           /\ lobbies' = [lobbies EXCEPT ![l] = None]
           /\ byCode' = [byCode EXCEPT ![lobbies[l].code] = None]
        \/ /\ Occupants(rest) # {}
           /\ \E heir \in Account :
                /\ IF lobbies[l].host = a THEN heir \in Heirs(rest) ELSE heir = lobbies[l].host
                /\ lobbies' = [lobbies EXCEPT ![l].members = rest, ![l].host = heir]
           /\ UNCHANGED byCode
     /\ UNCHANGED <<lastCreatedAt, rows, lookups, start, clock>>

\* lobby.leave, and the disconnect that does the same for a dropped socket.
leave(a) == Turn /\ InLobby(a) /\ remove(membership[a], a)

kick(host, target) ==
  /\ Turn
  /\ InLobby(host)
  /\ LobbyOf(host).host = host
  /\ target # host
  /\ LobbyOf(host).members[target] # None
  /\ remove(membership[host], target)

\* Mutant: only the total is compared with the new cap.
CapFitsTotal(members, maxPlayers) == maxPlayers >= playerCount(members)

\* The seats a new cap has to hold: everyone playing, and each team's half.
CapFits(members, maxPlayers) ==
  /\ maxPlayers >= playerCount(members)
  /\ \A t \in Team : positionCount(members, t) <= teamCapacity(maxPlayers)

\* Mutant: a budget change drops nothing.
RebudgetedNobody(members, fleetPoints) == members

\* A budget change drops the selections it strands, and their readiness.
Rebudgeted(members, fleetPoints) ==
  [a \in Account |->
     IF members[a] # None /\ members[a].fleet # None /\ members[a].fleet.points > fleetPoints
     THEN [members[a] EXCEPT !.fleet = None, !.ready = FALSE]
     ELSE members[a]]

modify(a, settings) ==
  /\ Turn
  /\ InLobby(a)
  /\ LobbyOf(a).host = a
  /\ CapFits(LobbyOf(a).members, settings.maxPlayers)
  /\ lobbies' = [lobbies EXCEPT ![membership[a]].settings = settings,
                              ![membership[a]].members = Rebudgeted(@, settings.fleetPoints)]
  /\ UNCHANGED <<byCode, membership, lastCreatedAt, rows, lookups, start, clock>>

---------------------------------------------------------------------------
(* Starting a match.  The roster is captured before the fleets are read.   *)

Roster(members) ==
  [a \in Account |-> IF a \in Players(members) /\ members[a].fleet # None
                     THEN members[a].fleet.id ELSE None]

startMatch(a) ==
  /\ Turn
  /\ InLobby(a)
  /\ LobbyOf(a).host = a
  /\ everyoneReady(LobbyOf(a).members)
  /\ start = None
  /\ start' = [budget |-> LobbyOf(a).settings.fleetPoints, roster |-> Roster(LobbyOf(a).members)]
  /\ UNCHANGED <<registry, lastCreatedAt, rows, lookups, clock>>

\* The loads finish (or fail): either way the lobby stands as it was.
loadFleets ==
  /\ start # None
  /\ start' = None
  /\ UNCHANGED <<registry, lastCreatedAt, rows, lookups, clock>>

Tick ==
  /\ clock < MaxClock
  /\ clock' = clock + 1
  /\ UNCHANGED <<registry, lastCreatedAt, rows, lookups, start>>

---------------------------------------------------------------------------
Command(a) ==
  \/ create(a)
  \/ \E c \in JoinCode : joinByCode(a, c)
  \/ \E l \in LobbyId : joinById(a, l)
  \/ \E p \in Position : setPosition(a, p)
  \/ \E ready \in BOOLEAN : setReady(a, ready)
  \/ selectNone(a)
  \/ \E f \in Fleet : requestFleet(a, f)
  \/ leave(a)
  \/ \E target \in Account : kick(a, target)
  \/ \E settings \in Settings : modify(a, settings)
  \/ startMatch(a)

Next ==
  \/ \E a \in Account : Command(a)
  \/ \E k \in lookups : selectFleet(k) \/ resyncFleet(k)
  \/ \E f \in Fleet, row \in FleetRow \cup {None} : writeFleet(f, row)
  \/ loadFleets
  \/ Tick

\* Nothing a player does is owed to anybody; an answer to a read is.
Answers == \E k \in lookups : selectFleet(k) \/ resyncFleet(k)

Spec == Init /\ [][Next]_vars /\ WF_vars(Answers)

---------------------------------------------------------------------------
(* Properties.                                                             *)

TypeOK ==
  /\ lobbies \in [LobbyId -> LobbyRecord \cup {None}]
  /\ byCode \in [JoinCode -> LobbyId \cup {None}]
  /\ membership \in [Account -> LobbyId \cup {None}]
  /\ lastCreatedAt \in [Account -> Nat \cup {None}]
  /\ rows \in [Fleet -> FleetRow \cup {None}]
  /\ lookups \subseteq Lookup
  /\ start \in StartOrder \cup {None}
  /\ clock \in Nat

\* The selection a member has now, or None.
SelectionOf(a) == IF InLobby(a) THEN MemberOf(a).fleet ELSE None

\* What the roster says can be relied on (service.ts setPosition, selectFleet,
\* resyncFleet, modify): a selected fleet fits the lobby's budget, and a member
\* shown as ready has a fleet and a seat on a team -- whatever order budget
\* changes, moves to the stands, re-reads and late lookup answers came in.
ReadyIsHonest ==
  \A l \in LobbyId, a \in Account :
    lobbies[l] # None /\ lobbies[l].members[a] # None =>
      LET m == lobbies[l].members[a]
      IN /\ m.fleet # None => m.fleet.points <= lobbies[l].settings.fleetPoints
         /\ m.ready => m.fleet # None /\ m.position # "spectator"

\* No sequence of joins, moves and cap changes overfills a team, the lobby or
\* the stands (service.ts firstOpenPosition, capacityFor, modify).
SeatsWithinCapacity ==
  \A l \in LobbyId : lobbies[l] # None =>
    LET lobby == lobbies[l]
    IN /\ playerCount(lobby.members) <= lobby.settings.maxPlayers
       /\ \A t \in Team :
            positionCount(lobby.members, t) <= teamCapacity(lobby.settings.maxPlayers)
       /\ positionCount(lobby.members, "spectator") <= SpectatorCap

\* The three maps of the registry tell one story: an account is a member of
\* exactly the lobby its membership names, a lobby stands exactly while its code
\* leads to it, it is never empty, and its host is one of its members.
RegistryAgrees ==
  /\ \A a \in Account, l \in LobbyId :
       membership[a] = l <=> lobbies[l] # None /\ lobbies[l].members[a] # None
  /\ \A l \in LobbyId : lobbies[l] # None =>
       /\ byCode[lobbies[l].code] = l
       /\ lobbies[l].members[lobbies[l].host] # None
  /\ \A c \in JoinCode : byCode[c] # None =>
       lobbies[byCode[c]] # None /\ lobbies[byCode[c]].code = c

\* Seen from outside, the registry is the Seating it promises: every call of
\* the service, and every step around it, is one of Seating's steps or none.
Seats == INSTANCE Seating WITH
  host <- [l \in LobbyId |-> IF lobbies[l] = None THEN None ELSE lobbies[l].host]

ImplementsSeating == Seats!Spec

\* The lobby changes hands only when its host is gone, and then to the member
\* who has been there longest, a player before any spectator (service.ts remove).
HostSuccession ==
  [][\A l \in LobbyId :
       lobbies[l] # None /\ lobbies'[l] # None /\ lobbies'[l].host # lobbies[l].host =>
         LET members == lobbies'[l].members
             heir == lobbies'[l].host
             spectates(a) == members[a].position = "spectator"
         IN /\ members[lobbies[l].host] = None
            /\ \A a \in Occupants(members) :
                 \/ ~spectates(heir) /\ spectates(a)
                 \/ /\ spectates(heir) = spectates(a)
                    /\ members[heir].joinedAt <= members[a].joinedAt]_vars

\* A member who stays ready through a step stays ready for the same fleet: a
\* swap, an edit or a deletion retracts it (service.ts selectFleet, resyncFleet).
ReadyForTheSameFleet ==
  [][\A l \in LobbyId, a \in Account :
       LET before == lobbies[l].members[a]
           after == lobbies'[l].members[a]
       IN lobbies[l] # None /\ lobbies'[l] # None /\ before # None /\ after # None
          /\ before.ready /\ after.ready => before.fleet = after.fleet]_vars

\* With no read under way the lobby's copy of a selection is the stored row
\* (the promise of service.ts resyncFleet: never staler than the fleet it names).
SelectionIsCurrent ==
  lookups = {} =>
    \A a \in Account : SelectionOf(a) # None =>
      SelectionOf(a) = fleets(a, SelectionOf(a).id)

\* Every fleet a start is about to load fits the budget it was started under, as
\* the fleet is stored, not as the lobby remembers it (handler.ts fleetChanged:
\* the selection is re-checked when the host starts the match).
StartedWithinBudget ==
  start # None =>
    \A a \in Account :
      LET f == start.roster[a]
      IN f # None /\ rows[f] # None => rows[f].points <= start.budget

\* A selection whose saved fleet has been deleted or edited past the budget is
\* dropped or replaced in the end, because the re-read answers.
Unaffordable(a) ==
  /\ SelectionOf(a) # None
  /\ LET row == rows[SelectionOf(a).id]
     IN row = None \/ row.points > LobbyOf(a).settings.fleetPoints

UnaffordableIsDropped == \A a \in Account : Unaffordable(a) ~> ~Unaffordable(a)
=============================================================================
