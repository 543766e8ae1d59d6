------------------------------ MODULE Session ------------------------------
(***************************************************************************)
(* The server's side of a player's session: which socket speaks for an     *)
(* account (server/src/realtime/gateway.ts, connections.ts), which lobby   *)
(* it sits in (Seating), which match it is seated in, and which seats are  *)
(* marked connected (server/src/match/store.ts, handler.ts, starter.ts).   *)
(*                                                                         *)
(* A lobby's readiness is left to Lobby: here its host may always start.   *)
(***************************************************************************)
EXTENDS Naturals, FiniteSets

CONSTANTS
  Account, LobbyId, MatchId,
  SyncStore,     \* TRUE: the SQLite engine; loading fleets yields to nothing but
                 \* further messages of the host that were read with its start
  MaxReplaced,   \* bound on replaced sockets of an account whose close is still to come
  None

ASSUME SessionAssumption ==
  /\ SyncStore \in BOOLEAN /\ MaxReplaced \in Nat
  /\ None \notin Account /\ None \notin LobbyId /\ None \notin MatchId

VARIABLES
  membership, host,   \* the lobby registry, as Seating has it
  registered,         \* the accounts with a live socket in the connection registry
  closing,            \* account -> replaced sockets whose close event is still to come
  matches,            \* match id -> its record
  byAccount           \* account -> the match it is seated in, or None

seating == <<membership, host>>
vars == <<membership, host, registered, closing, matches, byAccount>>

Room == INSTANCE Seating

\* A match is loading, for the host that started it, while its fleets are read;
\* then it runs until a tick ends it.
Phase == {"unused", "loading", "running", "over"}
MatchRecord == [phase : Phase, starter : Account \cup {None},
                players : SUBSET Account, connected : SUBSET Account]
NoMatch == [phase |-> "unused", starter |-> None, players |-> {}, connected |-> {}]

Init ==
  /\ Room!Init
  /\ registered = {}
  /\ closing = [a \in Account |-> 0]
  /\ matches = [m \in MatchId |-> NoMatch]
  /\ byAccount = [a \in Account |-> None]

---------------------------------------------------------------------------
(* Helpers.                                                                *)

Loading == {m \in MatchId : matches[m].phase = "loading"}
Running == {m \in MatchId : matches[m].phase = "running"}

\* Whose messages the server may take up now, and whether anything else can run.
Turn(a) == SyncStore => \A m \in Loading : matches[m].starter = a
Idle == SyncStore => Loading = {}

\* Mutant: a seat is marked when somebody comes, not when they go.
SeatMarkedOnArrival(a, connected) ==
  IF byAccount[a] = None \/ ~connected THEN matches
  ELSE [matches EXCEPT ![byAccount[a]].connected =
          matches[byAccount[a]].connected \cup ({a} \cap matches[byAccount[a]].players)]

\* The matches after an account's seat, if it has one, is marked connected or not.
SeatMarked(a, connected) ==
  IF byAccount[a] = None THEN matches
  ELSE [matches EXCEPT ![byAccount[a]].connected =
          IF connected THEN @ \cup ({a} \cap matches[byAccount[a]].players) ELSE @ \ {a}]

\* Whether a returning connection is put straight back into its match rather
\* than offered it: the match is over, or the account never stopped playing.
Resumes(a) ==
  /\ byAccount[a] # None
  /\ \/ matches[byAccount[a]].phase = "over"
     \/ a \in matches[byAccount[a]].connected

\* Mutant: a dropped socket leaves its account in the lobby.
VacateNothing(a) == UNCHANGED seating

Vacate(a) == IF membership[a] = None THEN UNCHANGED seating ELSE Room!remove(a)

Presides(a) == membership[a] # None /\ host[membership[a]] = a
MayKick(a, b) == Presides(a) /\ b # a /\ membership[b] = membership[a]

---------------------------------------------------------------------------
(* Sockets.                                                                *)

\* A new socket takes the account over from the one it may already have.
accept(a) ==
  /\ Idle
  /\ a \in registered => closing[a] < MaxReplaced
  /\ closing' = IF a \in registered THEN [closing EXCEPT ![a] = @ + 1] ELSE closing
  /\ registered' = registered \cup {a}
  /\ matches' = IF Resumes(a) THEN SeatMarked(a, TRUE) ELSE matches
  /\ UNCHANGED <<seating, byAccount>>

\* The account's own socket closed: it leaves its lobby, its seat stays.
Detach(a) ==
  /\ registered' = registered \ {a}
  /\ Vacate(a)
  /\ matches' = SeatMarked(a, FALSE)
  /\ UNCHANGED byAccount

onClose(a) ==
  /\ Idle
  /\ a \in registered
  /\ Detach(a)
  /\ UNCHANGED closing

\* The close of a socket that has been replaced.  Mutant: it detaches all the same.
onReplacedCloseDetaches(a) ==
  /\ Idle
  /\ closing[a] > 0
  /\ closing' = [closing EXCEPT ![a] = @ - 1]
  /\ Detach(a)

onReplacedClose(a) ==
  /\ Idle
  /\ closing[a] > 0
  /\ closing' = [closing EXCEPT ![a] = @ - 1]
  /\ UNCHANGED <<seating, registered, matches, byAccount>>

---------------------------------------------------------------------------
(* Messages.  Entering a lobby gives the old match up; leaving one vacates *)
(* the seat; being kicked does neither.                                    *)

create(a, l) ==
  /\ Turn(a) /\ a \in registered
  /\ Room!create(a, l)
  /\ byAccount' = [byAccount EXCEPT ![a] = None]
  /\ UNCHANGED <<registered, closing, matches>>

\* Mutant: an account that is in a lobby may walk into another.
joinMoves(a, l) ==
  /\ Turn(a) /\ a \in registered
  /\ host[l] # None
  /\ membership' = [membership EXCEPT ![a] = l]
  /\ byAccount' = [byAccount EXCEPT ![a] = None]
  /\ UNCHANGED <<host, registered, closing, matches>>

join(a, l) ==
  /\ Turn(a) /\ a \in registered
  /\ Room!join(a, l)
  /\ byAccount' = [byAccount EXCEPT ![a] = None]
  /\ UNCHANGED <<registered, closing, matches>>

leave(a) ==
  /\ Turn(a) /\ a \in registered
  /\ membership[a] # None
  /\ Room!remove(a)
  /\ matches' = SeatMarked(a, FALSE)
  /\ UNCHANGED <<registered, closing, byAccount>>

kick(a, target) ==
  /\ Turn(a) /\ a \in registered
  /\ MayKick(a, target)
  /\ Room!remove(target)
  /\ UNCHANGED <<registered, closing, matches, byAccount>>

\* Mutant: the roster is seated before the match exists.
startSeatsAtOnce(a, m) ==
  /\ Turn(a) /\ a \in registered
  /\ Presides(a)
  /\ matches[m].phase = "unused"
  /\ matches' = [matches EXCEPT ![m].phase = "loading", ![m].starter = a]
  /\ byAccount' = [b \in Account |-> IF membership[b] = membership[a] THEN m ELSE byAccount[b]]
  /\ UNCHANGED <<seating, registered, closing>>

\* The host's start captures the roster and sets out to load the fleets.
start(a, m) ==
  /\ Turn(a) /\ a \in registered
  /\ Presides(a)
  /\ matches[m].phase = "unused"
  /\ matches' = [matches EXCEPT ![m] =
       [phase |-> "loading", starter |-> a,
        players |-> Room!Members(membership[a]), connected |-> {}]]
  /\ UNCHANGED <<seating, registered, closing, byAccount>>

\* Mutant: whoever is online is deployed as connected.
storeConnectsOnline(m) ==
  /\ matches[m].phase = "loading"
  /\ matches' = [matches EXCEPT ![m] =
       [phase |-> "running", starter |-> None,
        players |-> matches[m].players, connected |-> registered]]
  /\ byAccount' = [a \in Account |-> IF a \in matches[m].players THEN m ELSE byAccount[a]]
  /\ UNCHANGED <<seating, registered, closing>>

\* Everybody on the roster is seated, and deployed as connected.
store(m) ==
  /\ matches[m].phase = "loading"
  /\ matches' = [matches EXCEPT ![m] =
       [phase |-> "running", starter |-> None,
        players |-> matches[m].players, connected |-> matches[m].players]]
  /\ byAccount' = [a \in Account |-> IF a \in matches[m].players THEN m ELSE byAccount[a]]
  /\ UNCHANGED <<seating, registered, closing>>

\* A map that cannot be generated or a fleet that cannot be read: nothing was made.
startFails(m) ==
  /\ matches[m].phase = "loading"
  /\ matches' = [matches EXCEPT ![m] = NoMatch]
  /\ UNCHANGED <<seating, registered, closing, byAccount>>

rejoin(a) ==
  /\ Turn(a) /\ a \in registered
  /\ byAccount[a] # None /\ byAccount[a] \in Running
  /\ matches' = SeatMarked(a, TRUE)
  /\ UNCHANGED <<seating, registered, closing, byAccount>>

---------------------------------------------------------------------------
(* The clock.  A tick that finds nobody connected ends the match as        *)
(* abandoned; otherwise the rules of the game may end it, on any tick.     *)

decideAbandonment(m) ==
  /\ Idle
  /\ m \in Running
  /\ matches[m].connected = {}
  /\ matches' = [matches EXCEPT ![m].phase = "over"]
  /\ UNCHANGED <<seating, registered, closing, byAccount>>

decideMatch(m) ==
  /\ Idle
  /\ m \in Running
  /\ matches[m].connected # {}
  /\ matches' = [matches EXCEPT ![m].phase = "over"]
  /\ UNCHANGED <<seating, registered, closing, byAccount>>

---------------------------------------------------------------------------
Socket(a) == accept(a) \/ onClose(a) \/ onReplacedClose(a)

Message(a) ==
  \/ \E l \in LobbyId : create(a, l) \/ join(a, l)
  \/ leave(a)
  \/ \E target \in Account : kick(a, target)
  \/ \E m \in MatchId : start(a, m)
  \/ rejoin(a)

Next ==
  \/ \E a \in Account : Socket(a) \/ Message(a)
  \/ \E m \in MatchId : store(m) \/ startFails(m) \/ decideAbandonment(m) \/ decideMatch(m)

\* The process's one timer ticks every running match, and a load comes to an end.
\* A load under way only delays the timer, so loads that keep coming may not
\* starve it: hence strong fairness for the tick.
Fairness == \A m \in MatchId : SF_vars(decideAbandonment(m)) /\ WF_vars(store(m) \/ startFails(m))

Spec == Init /\ [][Next]_vars /\ Fairness

---------------------------------------------------------------------------
(* Properties.                                                             *)

TypeOK ==
  /\ Room!TypeOK
  /\ registered \subseteq Account
  /\ closing \in [Account -> 0..MaxReplaced]
  /\ matches \in [MatchId -> MatchRecord]
  /\ byAccount \in [Account -> MatchId \cup {None}]
  /\ \A m \in MatchId : matches[m].connected \subseteq matches[m].players

\* A lobby seat is never held for somebody who is gone: whoever sits in a lobby
\* has the account's current socket open (lobby/handler.ts detach: no ghosts
\* that nobody can kick), however its tabs replaced each other.
NoGhosts == \A a \in Account : membership[a] # None => a \in registered

\* The account index leads to a match that has begun and that has a seat for the
\* account (match/store.ts byAccount, store, release).
SeatIsReal ==
  \A a \in Account : byAccount[a] # None =>
    /\ matches[byAccount[a]].phase \in {"running", "over"}
    /\ a \in matches[byAccount[a]].players

\* While the index still names the match, a seat marked connected is somebody who
\* is there: no socket closes, in whatever order against starts, rejoins and
\* replacements, without the mark going with it (match/handler.ts detach).
SeatedConnectedIsOnline ==
  \A a \in Account : byAccount[a] # None /\ a \in matches[byAccount[a]].connected => a \in registered

\* A match its seated players have all dropped out of does not run on: it is
\* abandoned, unless one of them comes back or turns to another lobby
\* (shared/src/match/results.ts decideAbandonment, match/clock.ts step).
Deserted(m) ==
  m \in Running /\ \A a \in matches[m].players : byAccount[a] = m /\ a \notin registered

DesertedIsAbandoned == \A m \in MatchId : Deserted(m) ~> ~Deserted(m)

\* An account is an active participant of one match at most (match/store.ts: there
\* is never a second match for a stale entry to shadow the real one behind).
OneRunningMatch ==
  \A a \in Account, m, n \in Running :
    a \in matches[m].connected /\ a \in matches[n].connected => m = n

\* To everyone else, sockets and matches are steps that move nobody between lobbies.
ImplementsSeating == Room!Spec
=============================================================================
