--------------------------- MODULE SessionProofs ---------------------------
(***************************************************************************)
(* What the session's runs show on two accounts, for every set of          *)
(* accounts, lobbies and matches, and any number of replaced sockets; and  *)
(* what a player is shown, for any amount of mail and both engines.        *)
(*                                                                         *)
(* The invariant of the second part reads the mail that is under way       *)
(* together with the page: a page's screen may be out of date only while   *)
(* the message that corrects it is still to come, and the offer of a match *)
(* is either what the page holds or under way with nothing behind it that  *)
(* would undo it.                                                          *)
(***************************************************************************)
EXTENDS ClientSession, TLAPS, SequenceTheorems

\* Under the SQLite engine nobody's socket comes or goes while fleets are read.
LoadingAreOnline == SyncStore => \A m \in Loading : matches[m].players \subseteq registered

\* The inductive invariant: a seat is only ever given to somebody on a roster that
\* was captured from a lobby, and the members of a lobby are online.
Held ==
  /\ TypeOK /\ NoGhosts /\ SeatIsReal
  /\ LoadingAreOnline /\ (SyncStore => SeatedConnectedIsOnline)

LEMMA NoMatchTyped == NoMatch \in MatchRecord
BY DEF NoMatch, MatchRecord, Phase

\* Marking a seat changes no match but the account's own, and there only the mark.
LEMMA MarkedSeats ==
  ASSUME TypeOK, SeatIsReal, NEW a \in Account, NEW on \in BOOLEAN,
         matches' = SeatMarked(a, on), UNCHANGED byAccount
  PROVE  /\ matches' \in [MatchId -> MatchRecord]
         /\ \A m \in MatchId :
              /\ matches'[m].phase = matches[m].phase
              /\ matches'[m].players = matches[m].players
              /\ matches'[m].connected \subseteq matches'[m].players
              /\ matches'[m].connected \subseteq matches[m].connected \cup (IF on THEN {a} ELSE {})
         /\ ~on /\ byAccount[a] # None => a \notin matches'[byAccount[a]].connected
<1>1. CASE byAccount[a] = None
  BY <1>1 DEF SeatMarked, TypeOK
<1>2. CASE byAccount[a] # None
  <2>1. byAccount[a] \in MatchId
    BY <1>2 DEF TypeOK
  <2>2. CASE on
    BY <1>2, <2>1, <2>2 DEF SeatMarked, TypeOK, MatchRecord
  <2>3. CASE ~on
    BY <1>2, <2>1, <2>3 DEF SeatMarked, TypeOK, MatchRecord
  <2> QED BY <2>2, <2>3
<1> QED BY <1>1, <1>2

\* What the registry of lobbies does to its types and to who is in a lobby.
LEMMA SeatingSteps ==
  ASSUME TypeOK, NEW a \in Account
  PROVE  /\ \A l \in LobbyId : Room!create(a, l) \/ Room!join(a, l) =>
              /\ Room!TypeOK'
              /\ \A b \in Account \ {a} : membership'[b] = membership[b]
         /\ Room!remove(a) =>
              /\ Room!TypeOK'
              /\ membership'[a] = None
              /\ \A b \in Account \ {a} : membership'[b] = membership[b]
BY DEF TypeOK, Room!TypeOK, Room!create, Room!join, Room!remove, Room!Members

LEMMA HeldInit == Init => Held
BY NoMatchTyped, SessionAssumption
DEF Init, Held, TypeOK, NoGhosts, SeatIsReal, SeatedConnectedIsOnline, LoadingAreOnline,
    Loading, NoMatch, Room!Init, Room!TypeOK

\* A step that begins and ends no match keeps Held if it keeps members online, lets
\* nobody off line while fleets are read, and marks nobody who is not there.
LEMMA QuietSteps ==
  ASSUME Held, Room!TypeOK', NoGhosts',
         registered' \subseteq Account, closing' \in [Account -> 0..MaxReplaced],
         SyncStore /\ Loading # {} => registered \subseteq registered',
         matches' \in [MatchId -> MatchRecord],
         \A m \in MatchId : /\ matches'[m].phase = matches[m].phase
                            /\ matches'[m].players = matches[m].players
                            /\ matches'[m].connected \subseteq matches'[m].players,
         byAccount' \in [Account -> MatchId \cup {None}],
         \A a \in Account : byAccount'[a] \in {byAccount[a], None},
         SyncStore => SeatedConnectedIsOnline'
  PROVE  Held'
<1>1. TypeOK'
  BY DEF TypeOK
<1>2. SeatIsReal'
  <2>1. SUFFICES ASSUME NEW a \in Account, byAccount'[a] # None
                 PROVE  /\ matches'[byAccount'[a]].phase \in {"running", "over"}
                        /\ a \in matches'[byAccount'[a]].players
    BY DEF SeatIsReal
  <2>2. byAccount'[a] = byAccount[a] /\ byAccount[a] \in MatchId
    BY <2>1 DEF Held, TypeOK
  <2> QED BY <2>1, <2>2 DEF Held, SeatIsReal
<1>3. LoadingAreOnline'
  <2>1. SUFFICES ASSUME SyncStore, NEW m \in MatchId, matches'[m].phase = "loading"
                 PROVE  matches'[m].players \subseteq registered'
    BY DEF LoadingAreOnline, Loading
  <2>2. m \in Loading
    BY <2>1 DEF Loading
  <2> QED BY <2>1, <2>2 DEF Held, LoadingAreOnline
<1> QED BY <1>1, <1>2, <1>3 DEF Held

LEMMA HeldStep == Held /\ [Next]_vars => Held'
<1> SUFFICES ASSUME Held, [Next]_vars PROVE Held'
  OBVIOUS
<1> USE SessionAssumption
<1>typed. /\ Room!TypeOK /\ registered \subseteq Account
          /\ closing \in [Account -> 0..MaxReplaced]
          /\ matches \in [MatchId -> MatchRecord]
          /\ byAccount \in [Account -> MatchId \cup {None}]
          /\ \A m \in MatchId : matches[m].connected \subseteq matches[m].players
          /\ TypeOK /\ NoGhosts /\ SeatIsReal
          /\ (SyncStore => SeatedConnectedIsOnline)
          /\ \A a \in Account : byAccount[a] # None => byAccount[a] \in MatchId
  BY DEF Held, TypeOK
<1>1. CASE UNCHANGED vars
  <2>1. /\ UNCHANGED <<membership, host>> /\ UNCHANGED <<registered, closing, matches, byAccount>>
    BY <1>1 DEF vars
  <2>2. Room!TypeOK' /\ NoGhosts' /\ (SyncStore => SeatedConnectedIsOnline')
    BY <1>typed, <2>1 DEF Room!TypeOK, NoGhosts, SeatedConnectedIsOnline
  <2> QED BY <1>typed, <2>1, <2>2, QuietSteps
\* Sockets.  Only the account's own seat is marked, and while fleets are read
\* nothing is.
<1>2. ASSUME NEW a \in Account, accept(a) PROVE Held'
  <2>1. /\ registered' = registered \cup {a}
        /\ closing' \in [Account -> 0..MaxReplaced]
        /\ UNCHANGED <<membership, host>> /\ UNCHANGED byAccount
    BY <1>2, <1>typed DEF accept, seating
  <2>2. /\ matches' \in [MatchId -> MatchRecord]
        /\ \A m \in MatchId :
             /\ matches'[m].phase = matches[m].phase
             /\ matches'[m].players = matches[m].players
             /\ matches'[m].connected \subseteq matches'[m].players
             /\ matches'[m].connected \subseteq matches[m].connected \cup {a}
    <3>1. CASE Resumes(a)
      BY <1>2, <1>typed, <2>1, <3>1, MarkedSeats DEF accept
    <3>2. CASE ~Resumes(a)
      BY <1>2, <1>typed, <3>2 DEF accept
    <3> QED BY <3>1, <3>2
  <2>3. Room!TypeOK' /\ NoGhosts' /\ (SyncStore => SeatedConnectedIsOnline')
    BY <1>typed, <2>1, <2>2 DEF Room!TypeOK, NoGhosts, SeatedConnectedIsOnline
  <2> QED BY <1>typed, <2>1, <2>2, <2>3, QuietSteps
<1>3. ASSUME NEW a \in Account, onClose(a) PROVE Held'
  <2>1. /\ registered' = registered \ {a}
        /\ UNCHANGED closing /\ UNCHANGED byAccount
        /\ matches' = SeatMarked(a, FALSE)
        /\ SyncStore => Loading = {}
    BY <1>3 DEF onClose, Detach, Idle
  <2>2. /\ matches' \in [MatchId -> MatchRecord]
        /\ \A m \in MatchId :
             /\ matches'[m].phase = matches[m].phase
             /\ matches'[m].players = matches[m].players
             /\ matches'[m].connected \subseteq matches'[m].players
             /\ matches'[m].connected \subseteq matches[m].connected
        /\ byAccount[a] # None => a \notin matches'[byAccount[a]].connected
    BY <1>typed, <2>1, MarkedSeats
  <2>3. /\ Room!TypeOK' /\ membership'[a] = None
        /\ \A b \in Account \ {a} : membership'[b] = membership[b]
    <3>1. CASE membership[a] = None
      BY <1>3, <1>typed, <3>1 DEF onClose, Detach, Vacate, seating, Room!TypeOK
    <3>2. CASE membership[a] # None
      BY <1>3, <1>typed, <3>2, SeatingSteps DEF onClose, Detach, Vacate
    <3> QED BY <3>1, <3>2
  <2>4. NoGhosts' /\ (SyncStore => SeatedConnectedIsOnline')
    BY <1>typed, <2>1, <2>2, <2>3 DEF NoGhosts, SeatedConnectedIsOnline
  <2> QED BY <1>typed, <2>1, <2>2, <2>3, <2>4, QuietSteps
<1>4. ASSUME NEW a \in Account, onReplacedClose(a) PROVE Held'
  <2>1. /\ UNCHANGED <<membership, host>> /\ UNCHANGED <<registered, matches, byAccount>>
        /\ closing' \in [Account -> 0..MaxReplaced]
    BY <1>4, <1>typed DEF onReplacedClose, seating
  <2>2. Room!TypeOK' /\ NoGhosts' /\ (SyncStore => SeatedConnectedIsOnline')
    BY <1>typed, <2>1 DEF Room!TypeOK, NoGhosts, SeatedConnectedIsOnline
  <2> QED BY <1>typed, <2>1, <2>2, QuietSteps
\* Messages.
<1>5. ASSUME NEW a \in Account, NEW l \in LobbyId, create(a, l) \/ join(a, l) PROVE Held'
  <2>1. /\ UNCHANGED <<registered, closing, matches>> /\ a \in registered
        /\ byAccount' = [byAccount EXCEPT ![a] = None]
        /\ Room!create(a, l) \/ Room!join(a, l)
    BY <1>5 DEF create, join
  <2>2. /\ Room!TypeOK'
        /\ \A b \in Account \ {a} : membership'[b] = membership[b]
    BY <1>typed, <2>1, SeatingSteps
  <2>3. NoGhosts' /\ (SyncStore => SeatedConnectedIsOnline')
    BY <1>typed, <2>1, <2>2 DEF NoGhosts, SeatedConnectedIsOnline
  <2> QED BY <1>typed, <2>1, <2>2, <2>3, QuietSteps
<1>6. ASSUME NEW a \in Account, leave(a) PROVE Held'
  <2>1. /\ UNCHANGED <<registered, closing, byAccount>>
        /\ matches' = SeatMarked(a, FALSE) /\ Room!remove(a)
    BY <1>6 DEF leave
  <2>2. /\ matches' \in [MatchId -> MatchRecord]
        /\ \A m \in MatchId :
             /\ matches'[m].phase = matches[m].phase
             /\ matches'[m].players = matches[m].players
             /\ matches'[m].connected \subseteq matches'[m].players
             /\ matches'[m].connected \subseteq matches[m].connected
    BY <1>typed, <2>1, MarkedSeats
  <2>3. Room!TypeOK' /\ NoGhosts' /\ (SyncStore => SeatedConnectedIsOnline')
    BY <1>typed, <2>1, <2>2, SeatingSteps DEF NoGhosts, SeatedConnectedIsOnline
  <2> QED BY <1>typed, <2>1, <2>2, <2>3, QuietSteps
<1>7. ASSUME NEW a \in Account, NEW target \in Account, kick(a, target) PROVE Held'
  <2>1. /\ UNCHANGED <<registered, closing, matches, byAccount>> /\ Room!remove(target)
    BY <1>7 DEF kick
  <2>2. Room!TypeOK' /\ NoGhosts' /\ (SyncStore => SeatedConnectedIsOnline')
    BY <1>typed, <2>1, SeatingSteps DEF NoGhosts, SeatedConnectedIsOnline
  <2> QED BY <1>typed, <2>1, <2>2, QuietSteps
<1>8. ASSUME NEW a \in Account, NEW m \in MatchId, start(a, m) PROVE Held'
  <2> DEFINE roster == Room!Members(membership[a])
             new == [phase |-> "loading", starter |-> a, players |-> roster, connected |-> {}]
  <2>1. /\ membership[a] # None /\ matches[m].phase = "unused"
        /\ matches' = [matches EXCEPT ![m] = new]
        /\ UNCHANGED <<membership, host>> /\ UNCHANGED <<registered, closing, byAccount>>
    BY <1>8 DEF start, Presides, seating
  <2>2. roster \subseteq registered /\ new \in MatchRecord
    BY <1>typed, <2>1 DEF NoGhosts, Room!Members, MatchRecord, Phase
  <2>3. /\ matches' \in [MatchId -> MatchRecord]
        /\ matches'[m].players = roster /\ matches'[m].connected = {}
        /\ \A n \in MatchId \ {m} : matches'[n] = matches[n]
    BY <1>typed, <2>1, <2>2
  <2>4. \A b \in Account : byAccount[b] # m
    BY <1>typed, <2>1 DEF SeatIsReal
  <2>5. TypeOK' /\ NoGhosts'
    BY <1>typed, <2>1, <2>3 DEF TypeOK, Room!TypeOK, NoGhosts
  <2>6. SeatIsReal' /\ (SyncStore => SeatedConnectedIsOnline')
    BY <1>typed, <2>1, <2>3, <2>4 DEF SeatIsReal, SeatedConnectedIsOnline
  <2>7. LoadingAreOnline'
    BY <2>1, <2>2, <2>3 DEF Held, LoadingAreOnline, Loading
  <2> QED BY <2>5, <2>6, <2>7 DEF Held
<1>9. ASSUME NEW m \in MatchId, store(m) PROVE Held'
  <2>1. /\ matches[m].phase = "loading"
        /\ UNCHANGED <<membership, host>> /\ UNCHANGED <<registered, closing>>
        /\ byAccount' = [a \in Account |-> IF a \in matches[m].players THEN m ELSE byAccount[a]]
    BY <1>9 DEF store, seating
  <2> DEFINE new == [phase |-> "running", starter |-> None,
                     players |-> matches[m].players, connected |-> matches[m].players]
  <2>0. matches' = [matches EXCEPT ![m] = new] /\ new \in MatchRecord
    BY <1>9, <1>typed DEF store, MatchRecord, Phase
  <2>2. /\ matches' \in [MatchId -> MatchRecord]
        /\ matches'[m].phase = "running" /\ matches'[m].players = matches[m].players
        /\ matches'[m].connected = matches[m].players
        /\ \A n \in MatchId \ {m} : matches'[n] = matches[n]
    BY <1>typed, <2>0
  <2>3. SyncStore => matches[m].players \subseteq registered
    BY <2>1 DEF Held, LoadingAreOnline, Loading
  <2>4. TypeOK' /\ NoGhosts'
    BY <1>typed, <2>1, <2>2 DEF TypeOK, Room!TypeOK, NoGhosts
  <2>5. SeatIsReal'
    BY <1>typed, <2>1, <2>2 DEF SeatIsReal
  <2>6. SyncStore => SeatedConnectedIsOnline'
    BY <1>typed, <2>1, <2>2, <2>3 DEF SeatedConnectedIsOnline
  <2>7. LoadingAreOnline'
    BY <2>1, <2>2 DEF Held, LoadingAreOnline, Loading
  <2> QED BY <2>4, <2>5, <2>6, <2>7 DEF Held
<1>10. ASSUME NEW m \in MatchId, startFails(m) PROVE Held'
  <2>1. /\ matches[m].phase = "loading" /\ matches' = [matches EXCEPT ![m] = NoMatch]
        /\ UNCHANGED <<membership, host>> /\ UNCHANGED <<registered, closing, byAccount>>
    BY <1>10 DEF startFails, seating
  <2>2. /\ matches' \in [MatchId -> MatchRecord]
        /\ matches'[m].phase = "unused" /\ matches'[m].connected = {}
        /\ \A n \in MatchId \ {m} : matches'[n] = matches[n]
    BY <1>typed, <2>1, NoMatchTyped DEF NoMatch
  <2>3. \A b \in Account : byAccount[b] # m
    BY <1>typed, <2>1 DEF SeatIsReal
  <2>4. TypeOK' /\ NoGhosts'
    BY <1>typed, <2>1, <2>2 DEF TypeOK, Room!TypeOK, NoGhosts
  <2>5. SeatIsReal' /\ (SyncStore => SeatedConnectedIsOnline')
    BY <1>typed, <2>1, <2>2, <2>3 DEF SeatIsReal, SeatedConnectedIsOnline
  <2>6. LoadingAreOnline'
    BY <2>1, <2>2 DEF Held, LoadingAreOnline, Loading
  <2> QED BY <2>4, <2>5, <2>6 DEF Held
<1>11. ASSUME NEW a \in Account, rejoin(a) PROVE Held'
  <2>1. /\ UNCHANGED <<membership, host>> /\ UNCHANGED <<registered, closing, byAccount>>
        /\ matches' = SeatMarked(a, TRUE) /\ a \in registered
    BY <1>11 DEF rejoin, seating
  <2>2. /\ matches' \in [MatchId -> MatchRecord]
        /\ \A m \in MatchId :
             /\ matches'[m].phase = matches[m].phase
             /\ matches'[m].players = matches[m].players
             /\ matches'[m].connected \subseteq matches'[m].players
             /\ matches'[m].connected \subseteq matches[m].connected \cup {a}
    BY <1>typed, <2>1, MarkedSeats
  <2>3. Room!TypeOK' /\ NoGhosts'
    BY <1>typed, <2>1 DEF Room!TypeOK, NoGhosts
  <2>4. SyncStore => SeatedConnectedIsOnline'
    BY <1>typed, <2>1, <2>2 DEF SeatedConnectedIsOnline
  <2> QED BY <1>typed, <2>1, <2>2, <2>3, <2>4, QuietSteps
\* The clock.
<1>12. ASSUME NEW m \in MatchId, decideAbandonment(m) \/ decideMatch(m) PROVE Held'
  <2>1. /\ matches[m].phase = "running" /\ matches' = [matches EXCEPT ![m].phase = "over"]
        /\ UNCHANGED <<membership, host>> /\ UNCHANGED <<registered, closing, byAccount>>
    BY <1>12 DEF decideAbandonment, decideMatch, Running, seating
  <2>2. /\ matches' \in [MatchId -> MatchRecord]
        /\ matches'[m].phase = "over"
        /\ \A n \in MatchId : /\ matches'[n].players = matches[n].players
                              /\ matches'[n].connected = matches[n].connected
        /\ \A n \in MatchId \ {m} : matches'[n] = matches[n]
    BY <1>typed, <2>1 DEF MatchRecord, Phase
  <2>3. TypeOK' /\ NoGhosts'
    BY <1>typed, <2>1, <2>2 DEF TypeOK, Room!TypeOK, NoGhosts
  <2>4. SeatIsReal' /\ (SyncStore => SeatedConnectedIsOnline')
    BY <1>typed, <2>1, <2>2 DEF SeatIsReal, SeatedConnectedIsOnline
  <2>5. LoadingAreOnline'
    BY <2>1, <2>2 DEF Held, LoadingAreOnline, Loading
  <2> QED BY <2>3, <2>4, <2>5 DEF Held
<1> QED
  BY <1>1, <1>2, <1>3, <1>4, <1>5, <1>6, <1>7, <1>8, <1>9, <1>10, <1>11, <1>12
  DEF Next, Socket, Message

THEOREM HeldAlways == Spec => []Held
BY HeldInit, HeldStep, PTL DEF Spec

\* The model's types: what the session's variables can be, for every constant.
THEOREM SessionTypeCorrect == Spec => []TypeOK
BY HeldAlways, PTL DEF Held

\* A seat in a lobby is never held for somebody whose socket is gone, whatever the
\* order of replacements, closes, kicks and starts (lobby/handler.ts detach) --
\* under either database engine.
THEOREM NeverAGhost == Spec => []NoGhosts
BY HeldAlways, PTL DEF Held

\* The account index never leads to a match that has not begun, or to one without
\* a seat for the account (match/store.ts store, release) -- under either engine.
THEOREM SeatsAlwaysReal == Spec => []SeatIsReal
BY HeldAlways, PTL DEF Held

\* Under the SQLite engine a seat that is marked connected, and that the index still
\* names, is somebody online (match/handler.ts detach).  Under the other engine a
\* socket may close while fleets are read, and the theorem says nothing.
THEOREM MarkedAreOnline == ASSUME SyncStore PROVE Spec => []SeatedConnectedIsOnline
<1>1. Held => SeatedConnectedIsOnline
  BY DEF Held
<1> QED BY <1>1, HeldAlways, PTL

\* Every step of the session is a step of the registry or moves nobody.
THEOREM SessionSeats == Spec => ImplementsSeating
<1>1. Init => Room!Init
  BY DEF Init
<1>2. [Next]_vars => [Room!Next]_(Room!seating)
  <2> SUFFICES ASSUME [Next]_vars PROVE [Room!Next]_(Room!seating)
    OBVIOUS
  <2>1. ASSUME NEW a \in Account, Socket(a) PROVE [Room!Next]_(Room!seating)
    BY <2>1 DEF Socket, accept, onClose, onReplacedClose, Detach, Vacate, seating,
       Room!Next, Room!seating
  <2>2. ASSUME NEW a \in Account, Message(a) PROVE [Room!Next]_(Room!seating)
    BY <2>2 DEF Message, create, join, leave, kick, start, rejoin, seating,
       Room!Next, Room!seating
  <2>3. CASE \E m \in MatchId : store(m) \/ startFails(m) \/ decideAbandonment(m) \/ decideMatch(m)
    BY <2>3 DEF store, startFails, decideAbandonment, decideMatch, seating, Room!seating
  <2>4. CASE UNCHANGED vars
    BY <2>4 DEF vars, seating, Room!seating
  <2> QED BY <2>1, <2>2, <2>3, <2>4 DEF Next
<1> QED BY <1>1, <1>2, PTL DEF Spec, ImplementsSeating, Room!Spec

\* Where a session is taken to, the registry keeps its types, and every lobby that has
\* anybody in it has one of them as its host, through every create, join and removal
\* (lobby/service.ts create, join, remove).
THEOREM SeatingIsSound == Room!Spec => [](Room!TypeOK /\ Room!HostSitsInside)
<1>0. None \notin Account /\ None \notin LobbyId
  BY SessionAssumption
<1>1. Room!Init => Room!TypeOK /\ Room!HostSitsInside
  BY <1>0 DEF Room!Init, Room!TypeOK, Room!HostSitsInside, Room!Members
<1>2. Room!TypeOK /\ Room!HostSitsInside /\ [Room!Next]_(Room!seating)
      => Room!TypeOK' /\ Room!HostSitsInside'
  <2> SUFFICES ASSUME Room!TypeOK, Room!HostSitsInside, [Room!Next]_(Room!seating)
               PROVE  Room!TypeOK' /\ Room!HostSitsInside'
    OBVIOUS
  <2> USE <1>0 DEF Room!TypeOK, Room!HostSitsInside, Room!Members
  <2>1. CASE UNCHANGED Room!seating
    BY <2>1 DEF Room!seating
  <2>2. ASSUME NEW a \in Account, NEW l \in LobbyId, Room!create(a, l)
        PROVE  Room!TypeOK' /\ Room!HostSitsInside'
    BY <2>2 DEF Room!create
  <2>3. ASSUME NEW a \in Account, NEW l \in LobbyId, Room!join(a, l)
        PROVE  Room!TypeOK' /\ Room!HostSitsInside'
    BY <2>3 DEF Room!join
  <2>4. ASSUME NEW a \in Account, Room!remove(a)
        PROVE  Room!TypeOK' /\ Room!HostSitsInside'
    <3> DEFINE l == membership[a]
               rest == Room!Members(l) \ {a}
    <3>1. l \in LobbyId /\ membership' = [membership EXCEPT ![a] = None]
      BY <2>4 DEF Room!remove
    <3>2. CASE rest = {} /\ host' = [host EXCEPT ![l] = None]
      BY <3>1, <3>2
    <3>3. CASE rest # {} /\ host[l] # a /\ UNCHANGED host
      BY <3>1, <3>3
    <3>4. ASSUME NEW heir \in rest, host' = [host EXCEPT ![l] = heir]
          PROVE  Room!TypeOK' /\ Room!HostSitsInside'
      BY <3>1, <3>4
    <3> QED BY <2>4, <3>2, <3>3, <3>4 DEF Room!remove
  <2> QED BY <2>1, <2>2, <2>3, <2>4 DEF Room!Next
<1> QED BY <1>1, <1>2, PTL DEF Room!Spec

---------------------------------------------------------------------------
(* Mail.                                                                   *)

\* What the server sends.
Letter ==
  [t : {"lobby.state"}, about : LobbyId]
    \cup [t : {"match.started", "match.rejoinable", "match.results"}, about : MatchId]
    \cup [t : {"lobby.exit"}, about : {None}]

\* What a page asks for.
Wish == {"lobby.create", "lobby.join", "lobby.leave", "lobby.kick", "lobby.start", "match.rejoin"}
Request == [t : Wish, about : LobbyId \cup Account \cup {None}]

Holds(s, t) == \E i \in 1 .. Len(s) : s[i].t = t

\* The last word of a lobby under way is where the account sits, or that it sits nowhere.
StatesAreTrue(s, seat) ==
  \A i \in 1 .. Len(s) : s[i].t = "lobby.state" =>
    s[i].about = seat \/ \E j \in i + 1 .. Len(s) : s[j].t = "lobby.exit"
ExitsAreTrue(s, seat) ==
  \A i \in 1 .. Len(s) : s[i].t = "lobby.exit" =>
    seat = None \/ \E j \in i + 1 .. Len(s) : s[j].t = "lobby.state"

\* The offer of a match is what the page has, or it is under way, and nothing after it undoes it.
Keeps(msg, m) ==
  /\ msg.t \notin {"lobby.state", "match.started", "match.rejoinable"}
  /\ ~(msg.t = "match.results" /\ msg.about = m)
Offered(s, held, m) ==
  \E k \in 0 .. Len(s) :
    /\ IF k = 0 THEN held = m ELSE s[k].t = "match.rejoinable" /\ s[k].about = m
    /\ \A j \in k + 1 .. Len(s) : Keeps(s[j], m)

LEMMA AppendIs ==
  ASSUME NEW T, NEW s \in Seq(T), NEW msg \in T
  PROVE  /\ Append(s, msg) \in Seq(T) /\ Len(Append(s, msg)) = Len(s) + 1 /\ Len(s) \in Nat
         /\ \A i \in 1 .. Len(s) : Append(s, msg)[i] = s[i]
         /\ Append(s, msg)[Len(s) + 1] = msg
         /\ s \o <<msg>> = Append(s, msg) /\ s \o <<>> = s /\ <<>> \o s = s
OBVIOUS

LEMMA TailIs ==
  ASSUME NEW T, NEW s \in Seq(T), s # <<>>
  PROVE  /\ Len(s) \in Nat /\ Len(s) >= 1 /\ Head(s) = s[1] /\ s[1] \in T
         /\ Tail(s) \in Seq(T) /\ Len(Tail(s)) = Len(s) - 1
         /\ \A i \in 1 .. Len(s) - 1 : Tail(s)[i] = s[i + 1]
OBVIOUS

LEMMA HoldsAppended ==
  ASSUME NEW T, NEW s \in Seq(T), NEW msg \in T, NEW t
  PROVE  Holds(Append(s, msg), t) <=> Holds(s, t) \/ msg.t = t
BY AppendIs DEF Holds

LEMMA HoldsTail ==
  ASSUME NEW T, NEW s \in Seq(T), s # <<>>, NEW t
  PROVE  Holds(s, t) <=> Holds(Tail(s), t) \/ Head(s).t = t
<1>0. /\ Len(s) \in Nat /\ Len(s) >= 1 /\ Head(s) = s[1]
      /\ Len(Tail(s)) = Len(s) - 1
      /\ \A i \in 1 .. Len(s) - 1 : Tail(s)[i] = s[i + 1]
  BY TailIs
<1>1. ASSUME Holds(s, t), Head(s).t # t PROVE Holds(Tail(s), t)
  <2>1. PICK i \in 1 .. Len(s) : s[i].t = t
    BY <1>1 DEF Holds
  <2>2. i # 1 /\ i \in Int
    BY <1>0, <1>1, <2>1
  <2>3. i - 1 \in 1 .. Len(s) - 1 /\ (i - 1) + 1 = i
    BY <1>0, <2>1, <2>2
  <2> QED  BY <1>0, <2>1, <2>3 DEF Holds
<1>2. ASSUME Holds(Tail(s), t) PROVE Holds(s, t)
  <2>1. PICK i \in 1 .. Len(s) - 1 : Tail(s)[i].t = t
    BY <1>0, <1>2 DEF Holds
  <2>2. i + 1 \in 1 .. Len(s) /\ s[i + 1].t = t
    BY <1>0, <2>1
  <2> QED  BY <2>2 DEF Holds
<1>3. ASSUME Head(s).t = t PROVE Holds(s, t)
  <2>1. 1 \in 1 .. Len(s) /\ s[1].t = t
    BY <1>0, <1>3
  <2> QED  BY <2>1 DEF Holds
<1> QED  BY <1>1, <1>2, <1>3

\* Mail is true of a seat as it grows: by where the account is put, by its leaving or being put
\* out, and by things that are about no lobby.
LEMMA MailGrows ==
  ASSUME NEW s \in Seq(Letter), NEW msg \in Letter, NEW seat,
         StatesAreTrue(s, seat), ExitsAreTrue(s, seat)
  PROVE  /\ msg.t = "lobby.state" /\ seat \in {None, msg.about}
              => StatesAreTrue(Append(s, msg), msg.about) /\ ExitsAreTrue(Append(s, msg), msg.about)
         /\ msg.t = "lobby.exit"
              => StatesAreTrue(Append(s, msg), None) /\ ExitsAreTrue(Append(s, msg), None)
         /\ msg.t \notin {"lobby.state", "lobby.exit"}
              => StatesAreTrue(Append(s, msg), seat) /\ ExitsAreTrue(Append(s, msg), seat)
<1> DEFINE z == Append(s, msg)
           n == Len(s)
<1>0. /\ n \in Nat /\ Len(z) = n + 1
      /\ \A i \in 1 .. n : z[i] = s[i] /\ i \in 1 .. n + 1
      /\ z[n + 1] = msg
      /\ \A i \in 1 .. n + 1 : i \in 1 .. n \/ i = n + 1
      /\ \A i \in 1 .. n : n + 1 \in i + 1 .. n + 1 /\ \A j \in i + 1 .. n : j \in i + 1 .. n + 1 /\ j \in 1 .. n
  BY AppendIs
<1>1. \A l : (l \in LobbyId) => l # None
  BY SessionAssumption
<1>2. /\ msg.t = "lobby.state" => msg.about \in LobbyId
      /\ \A i \in 1 .. n : s[i] \in Letter
  BY DEF Letter
<1>3. \A i \in 1 .. n : s[i].t = "lobby.state" => s[i].about \in LobbyId
  BY <1>2 DEF Letter
<1> HIDE DEF z, n
<1>4. /\ \A i \in 1 .. n : s[i].t = "lobby.state" =>
            s[i].about = seat \/ \E j \in i + 1 .. n : s[j].t = "lobby.exit"
      /\ \A i \in 1 .. n : s[i].t = "lobby.exit" =>
            seat = None \/ \E j \in i + 1 .. n : s[j].t = "lobby.state"
  BY DEF StatesAreTrue, ExitsAreTrue, n
<1>5. ASSUME msg.t = "lobby.state", seat \in {None, msg.about}
      PROVE  StatesAreTrue(z, msg.about) /\ ExitsAreTrue(z, msg.about)
  <2>1. \A i \in 1 .. n : s[i].t = "lobby.state" =>
           s[i].about = msg.about \/ \E j \in i + 1 .. n : s[j].t = "lobby.exit"
    BY <1>1, <1>3, <1>4, <1>5
  <2>2. StatesAreTrue(z, msg.about)
    BY <1>0, <2>1 DEF StatesAreTrue
  <2>3. ExitsAreTrue(z, msg.about)
    BY <1>0, <1>5 DEF ExitsAreTrue
  <2> QED  BY <2>2, <2>3
<1>6. ASSUME msg.t = "lobby.exit" PROVE StatesAreTrue(z, None) /\ ExitsAreTrue(z, None)
  BY <1>0, <1>6 DEF StatesAreTrue, ExitsAreTrue
<1>7. ASSUME msg.t \notin {"lobby.state", "lobby.exit"}
      PROVE  StatesAreTrue(z, seat) /\ ExitsAreTrue(z, seat)
  <2>1. StatesAreTrue(z, seat)
    BY <1>0, <1>4, <1>7 DEF StatesAreTrue
  <2>2. ExitsAreTrue(z, seat)
    BY <1>0, <1>4, <1>7 DEF ExitsAreTrue
  <2> QED  BY <2>1, <2>2
<1> QED  BY <1>5, <1>6, <1>7 DEF z

\* And as it is taken off.
LEMMA MailShrinks ==
  ASSUME NEW s \in Seq(Letter), s # <<>>, NEW seat,
         StatesAreTrue(s, seat), ExitsAreTrue(s, seat)
  PROVE  /\ StatesAreTrue(Tail(s), seat) /\ ExitsAreTrue(Tail(s), seat)
         /\ Head(s) \in Letter
         /\ Head(s).t = "lobby.state" => Head(s).about = seat \/ Holds(Tail(s), "lobby.exit")
         /\ Head(s).t = "lobby.exit" => seat = None \/ Holds(Tail(s), "lobby.state")
<1> DEFINE z == Tail(s)
           n == Len(s)
<1>0. /\ n \in Nat /\ n >= 1 /\ Head(s) = s[1] /\ s[1] \in Letter
      /\ Len(z) = n - 1
      /\ \A i \in 1 .. n - 1 : z[i] = s[i + 1]
  BY TailIs
<1> HIDE DEF z
<1>1. \A i \in 1 .. n - 1 : i + 1 \in 1 .. n
  BY <1>0
<1>2. ASSUME NEW t, NEW i \in 0 .. n - 1, \E j \in (i + 1) + 1 .. n : s[j].t = t
      PROVE  \E j \in i + 1 .. n - 1 : z[j].t = t
  <2>1. PICK j \in (i + 1) + 1 .. n : s[j].t = t
    BY <1>2
  <2>2. j - 1 \in i + 1 .. n - 1 /\ j - 1 \in 1 .. n - 1 /\ (j - 1) + 1 = j
    BY <1>0, <2>1
  <2> QED  BY <1>0, <2>1, <2>2
<1>3. StatesAreTrue(z, seat)
  <2> SUFFICES ASSUME NEW i \in 1 .. n - 1, z[i].t = "lobby.state"
               PROVE  z[i].about = seat \/ \E j \in i + 1 .. n - 1 : z[j].t = "lobby.exit"
    BY <1>0 DEF StatesAreTrue
  <2>1. s[i + 1].about = seat \/ \E j \in (i + 1) + 1 .. n : s[j].t = "lobby.exit"
    BY <1>0, <1>1 DEF StatesAreTrue
  <2>2. i \in 0 .. n - 1
    BY <1>0
  <2> QED  BY <1>0, <1>2, <2>1, <2>2
<1>4. ExitsAreTrue(z, seat)
  <2> SUFFICES ASSUME NEW i \in 1 .. n - 1, z[i].t = "lobby.exit"
               PROVE  seat = None \/ \E j \in i + 1 .. n - 1 : z[j].t = "lobby.state"
    BY <1>0 DEF ExitsAreTrue
  <2>1. seat = None \/ \E j \in (i + 1) + 1 .. n : s[j].t = "lobby.state"
    BY <1>0, <1>1 DEF ExitsAreTrue
  <2>2. i \in 0 .. n - 1
    BY <1>0
  <2> QED  BY <1>0, <1>2, <2>1, <2>2
<1>5. 1 \in 1 .. n /\ 0 \in 0 .. n - 1 /\ (0 + 1) + 1 = 1 + 1 /\ 0 + 1 = 1
  BY <1>0
<1>6. ASSUME NEW t, \E j \in 1 + 1 .. n : s[j].t = t
      PROVE  Holds(z, t)
  <2>1. \E j \in 0 + 1 .. n - 1 : z[j].t = t
    BY <1>2, <1>5, <1>6
  <2> QED  BY <1>0, <1>5, <2>1 DEF Holds
<1>7. Head(s).t = "lobby.state" => Head(s).about = seat \/ Holds(z, "lobby.exit")
  BY <1>0, <1>5, <1>6 DEF StatesAreTrue
<1>8. Head(s).t = "lobby.exit" => seat = None \/ Holds(z, "lobby.state")
  BY <1>0, <1>5, <1>6 DEF ExitsAreTrue
<1> QED  BY <1>0, <1>3, <1>4, <1>7, <1>8 DEF z

\* An offer stays one as mail is added that does not undo it, and a new one is one.
LEMMA OffersGrow ==
  ASSUME NEW s \in Seq(Letter), NEW msg \in Letter, NEW held, NEW m
  PROVE  /\ Offered(s, held, m) /\ Keeps(msg, m) => Offered(Append(s, msg), held, m)
         /\ msg.t = "match.rejoinable" /\ msg.about = m => Offered(Append(s, msg), held, m)
<1> DEFINE z == Append(s, msg)
           n == Len(s)
<1>0. /\ n \in Nat /\ Len(z) = n + 1
      /\ \A i \in 1 .. n : z[i] = s[i]
      /\ z[n + 1] = msg
  BY AppendIs
<1> HIDE DEF z, n
<1>1. ASSUME Offered(s, held, m), Keeps(msg, m) PROVE Offered(z, held, m)
  <2>1. PICK k \in 0 .. n :
          /\ IF k = 0 THEN held = m ELSE s[k].t = "match.rejoinable" /\ s[k].about = m
          /\ \A j \in k + 1 .. n : Keeps(s[j], m)
    BY <1>1 DEF Offered, n
  <2>2. IF k = 0 THEN held = m ELSE z[k].t = "match.rejoinable" /\ z[k].about = m
    BY <1>0, <2>1
  <2>3. ASSUME NEW j \in k + 1 .. n + 1 PROVE Keeps(z[j], m)
    <3>1. CASE j = n + 1
      BY <1>0, <1>1, <3>1
    <3>2. CASE j # n + 1
      <4>1. j \in k + 1 .. n /\ j \in 1 .. n
        BY <1>0, <2>1, <3>2
      <4>2. z[j] = s[j] /\ Keeps(s[j], m)
        BY <1>0, <2>1, <4>1
      <4> QED  BY <4>2
    <3> QED  BY <3>1, <3>2
  <2>4. k \in 0 .. n + 1
    BY <1>0, <2>1
  <2> QED  BY <1>0, <2>2, <2>3, <2>4 DEF Offered
<1>2. ASSUME msg.t = "match.rejoinable", msg.about = m PROVE Offered(z, held, m)
  <2>1. n + 1 \in 0 .. n + 1 /\ n + 1 # 0 /\ \A j \in (n + 1) + 1 .. n + 1 : FALSE
    BY <1>0
  <2> QED  BY <1>0, <1>2, <2>1 DEF Offered
<1> QED  BY <1>1, <1>2 DEF z

\* The page that takes a message has the offer or still has it coming.
LEMMA OffersShrink ==
  ASSUME NEW s \in Seq(Letter), s # <<>>, NEW held, NEW m, Offered(s, held, m)
  PROVE  \/ /\ held = m /\ Keeps(Head(s), m) /\ Offered(Tail(s), held, m)
         \/ /\ Head(s).t = "match.rejoinable" /\ Head(s).about = m
            /\ Offered(Tail(s), m, m)
         \/ \A kept : Offered(Tail(s), kept, m)
<1> DEFINE z == Tail(s)
           n == Len(s)
<1>0. /\ n \in Nat /\ n >= 1 /\ Head(s) = s[1]
      /\ Len(z) = n - 1
      /\ \A i \in 1 .. n - 1 : z[i] = s[i + 1]
  BY TailIs
<1> HIDE DEF z
<1>1. PICK k \in 0 .. n :
        /\ IF k = 0 THEN held = m ELSE s[k].t = "match.rejoinable" /\ s[k].about = m
        /\ \A j \in k + 1 .. n : Keeps(s[j], m)
  BY DEF Offered
<1> HIDE DEF n
<1>2. \A j \in 1 .. n - 1 : j + 1 \in k + 1 .. n => Keeps(z[j], m)
  BY <1>0, <1>1
<1>3. CASE k = 0
  <2>1. \A j \in 0 + 1 .. n - 1 : j \in 1 .. n - 1 /\ j + 1 \in k + 1 .. n
    BY <1>0, <1>3
  <2>2. 0 \in 0 .. n - 1 /\ 1 \in k + 1 .. n
    BY <1>0, <1>3
  <2>3. Offered(z, held, m)
    BY <1>0, <1>1, <1>2, <1>3, <2>1, <2>2 DEF Offered
  <2> QED  BY <1>0, <1>1, <1>3, <2>2, <2>3 DEF z
<1>4. CASE k = 1
  <2>1. \A j \in 0 + 1 .. n - 1 : j \in 1 .. n - 1 /\ j + 1 \in k + 1 .. n
    BY <1>0, <1>4
  <2>2. 0 \in 0 .. n - 1
    BY <1>0
  <2>3. Offered(z, m, m)
    BY <1>0, <1>2, <2>1, <2>2 DEF Offered
  <2> QED  BY <1>0, <1>1, <1>4, <2>3 DEF z
<1>5. CASE k \notin {0, 1}
  <2>1. /\ k - 1 \in 0 .. n - 1 /\ k - 1 # 0 /\ k - 1 \in 1 .. n - 1 /\ (k - 1) + 1 = k
        /\ \A j \in (k - 1) + 1 .. n - 1 : j \in 1 .. n - 1 /\ j + 1 \in k + 1 .. n
    BY <1>0, <1>1, <1>5
  <2>2. z[k - 1].t = "match.rejoinable" /\ z[k - 1].about = m
    BY <1>0, <1>1, <1>5, <2>1
  <2>3. \A j \in (k - 1) + 1 .. n - 1 : Keeps(z[j], m)
    BY <1>2, <2>1
  <2>4. \A kept : Offered(z, kept, m)
    BY <1>0, <2>1, <2>2, <2>3 DEF Offered
  <2> QED  BY <2>4 DEF z
<1> QED  BY <1>3, <1>4, <1>5

---------------------------------------------------------------------------
(* A page, its mail and its requests, against where its account sits.      *)

\* A page on a lobby's screen shows the account's, or is about to be told to leave; and one that
\* shows neither a lobby nor a match is of an account that sits nowhere, is about to be shown one,
\* or has asked to leave it.
SeesLobby(p, s, o, seat) ==
  /\ ~p.up => s = <<>>
  /\ StatesAreTrue(s, seat) /\ ExitsAreTrue(s, seat)
  /\ p.screen = "lobby" => /\ p.up /\ p.lobby \in LobbyId
                           /\ seat = p.lobby \/ Holds(s, "lobby.exit")
  /\ p.up /\ seat # None /\ p.matchId = None /\ p.screen # "lobby"
       => Holds(s, "lobby.state") \/ Holds(o, "lobby.leave")

\* A page whose account has left a match that goes on is offered it, or has asked for it back.
FindsWay(p, s, o, m) ==
  p.up => Holds(o, "match.rejoin") \/ Offered(s, p.rejoinable, m)

LEMMA EmptyMail ==
  ASSUME NEW seat, NEW t
  PROVE  /\ StatesAreTrue(<<>>, seat) /\ ExitsAreTrue(<<>>, seat) /\ ~Holds(<<>>, t)
         /\ <<>> \in Seq(Letter)
BY DEF StatesAreTrue, ExitsAreTrue, Holds

LEMMA Letters ==
  /\ \A l \in LobbyId : Msg("lobby.state", l) \in Letter
  /\ \A m \in MatchId : \A t \in {"match.started", "match.rejoinable", "match.results"} : Msg(t, m) \in Letter
  /\ Msg("lobby.exit", None) \in Letter
  /\ \A t, x : Msg(t, x).t = t /\ Msg(t, x).about = x
BY DEF Msg, Letter

\* The server's word reaches the page's mail.
LEMMA ServerWords ==
  ASSUME NEW p \in Page, p.up, NEW s \in Seq(Letter), NEW o, NEW seat, NEW m, NEW msg \in Letter
  PROVE  /\ SeesLobby(p, s, o, seat) /\ msg.t = "lobby.state" /\ seat \in {None, msg.about}
              => SeesLobby(p, Append(s, msg), o, msg.about)
         /\ SeesLobby(p, s, o, seat) /\ msg.t = "lobby.exit"
              => SeesLobby(p, Append(s, msg), o, None)
         /\ SeesLobby(p, s, o, seat) /\ msg.t \notin {"lobby.state", "lobby.exit"}
              => SeesLobby(p, Append(s, msg), o, seat)
         /\ FindsWay(p, s, o, m) /\ Keeps(msg, m) => FindsWay(p, Append(s, msg), o, m)
         /\ msg.t = "match.rejoinable" /\ msg.about = m => FindsWay(p, Append(s, msg), o, m)
<1>1. /\ \A t : Holds(Append(s, msg), t) <=> Holds(s, t) \/ msg.t = t
      /\ Append(s, msg) \in Seq(Letter)
  BY HoldsAppended, AppendIs
<1>2. ASSUME SeesLobby(p, s, o, seat), msg.t = "lobby.state", seat \in {None, msg.about}
      PROVE  SeesLobby(p, Append(s, msg), o, msg.about)
  <2>1. StatesAreTrue(Append(s, msg), msg.about) /\ ExitsAreTrue(Append(s, msg), msg.about)
    BY <1>2, MailGrows DEF SeesLobby
  <2>2. p.screen = "lobby" => p.lobby # None
    BY <1>2, SessionAssumption DEF SeesLobby
  <2> QED  BY <1>1, <1>2, <2>1, <2>2 DEF SeesLobby
<1>3. ASSUME SeesLobby(p, s, o, seat), msg.t = "lobby.exit"
      PROVE  SeesLobby(p, Append(s, msg), o, None)
  <2>1. StatesAreTrue(Append(s, msg), None) /\ ExitsAreTrue(Append(s, msg), None)
    BY <1>3, MailGrows DEF SeesLobby
  <2> QED  BY <1>1, <1>3, <2>1 DEF SeesLobby
<1>4. ASSUME SeesLobby(p, s, o, seat), msg.t \notin {"lobby.state", "lobby.exit"}
      PROVE  SeesLobby(p, Append(s, msg), o, seat)
  <2>1. StatesAreTrue(Append(s, msg), seat) /\ ExitsAreTrue(Append(s, msg), seat)
    BY <1>4, MailGrows DEF SeesLobby
  <2> QED  BY <1>1, <1>4, <2>1 DEF SeesLobby
<1>5. /\ FindsWay(p, s, o, m) /\ Keeps(msg, m) => FindsWay(p, Append(s, msg), o, m)
      /\ msg.t = "match.rejoinable" /\ msg.about = m => FindsWay(p, Append(s, msg), o, m)
  BY OffersGrow DEF FindsWay
<1> QED  BY <1>2, <1>3, <1>4, <1>5

\* A departure's two words, the offer before the exit.
LEMMA OfferAndExit ==
  ASSUME NEW p \in Page, p.up, NEW s \in Seq(Letter), NEW o, NEW seat, NEW m \in MatchId,
         SeesLobby(p, s, o, seat)
  PROVE  LET z == s \o (<<Msg("match.rejoinable", m)>> \o <<Msg("lobby.exit", None)>>)
         IN z \in Seq(Letter) /\ SeesLobby(p, z, o, None) /\ FindsWay(p, z, o, m)
<1> DEFINE f == Msg("match.rejoinable", m)
           e == Msg("lobby.exit", None)
           y == Append(s, f)
<1>1. /\ f \in Letter /\ e \in Letter /\ f.t = "match.rejoinable" /\ f.about = m /\ e.t = "lobby.exit"
      /\ <<>> \in Seq(Letter)
  BY Letters, EmptyMail
<1> HIDE DEF f, e
<1>2. s \o (<<f>> \o <<e>>) = Append(y, e) /\ y \in Seq(Letter) /\ Append(y, e) \in Seq(Letter)
  <2>1. <<f>> \in Seq(Letter) /\ <<e>> \in Seq(Letter)
    BY <1>1
  <2>2. s \o (<<f>> \o <<e>>) = (s \o <<f>>) \o <<e>>
    BY <2>1, ConcatAssociative
  <2>3. s \o <<f>> = y /\ y \in Seq(Letter)
    BY <1>1, AppendIs
  <2> HIDE DEF y
  <2>4. y \o <<e>> = Append(y, e) /\ Append(y, e) \in Seq(Letter)
    BY <1>1, <2>3, AppendIs
  <2> QED  BY <2>2, <2>3, <2>4
<1>3. SeesLobby(p, y, o, seat) /\ FindsWay(p, y, o, m)
  BY <1>1, ServerWords
<1>4. Keeps(e, m)
  BY <1>1 DEF Keeps
<1> HIDE DEF y
<1>5. SeesLobby(p, Append(y, e), o, None) /\ FindsWay(p, Append(y, e), o, m)
  BY <1>1, <1>2, <1>3, <1>4, ServerWords
<1> QED  BY <1>2, <1>5 DEF f, e

\* The server takes up a request: only of leaving is anything lost, and of coming back.
LEMMA RequestsRead ==
  ASSUME NEW p \in Page, NEW s \in Seq(Letter), NEW o \in Seq(Request), o # <<>>, NEW seat, NEW m
  PROVE  /\ SeesLobby(p, s, o, seat) /\ (Head(o).t = "lobby.leave" => seat = None)
              => SeesLobby(p, s, Tail(o), seat)
         /\ FindsWay(p, s, o, m) /\ Head(o).t # "match.rejoin" => FindsWay(p, s, Tail(o), m)
<1>1. \A t : Holds(o, t) <=> Holds(Tail(o), t) \/ Head(o).t = t
  BY HoldsTail
<1> QED  BY <1>1 DEF SeesLobby, FindsWay

\* The page makes one.
LEMMA RequestsMade ==
  ASSUME NEW p \in Page, NEW s \in Seq(Letter), NEW o \in Seq(Request), NEW msg \in Request, NEW seat, NEW m
  PROVE  /\ SeesLobby(p, s, o, seat) => SeesLobby(p, s, Append(o, msg), seat)
         /\ FindsWay(p, s, o, m) => FindsWay(p, s, Append(o, msg), m)
         /\ Holds(Append(o, msg), msg.t)
<1>1. \A t : Holds(Append(o, msg), t) <=> Holds(o, t) \/ msg.t = t
  BY HoldsAppended
<1> QED  BY <1>1 DEF SeesLobby, FindsWay

\* What each message makes of a page.
LEMMA AfterIs ==
  ASSUME NEW p \in Page, NEW msg \in Letter
  PROVE  LET q == After(p, msg)
         IN /\ q \in Page /\ q.up = p.up
            /\ msg.t = "lobby.state" =>
                 IF p.matchId # None THEN q = p
                 ELSE q.screen = "lobby" /\ q.lobby = msg.about /\ q.matchId = None
            /\ msg.t = "lobby.exit" => q.screen = "menu" /\ q.matchId = p.matchId
            /\ msg.t = "match.started" => q.screen = "match" /\ q.matchId # None
            /\ msg.t = "match.rejoinable" =>
                 /\ q.screen = p.screen /\ q.lobby = p.lobby /\ q.matchId = p.matchId
                 /\ q.rejoinable = msg.about
            /\ msg.t = "match.results" =>
                 /\ \/ q.screen = p.screen /\ q.lobby = p.lobby /\ q.matchId = p.matchId
                    \/ q.screen = "results" /\ q.matchId # None
                 /\ q.rejoinable = p.rejoinable \/ (q.rejoinable = None /\ p.rejoinable = msg.about)
            /\ msg.t = "lobby.exit" => q.rejoinable = p.rejoinable
<1>1. CASE msg.t = "lobby.state"
  <2>1. msg.about \in LobbyId /\ After(p, msg) = AfterLobbyState(p, msg.about)
    BY <1>1 DEF After, Letter
  <2>2. CASE p.matchId # None
    BY <1>1, <2>1, <2>2 DEF AfterLobbyState
  <2>3. CASE p.matchId = None
    <3>1. After(p, msg) = [p EXCEPT !.screen = "lobby", !.lobby = msg.about, !.rejoinable = None]
      BY <2>1, <2>3 DEF AfterLobbyState
    <3> QED  BY <1>1, <2>1, <2>3, <3>1 DEF Page, Screen
  <2> QED  BY <2>2, <2>3
<1>2. CASE msg.t = "match.started"
  <2>1. msg.about \in MatchId
    BY <1>2 DEF Letter
  <2>2. After(p, msg) = [p EXCEPT !.screen = "match", !.matchId = msg.about, !.lobby = None, !.rejoinable = None]
    BY <1>2 DEF After, Started
  <2>3. msg.about # None
    BY <2>1, SessionAssumption
  <2> QED  BY <1>2, <2>1, <2>2, <2>3 DEF Page, Screen
<1>3. CASE msg.t = "match.rejoinable"
  <2>1. msg.about \in MatchId /\ After(p, msg) = [p EXCEPT !.rejoinable = msg.about]
    BY <1>3 DEF After, Letter
  <2> QED  BY <1>3, <2>1 DEF Page
<1>4. CASE msg.t = "match.results"
  <2>1. msg.about \in MatchId /\ msg.about # None /\ After(p, msg) = AfterResults(p, msg.about)
    BY <1>4, SessionAssumption DEF After, Letter
  <2>2. CASE p.rejoinable = msg.about
    <3>1. After(p, msg) = [p EXCEPT !.rejoinable = None]
      BY <2>1, <2>2 DEF AfterResults
    <3> QED  BY <1>4, <2>2, <3>1 DEF Page
  <2>3. CASE p.rejoinable # msg.about /\ p.matchId \in {None, msg.about}
    <3>1. After(p, msg) = [p EXCEPT !.screen = "results", !.matchId = msg.about]
      BY <2>1, <2>3 DEF AfterResults
    <3> QED  BY <1>4, <2>1, <3>1 DEF Page, Screen
  <2>4. CASE p.rejoinable # msg.about /\ p.matchId \notin {None, msg.about}
    BY <1>4, <2>1, <2>4 DEF AfterResults
  <2> QED  BY <2>2, <2>3, <2>4
<1>5. CASE msg.t = "lobby.exit"
  <2>1. After(p, msg) = [p EXCEPT !.screen = "menu", !.lobby = None]
    BY <1>5 DEF After
  <2> QED  BY <1>5, <2>1 DEF Page, Screen
<1>6. msg.t \in {"lobby.state", "match.started", "match.rejoinable", "match.results", "lobby.exit"}
  BY DEF Letter
<1> QED  BY <1>1, <1>2, <1>3, <1>4, <1>5, <1>6

\* A page that takes its next message.
LEMMA MessageTaken ==
  ASSUME NEW p \in Page, NEW s \in Seq(Letter), s # <<>>, NEW o, NEW seat \in LobbyId \cup {None},
         SeesLobby(p, s, o, seat)
  PROVE  LET q == After(p, Head(s))
         IN /\ q \in Page /\ q.up = p.up /\ Tail(s) \in Seq(Letter)
            /\ SeesLobby(q, Tail(s), o, seat)
            /\ \A m \in MatchId : FindsWay(p, s, o, m) => FindsWay(q, Tail(s), o, m)
<1> DEFINE msg == Head(s)
           q == After(p, msg)
           z == Tail(s)
<1>1. /\ StatesAreTrue(z, seat) /\ ExitsAreTrue(z, seat) /\ msg \in Letter
      /\ msg.t = "lobby.state" => msg.about = seat \/ Holds(z, "lobby.exit")
      /\ msg.t = "lobby.exit" => seat = None \/ Holds(z, "lobby.state")
      /\ z \in Seq(Letter) /\ p.up
      /\ \A t : Holds(s, t) <=> Holds(z, t) \/ msg.t = t
  BY MailShrinks, TailIs, HoldsTail DEF SeesLobby
<1>2. \A m : Offered(s, p.rejoinable, m) =>
        \/ p.rejoinable = m /\ Keeps(msg, m) /\ Offered(z, p.rejoinable, m)
        \/ msg.t = "match.rejoinable" /\ msg.about = m /\ Offered(z, m, m)
        \/ \A kept : Offered(z, kept, m)
  BY OffersShrink
<1> HIDE DEF msg, z
<1>3. /\ q \in Page /\ q.up = p.up
      /\ msg.t = "lobby.state" =>
           IF p.matchId # None THEN q = p
           ELSE q.screen = "lobby" /\ q.lobby = msg.about /\ q.matchId = None
      /\ msg.t = "lobby.exit" => q.screen = "menu" /\ q.matchId = p.matchId
      /\ msg.t = "match.started" => q.screen = "match" /\ q.matchId # None
      /\ msg.t = "match.rejoinable" =>
           /\ q.screen = p.screen /\ q.lobby = p.lobby /\ q.matchId = p.matchId
           /\ q.rejoinable = msg.about
      /\ msg.t = "match.results" =>
           /\ \/ q.screen = p.screen /\ q.lobby = p.lobby /\ q.matchId = p.matchId
              \/ q.screen = "results" /\ q.matchId # None
           /\ q.rejoinable = p.rejoinable \/ (q.rejoinable = None /\ p.rejoinable = msg.about)
      /\ msg.t = "lobby.exit" => q.rejoinable = p.rejoinable
      /\ msg.t = "lobby.state" => msg.about \in LobbyId
  BY <1>1, AfterIs DEF Letter
<1>4. msg.t \in {"lobby.state", "match.started", "match.rejoinable", "match.results", "lobby.exit"}
  BY <1>1 DEF Letter
<1> HIDE DEF q
<1>5. q.screen = "lobby" => /\ q.up /\ q.lobby \in LobbyId
                            /\ seat = q.lobby \/ Holds(z, "lobby.exit")
  <2>1. CASE msg.t = "lobby.state"
    BY <1>1, <1>3, <2>1 DEF SeesLobby
  <2>2. CASE msg.t \in {"match.started", "lobby.exit"}
    BY <1>3, <2>2
  <2>3. CASE msg.t \in {"match.rejoinable", "match.results"}
    BY <1>1, <1>3, <2>3 DEF SeesLobby
  <2> QED  BY <1>4, <2>1, <2>2, <2>3
<1>6. q.up /\ seat # None /\ q.matchId = None /\ q.screen # "lobby"
        => Holds(z, "lobby.state") \/ Holds(o, "lobby.leave")
  <2>1. CASE msg.t = "lobby.state"
    BY <1>1, <1>3, <2>1 DEF SeesLobby
  <2>2. CASE msg.t = "lobby.exit"
    BY <1>1, <2>2
  <2>3. CASE msg.t \in {"match.rejoinable", "match.results", "match.started"}
    BY <1>1, <1>3, <2>3 DEF SeesLobby
  <2> QED  BY <1>4, <2>1, <2>2, <2>3
<1>7. SeesLobby(q, z, o, seat)
  BY <1>1, <1>3, <1>5, <1>6 DEF SeesLobby
<1>8. ASSUME NEW m \in MatchId, FindsWay(p, s, o, m), ~Holds(o, "match.rejoin")
      PROVE  Offered(z, q.rejoinable, m)
  <2>1. CASE p.rejoinable = m /\ Keeps(msg, m) /\ Offered(z, p.rejoinable, m)
    <3>1. q.rejoinable = p.rejoinable
      BY <1>3, <1>4, <2>1 DEF Keeps
    <3> QED  BY <2>1, <3>1
  <2>2. CASE msg.t = "match.rejoinable" /\ msg.about = m /\ Offered(z, m, m)
    BY <1>3, <2>2
  <2> QED  BY <1>1, <1>2, <1>8, <2>1, <2>2 DEF FindsWay
<1> QED  BY <1>1, <1>3, <1>7, <1>8 DEF FindsWay, q, msg, z

---------------------------------------------------------------------------
(* The seats of a match, from where its players sit.                       *)

\* Whoever sits in a lobby has not left the match it is seated in: entering a lobby gives an old
\* match up, and leaving one, or going off line, is what vacates a seat.
SeatedPlay ==
  \A a \in Account : membership[a] # None /\ byAccount[a] \in Running =>
    a \in matches[byAccount[a]].connected

\* The account has left a match that goes on without it.
Vacated(a) ==
  membership[a] = None /\ byAccount[a] \in Running /\ a \notin matches[byAccount[a]].connected

\* What marking a seat leaves of everything else.
LEMMA OthersUnmarked ==
  ASSUME TypeOK, SeatIsReal, NEW a \in Account, NEW on \in BOOLEAN, matches' = SeatMarked(a, on)
  PROVE  \A m \in MatchId :
           /\ matches'[m].phase = matches[m].phase
           /\ \A b \in Account : b # a => (b \in matches'[m].connected <=> b \in matches[m].connected)
           /\ on /\ byAccount[a] = m => a \in matches'[m].connected
           /\ on /\ a \in matches[m].connected => a \in matches'[m].connected
           /\ ~on /\ byAccount[a] = m => a \notin matches'[m].connected
           /\ byAccount[a] # m => matches'[m] = matches[m]
<1>1. CASE byAccount[a] = None
  BY <1>1, SessionAssumption DEF SeatMarked
<1>2. CASE byAccount[a] # None
  <2>1. /\ byAccount[a] \in MatchId /\ matches \in [MatchId -> MatchRecord]
        /\ a \in matches[byAccount[a]].players
    BY <1>2 DEF TypeOK, SeatIsReal
  <2>2. CASE on
    <3>1. matches' = [matches EXCEPT ![byAccount[a]].connected = @ \cup ({a} \cap matches[byAccount[a]].players)]
      BY <1>2, <2>2 DEF SeatMarked
    <3> DEFINE r == matches[byAccount[a]]
    <3>2. /\ \A m \in MatchId : m # byAccount[a] => matches'[m] = matches[m]
          /\ matches'[byAccount[a]] = [r EXCEPT !.connected = @ \cup ({a} \cap r.players)]
      BY <2>1, <3>1
    <3>3. r \in MatchRecord /\ a \in r.players
      BY <2>1
    <3> HIDE DEF r
    <3>4. /\ matches'[byAccount[a]].phase = r.phase
          /\ matches'[byAccount[a]].connected = r.connected \cup {a}
      BY <3>2, <3>3 DEF MatchRecord
    <3> QED  BY <2>1, <2>2, <3>2, <3>4 DEF r
  <2>3. CASE ~on
    <3>1. matches' = [matches EXCEPT ![byAccount[a]].connected = @ \ {a}]
      BY <1>2, <2>3 DEF SeatMarked
    <3> QED  BY <2>1, <2>3, <3>1 DEF MatchRecord
  <2> QED  BY <2>2, <2>3
<1> QED  BY <1>1, <1>2

\* A step that begins no match and marks only the seat of one account.
LEMMA SeatsAfter ==
  ASSUME Held, SeatedPlay, NEW a \in Account,
         \A b \in Account : b # a => membership'[b] = membership[b] /\ byAccount'[b] = byAccount[b],
         \A m \in MatchId :
           /\ matches'[m].phase = matches[m].phase
           /\ \A b \in Account : b # a => (b \in matches'[m].connected <=> b \in matches[m].connected),
         membership'[a] # None /\ byAccount'[a] \in Running' => a \in matches'[byAccount'[a]].connected
  PROVE  SeatedPlay' /\ \A b \in Account : b # a /\ Vacated(b)' => Vacated(b)
<1>1. ASSUME NEW b \in Account, b # a
      PROVE  /\ membership'[b] # None /\ byAccount'[b] \in Running' => b \in matches'[byAccount'[b]].connected
             /\ Vacated(b)' => Vacated(b)
  BY <1>1 DEF SeatedPlay, Vacated, Running
<1> QED  BY <1>1 DEF SeatedPlay

LEMMA SeatsAfterSockets ==
  ASSUME Held, SeatedPlay, NEW a \in Account
  PROVE  /\ accept(a) => /\ SeatedPlay' /\ \A b \in Account : Vacated(b)' => Vacated(b)
                         /\ Vacated(a)' => ~Resumes(a)
         /\ onClose(a) => SeatedPlay' /\ \A b \in Account : b # a /\ Vacated(b)' => Vacated(b)
         /\ onReplacedClose(a) => SeatedPlay' /\ \A b \in Account : Vacated(b)' => Vacated(b)
<1>0. TypeOK /\ SeatIsReal
  BY DEF Held
<1>1. ASSUME accept(a)
      PROVE  /\ SeatedPlay' /\ \A b \in Account : Vacated(b)' => Vacated(b)
             /\ Vacated(a)' => ~Resumes(a)
  <2>1. UNCHANGED <<membership, byAccount>>
    BY <1>1 DEF accept, seating
  <2>2. CASE Resumes(a)
    <3>1. matches' = SeatMarked(a, TRUE)
      BY <1>1, <2>2 DEF accept
    <3>2. \A m \in MatchId :
            /\ matches'[m].phase = matches[m].phase
            /\ \A b \in Account : b # a => (b \in matches'[m].connected <=> b \in matches[m].connected)
            /\ byAccount[a] = m => a \in matches'[m].connected
      BY <1>0, <3>1, OthersUnmarked
    <3>3. \A m \in Running' : m \in MatchId
      BY DEF Running
    <3>4. byAccount'[a] \in Running' => a \in matches'[byAccount'[a]].connected
      BY <2>1, <3>2, <3>3
    <3>5. ~Vacated(a)'
      BY <3>4 DEF Vacated
    <3> QED  BY <2>1, <3>2, <3>4, <3>5, SeatsAfter
  <2>3. CASE ~Resumes(a)
    <3>1. matches' = matches
      BY <1>1, <2>3 DEF accept
    <3> QED  BY <2>1, <2>3, <3>1 DEF SeatedPlay, Vacated, Running
  <2> QED  BY <2>2, <2>3
<1>2. ASSUME onClose(a)
      PROVE  SeatedPlay' /\ \A b \in Account : b # a /\ Vacated(b)' => Vacated(b)
  <2>1. /\ matches' = SeatMarked(a, FALSE) /\ UNCHANGED byAccount /\ Vacate(a)
    BY <1>2 DEF onClose, Detach
  <2>2. membership'[a] = None /\ \A b \in Account : b # a => membership'[b] = membership[b]
    BY <1>0, <2>1 DEF Vacate, seating, Room!remove, TypeOK, Room!TypeOK
  <2>3. \A m \in MatchId :
          /\ matches'[m].phase = matches[m].phase
          /\ \A b \in Account : b # a => (b \in matches'[m].connected <=> b \in matches[m].connected)
    BY <1>0, <2>1, OthersUnmarked
  <2> QED  BY <2>1, <2>2, <2>3, SeatsAfter
<1>3. ASSUME onReplacedClose(a)
      PROVE  SeatedPlay' /\ \A b \in Account : Vacated(b)' => Vacated(b)
  BY <1>3 DEF onReplacedClose, seating, SeatedPlay, Vacated, Running
<1> QED  BY <1>1, <1>2, <1>3

LEMMA SeatsAfterMessages ==
  ASSUME Held, SeatedPlay, NEW a \in Account
  PROVE  /\ \A l \in LobbyId : create(a, l) \/ join(a, l) =>
              /\ SeatedPlay' /\ \A b \in Account : Vacated(b)' => Vacated(b) /\ byAccount'[b] = byAccount[b]
              /\ membership'[a] = l /\ membership[a] = None
              /\ \A b \in Account : b # a => membership'[b] = membership[b]
         /\ leave(a) =>
              /\ SeatedPlay'
              /\ \A b \in Account : b # a /\ Vacated(b)' => Vacated(b)
              /\ Vacated(a)' => byAccount[a] \in Running
              /\ UNCHANGED byAccount
              /\ membership'[a] = None /\ membership[a] # None
              /\ \A b \in Account : b # a => membership'[b] = membership[b]
         /\ \A target \in Account : kick(a, target) =>
              /\ SeatedPlay' /\ \A b \in Account : Vacated(b)' => Vacated(b)
              /\ UNCHANGED byAccount
              /\ membership'[target] = None /\ membership[target] = membership[a] /\ membership[a] # None
              /\ \A b \in Account : b # target => membership'[b] = membership[b]
         /\ \A m \in MatchId : start(a, m) =>
              /\ SeatedPlay' /\ \A b \in Account : Vacated(b)' => Vacated(b)
              /\ UNCHANGED <<byAccount, membership>>
         /\ rejoin(a) =>
              /\ SeatedPlay' /\ \A b \in Account : Vacated(b)' => Vacated(b)
              /\ ~Vacated(a)' /\ UNCHANGED <<byAccount, membership>>
<1>0. /\ TypeOK /\ SeatIsReal /\ Room!TypeOK
      /\ membership \in [Account -> LobbyId \cup {None}]
      /\ byAccount \in [Account -> MatchId \cup {None}]
  BY DEF Held, TypeOK, Room!TypeOK
<1>1. ASSUME NEW l \in LobbyId, create(a, l) \/ join(a, l)
      PROVE  /\ SeatedPlay' /\ \A b \in Account : Vacated(b)' => Vacated(b) /\ byAccount'[b] = byAccount[b]
             /\ membership'[a] = l /\ membership[a] = None
             /\ \A b \in Account : b # a => membership'[b] = membership[b]
  <2>1. /\ membership' = [membership EXCEPT ![a] = l] /\ membership[a] = None
        /\ byAccount' = [byAccount EXCEPT ![a] = None] /\ UNCHANGED matches
    BY <1>1 DEF create, join, Room!create, Room!join
  <2>2. byAccount'[a] \notin Running'
    BY <1>0, <2>1, SessionAssumption DEF Running
  <2>3. ~Vacated(a)'
    BY <2>2 DEF Vacated
  <2>4. SeatedPlay' /\ \A b \in Account : b # a /\ Vacated(b)' => Vacated(b)
    BY <1>0, <2>1, <2>2, SeatsAfter
  <2> QED  BY <1>0, <2>1, <2>3, <2>4
<1>2. ASSUME leave(a)
      PROVE  /\ SeatedPlay'
             /\ \A b \in Account : b # a /\ Vacated(b)' => Vacated(b)
             /\ Vacated(a)' => byAccount[a] \in Running
             /\ UNCHANGED byAccount
             /\ membership'[a] = None /\ membership[a] # None
             /\ \A b \in Account : b # a => membership'[b] = membership[b]
  <2>1. /\ matches' = SeatMarked(a, FALSE) /\ UNCHANGED byAccount /\ membership[a] # None
        /\ membership' = [membership EXCEPT ![a] = None]
    BY <1>2 DEF leave, Room!remove
  <2>2. membership'[a] = None /\ \A b \in Account : b # a => membership'[b] = membership[b]
    BY <1>0, <2>1
  <2>3. \A m \in MatchId :
          /\ matches'[m].phase = matches[m].phase
          /\ \A b \in Account : b # a => (b \in matches'[m].connected <=> b \in matches[m].connected)
    BY <1>0, <2>1, OthersUnmarked
  <2>4. Running' = Running
    BY <2>3 DEF Running
  <2>5. Vacated(a)' => byAccount[a] \in Running
    BY <2>1, <2>4 DEF Vacated
  <2>6. SeatedPlay' /\ \A b \in Account : b # a /\ Vacated(b)' => Vacated(b)
    BY <2>1, <2>2, <2>3, SeatsAfter
  <2> QED  BY <2>1, <2>2, <2>5, <2>6
<1>3. ASSUME NEW target \in Account, kick(a, target)
      PROVE  /\ SeatedPlay' /\ \A b \in Account : Vacated(b)' => Vacated(b)
             /\ UNCHANGED byAccount
             /\ membership'[target] = None /\ membership[target] = membership[a] /\ membership[a] # None
             /\ \A b \in Account : b # target => membership'[b] = membership[b]
  <2>1. /\ membership' = [membership EXCEPT ![target] = None] /\ UNCHANGED <<matches, byAccount>>
        /\ membership[target] = membership[a] /\ membership[a] # None
    BY <1>3 DEF kick, Room!remove, MayKick, Presides
  <2>2. membership'[target] = None /\ \A b \in Account : b # target => membership'[b] = membership[b]
    BY <1>0, <2>1
  <2>3. SeatedPlay' /\ \A b \in Account : b # target /\ Vacated(b)' => Vacated(b)
    BY <2>1, <2>2, SeatsAfter
  <2>4. ~Vacated(target)'
    BY <2>1 DEF Vacated, SeatedPlay, Running
  <2> QED  BY <2>1, <2>2, <2>3, <2>4
<1>4. ASSUME NEW m \in MatchId, start(a, m)
      PROVE  /\ SeatedPlay' /\ \A b \in Account : Vacated(b)' => Vacated(b)
             /\ UNCHANGED <<byAccount, membership>>
  <2>1. /\ UNCHANGED <<byAccount, membership>> /\ matches[m].phase = "unused"
        /\ \E r : r.phase = "loading" /\ matches' = [matches EXCEPT ![m] = r]
    BY <1>4 DEF start, seating
  <2>2. \A n \in Running' : n \in Running /\ matches'[n] = matches[n]
    BY <1>0, <2>1 DEF Running, TypeOK
  <2> QED  BY <2>1, <2>2 DEF SeatedPlay, Vacated
<1>5. ASSUME rejoin(a)
      PROVE  /\ SeatedPlay' /\ \A b \in Account : Vacated(b)' => Vacated(b)
             /\ ~Vacated(a)' /\ UNCHANGED <<byAccount, membership>>
  <2>1. matches' = SeatMarked(a, TRUE) /\ UNCHANGED <<byAccount, membership>>
    BY <1>5 DEF rejoin, seating
  <2>2. \A m \in MatchId :
          /\ matches'[m].phase = matches[m].phase
          /\ \A b \in Account : b # a => (b \in matches'[m].connected <=> b \in matches[m].connected)
          /\ byAccount[a] = m => a \in matches'[m].connected
    BY <1>0, <2>1, OthersUnmarked
  <2>3. byAccount'[a] \in Running' => a \in matches'[byAccount'[a]].connected
    BY <2>1, <2>2 DEF Running
  <2>4. ~Vacated(a)'
    BY <2>3 DEF Vacated
  <2> QED  BY <2>1, <2>2, <2>3, <2>4, SeatsAfter
<1> QED  BY <1>1, <1>2, <1>3, <1>4, <1>5

\* A match that begins seats its whole roster as playing, one that ends is nobody's to come back to.
LEMMA SeatsAfterMatches ==
  ASSUME Held, SeatedPlay, NEW m \in MatchId
  PROVE  /\ store(m) =>
              /\ SeatedPlay' /\ UNCHANGED membership
              /\ \A b \in Account : Vacated(b)' =>
                   Vacated(b) /\ byAccount'[b] = byAccount[b] /\ b \notin matches[m].players
         /\ startFails(m) =>
              /\ SeatedPlay' /\ UNCHANGED <<membership, byAccount>>
              /\ \A b \in Account : Vacated(b)' => Vacated(b)
         /\ decideAbandonment(m) \/ decideMatch(m) =>
              /\ SeatedPlay' /\ UNCHANGED <<membership, byAccount>>
              /\ \A b \in Account : Vacated(b)' => Vacated(b) /\ byAccount[b] # m
<1>0. /\ TypeOK /\ SeatIsReal /\ matches \in [MatchId -> MatchRecord]
      /\ byAccount \in [Account -> MatchId \cup {None}]
  BY DEF Held, TypeOK
<1>1. ASSUME store(m)
      PROVE  /\ SeatedPlay' /\ UNCHANGED membership
             /\ \A b \in Account : Vacated(b)' =>
                  Vacated(b) /\ byAccount'[b] = byAccount[b] /\ b \notin matches[m].players
  <2>1. /\ UNCHANGED membership /\ matches[m].phase = "loading"
        /\ byAccount' = [a \in Account |-> IF a \in matches[m].players THEN m ELSE byAccount[a]]
        /\ matches' = [matches EXCEPT ![m] =
             [phase |-> "running", starter |-> None,
              players |-> matches[m].players, connected |-> matches[m].players]]
    BY <1>1 DEF store, seating
  <2>2. matches'[m].connected = matches[m].players /\ \A n \in MatchId : n # m => matches'[n] = matches[n]
    BY <1>0, <2>1
  <2>3. ASSUME NEW b \in Account, byAccount'[b] \in Running', b \notin matches'[byAccount'[b]].connected
        PROVE  /\ b \notin matches[m].players /\ byAccount'[b] = byAccount[b]
               /\ byAccount[b] \in Running /\ matches'[byAccount[b]] = matches[byAccount[b]]
    <3>1. b \notin matches[m].players /\ byAccount'[b] = byAccount[b]
      BY <2>1, <2>2, <2>3
    <3>2. byAccount[b] \in MatchId /\ byAccount[b] # None
      BY <2>3, <3>1, SessionAssumption DEF Running
    <3>3. byAccount[b] # m
      BY <1>0, <2>1, <3>2 DEF SeatIsReal
    <3> QED  BY <2>2, <2>3, <3>1, <3>2, <3>3 DEF Running
  <2> QED  BY <2>1, <2>3 DEF SeatedPlay, Vacated
<1>2. ASSUME startFails(m)
      PROVE  /\ SeatedPlay' /\ UNCHANGED <<membership, byAccount>>
             /\ \A b \in Account : Vacated(b)' => Vacated(b)
  <2>1. /\ UNCHANGED <<membership, byAccount>> /\ matches' = [matches EXCEPT ![m] = NoMatch]
    BY <1>2 DEF startFails, seating
  <2>2. \A n \in Running' : n \in Running /\ matches'[n] = matches[n]
    BY <1>0, <2>1 DEF Running, NoMatch
  <2> QED  BY <2>1, <2>2 DEF SeatedPlay, Vacated
<1>3. ASSUME decideAbandonment(m) \/ decideMatch(m)
      PROVE  /\ SeatedPlay' /\ UNCHANGED <<membership, byAccount>>
             /\ \A b \in Account : Vacated(b)' => Vacated(b) /\ byAccount[b] # m
  <2>1. /\ UNCHANGED <<membership, byAccount>> /\ matches' = [matches EXCEPT ![m].phase = "over"]
    BY <1>3 DEF decideAbandonment, decideMatch, seating
  <2>2. \A n \in Running' : n \in Running /\ matches'[n] = matches[n] /\ n # m
    BY <1>0, <2>1 DEF Running, MatchRecord
  <2> QED  BY <2>1, <2>2 DEF SeatedPlay, Vacated
<1> QED  BY <1>1, <1>2, <1>3

---------------------------------------------------------------------------
(* Pages, mail and seats together.                                         *)

ClientTyped ==
  /\ page \in [Account -> Page]
  /\ inbox \in [Account -> Seq(Letter)] /\ outbox \in [Account -> Seq(Request)]

ClientInv ==
  /\ ClientTyped /\ Held /\ SeatedPlay
  /\ OpenSocketIsRegistered
  /\ \A a \in Account : SeesLobby(page[a], inbox[a], outbox[a], membership[a])
  /\ \A a \in Account : Vacated(a) => FindsWay(page[a], inbox[a], outbox[a], byAccount[a])

\* What the clients do to the session is what a session does.
LEMMA ClientStepsAreSessionSteps == [NextClient]_allVars => [Next]_vars
<1>1. ASSUME NEW a \in Account, Answer(a) PROVE [Next]_vars
  BY <1>1, Zenon DEF Answer, createRead, joinRead, leaveRead, kickRead, startRead, rejoinRead, Refused,
     Next, Message, vars, seating
<1>2. ASSUME Server PROVE [Next]_vars
  <2>1. ASSUME NEW a \in Account, lobbyChanged(a) PROVE UNCHANGED vars
    BY <2>1 DEF lobbyChanged, vars, seating
  <2>2. ASSUME NEW m \in MatchId, startBroadcast(m) \/ startFails(m) \/ conclude(m)
        PROVE  Next
    BY <2>2 DEF startBroadcast, conclude, Next
  <2>3. ASSUME NEW a \in Account, onReplacedClose(a) \/ onClose(a) PROVE Next
    BY <2>3 DEF Next, Socket
  <2> QED  BY <1>1, <1>2, <2>1, <2>2, <2>3, Zenon DEF Server
<1>3. ASSUME NEW a \in Account, Player(a) PROVE [Next]_vars
  <2>1. CASE connect(a)
    BY <2>1 DEF connect, Next, Socket
  <2>2. CASE ~connect(a)
    BY <1>3, <2>2, Zenon DEF Player, receive, drop, reload, leaveMatch, rejoinMatch, Click
  <2> QED  BY <2>1, <2>2
<1>4. UNCHANGED allVars => UNCHANGED vars
  BY DEF allVars, vars
<1> QED  BY <1>2, <1>3, <1>4 DEF NextClient

\* A page that is not on line has nothing to be told, and shows no lobby.
LEMMA NobodyLooks ==
  ASSUME NEW p, ~p.up, NEW s, NEW o, NEW seat, SeesLobby(p, s, o, seat), NEW q, NEW other, NEW m
  PROVE  SeesLobby(p, s, q, other) /\ FindsWay(p, s, q, m)
<1>1. s = <<>>
  BY DEF SeesLobby
<1> QED  BY <1>1, EmptyMail DEF SeesLobby, FindsWay

\* Mail that goes out goes to the pages on line, and nobody loses any.
LEMMA MailGoesOut ==
  ASSUME ClientInv, NEW owed, inbox' = Sent(inbox, owed), NEW b \in Account
  PROVE  inbox'[b] = IF page[b].up THEN inbox[b] \o owed[b] ELSE inbox[b]
BY DEF ClientInv, OpenSocketIsRegistered, Sent, Listening

LEMMA Broadcasts ==
  ASSUME ClientInv, NEW a \in Account, NEW l, NEW members, NEW own, Broadcast(l, members, a, own),
         NEW b \in Account
  PROVE  /\ b # a \/ own = <<>> =>
              inbox'[b] = IF page[b].up /\ b \in members THEN Append(inbox[b], Msg("lobby.state", l))
                          ELSE inbox[b]
         /\ b = a /\ b \notin members /\ own \in Seq(Letter) =>
              inbox'[b] = IF page[b].up THEN inbox[b] \o own ELSE inbox[b]
<1> DEFINE owed == [c \in Account |-> (IF c = a THEN own ELSE <<>>) \o
                      (IF c \in members THEN <<Msg("lobby.state", l)>> ELSE <<>>)]
           letter == Msg("lobby.state", l)
<1>1. inbox'[b] = IF page[b].up THEN inbox[b] \o owed[b] ELSE inbox[b]
  <2>1. inbox' = Sent(inbox, owed)
    BY DEF Broadcast
  <2> HIDE DEF owed
  <2> QED  BY <2>1, MailGoesOut
<1>2. owed[b] = (IF b = a THEN own ELSE <<>>) \o (IF b \in members THEN <<letter>> ELSE <<>>)
  OBVIOUS
<1> HIDE DEF owed, letter
<1>3. inbox[b] \in Seq(Letter)
  BY DEF ClientInv, ClientTyped
<1>4. <<>> \o <<letter>> = <<letter>> /\ <<>> \o <<>> = <<>>
  OBVIOUS
<1>5. inbox[b] \o <<letter>> = Append(inbox[b], letter) /\ inbox[b] \o <<>> = inbox[b]
  BY <1>3
<1>6. own \in Seq(Letter) => own \o <<>> = own
  OBVIOUS
<1> QED  BY <1>1, <1>2, <1>4, <1>5, <1>6 DEF letter

\* What a broadcast is to those who are not the one it is about.
LEMMA TheRestHear ==
  ASSUME ClientInv, NEW a \in Account, NEW l, NEW members, NEW own, Broadcast(l, members, a, own),
         NEW b \in Account, b # a \/ own = <<>>, NEW seat,
         IF b \in members THEN l \in LobbyId /\ membership[b] \in {None, l} /\ seat = l
         ELSE ~page[b].up \/ seat = membership[b]
  PROVE  /\ inbox'[b] \in Seq(Letter) /\ SeesLobby(page[b], inbox'[b], outbox[b], seat)
         /\ \A m : b \notin members /\ FindsWay(page[b], inbox[b], outbox[b], m)
              => FindsWay(page[b], inbox'[b], outbox[b], m)
<1>0. /\ page[b] \in Page /\ inbox[b] \in Seq(Letter)
      /\ SeesLobby(page[b], inbox[b], outbox[b], membership[b])
      /\ inbox'[b] = IF page[b].up /\ b \in members THEN Append(inbox[b], Msg("lobby.state", l))
                     ELSE inbox[b]
  BY Broadcasts DEF ClientInv, ClientTyped
<1>1. CASE ~page[b].up
  BY <1>0, <1>1, NobodyLooks
<1>2. CASE page[b].up /\ b \in members
  <2> DEFINE letter == Msg("lobby.state", l)
  <2>1. letter \in Letter /\ letter.t = "lobby.state" /\ letter.about = l
    BY <1>2, Letters
  <2> HIDE DEF letter
  <2>2. SeesLobby(page[b], Append(inbox[b], letter), outbox[b], letter.about)
    BY <1>0, <1>2, <2>1, ServerWords
  <2> QED  BY <1>0, <1>2, <2>1, <2>2, AppendIs DEF letter
<1>3. CASE page[b].up /\ b \notin members
  BY <1>0, <1>3
<1> QED  BY <1>1, <1>2, <1>3

\* The server's part of a step is over when every account's mail is right by where it then sits,
\* and one account's request, if any, has been read.
LEMMA ServerStep ==
  ASSUME ClientInv, Held', SeatedPlay', UNCHANGED page, registered' = registered, NEW a \in Account,
         \A b \in Account :
           /\ inbox'[b] \in Seq(Letter)
           /\ SeesLobby(page[b], inbox'[b], outbox[b], membership'[b])
           /\ Vacated(b)' => FindsWay(page[b], inbox'[b], outbox[b], byAccount'[b]),
         DOMAIN inbox' = Account /\ inbox' = [b \in Account |-> inbox'[b]],
         \/ outbox' = outbox
         \/ /\ outbox[a] # <<>> /\ outbox' = [outbox EXCEPT ![a] = Tail(@)]
            /\ Head(outbox[a]).t = "lobby.leave" => membership'[a] = None
            /\ Head(outbox[a]).t = "match.rejoin" => ~Vacated(a)'
  PROVE  ClientInv'
<1>0. /\ page \in [Account -> Page] /\ outbox \in [Account -> Seq(Request)]
      /\ \A b \in Account : page[b].up => b \in registered
  BY DEF ClientInv, ClientTyped, OpenSocketIsRegistered
<1>1. inbox' \in [Account -> Seq(Letter)]
  OBVIOUS
<1>2. CASE outbox' = outbox
  BY <1>0, <1>1, <1>2 DEF ClientInv, ClientTyped, OpenSocketIsRegistered
<1>3. CASE /\ outbox[a] # <<>> /\ outbox' = [outbox EXCEPT ![a] = Tail(@)]
           /\ Head(outbox[a]).t = "lobby.leave" => membership'[a] = None
           /\ Head(outbox[a]).t = "match.rejoin" => ~Vacated(a)'
  <2>1. Tail(outbox[a]) \in Seq(Request)
    BY <1>0, <1>3, TailIs
  <2>2. /\ outbox' \in [Account -> Seq(Request)] /\ outbox'[a] = Tail(outbox[a])
        /\ \A b \in Account : b # a => outbox'[b] = outbox[b]
    BY <1>0, <1>3, <2>1
  <2>3. /\ SeesLobby(page[a], inbox'[a], Tail(outbox[a]), membership'[a])
        /\ Vacated(a)' => FindsWay(page[a], inbox'[a], Tail(outbox[a]), byAccount'[a])
    BY <1>0, <1>3, RequestsRead
  <2>4. \A b \in Account :
          /\ SeesLobby(page[b], inbox'[b], outbox'[b], membership'[b])
          /\ Vacated(b)' => FindsWay(page[b], inbox'[b], outbox'[b], byAccount'[b])
    BY <2>2, <2>3
  <2> QED  BY <1>0, <1>1, <2>2, <2>4 DEF ClientInv, ClientTyped, OpenSocketIsRegistered
<1> QED  BY <1>2, <1>3

LEMMA InboxOfABroadcast ==
  ASSUME NEW l, NEW members, NEW a, NEW own, Broadcast(l, members, a, own)
  PROVE  DOMAIN inbox' = Account /\ inbox' = [b \in Account |-> inbox'[b]]
BY DEF Broadcast, Sent

LEMMA AccountsSeats ==
  ASSUME ClientInv, NEW b \in Account
  PROVE  /\ page[b] \in Page /\ inbox[b] \in Seq(Letter) /\ outbox[b] \in Seq(Request)
         /\ membership[b] \in LobbyId \cup {None} /\ byAccount[b] \in MatchId \cup {None}
         /\ SeesLobby(page[b], inbox[b], outbox[b], membership[b])
         /\ Vacated(b) => FindsWay(page[b], inbox[b], outbox[b], byAccount[b])
BY DEF ClientInv, ClientTyped, Held, TypeOK, Room!TypeOK

LEMMA RequestsAre ==
  ASSUME NEW a \in Account, NEW t, NEW about, Reads(a, t, about)
  PROVE  /\ outbox[a] # <<>> /\ outbox' = [outbox EXCEPT ![a] = Tail(@)]
         /\ Head(outbox[a]).t = t
BY Letters DEF Reads

\* Somebody opens a lobby or walks into one.
LEMMA EnteringTells ==
  ASSUME ClientInv, Held', UNCHANGED page, NEW a \in Account, NEW l \in LobbyId,
         \/ Reads(a, "lobby.create", None) /\ create(a, l) /\ Broadcast(l, {a}, a, <<>>)
         \/ joinRead(a, l)
  PROVE  ClientInv'
<1>0. PICK members :
        /\ create(a, l) \/ join(a, l)
        /\ Reads(a, "lobby.create", None) \/ Reads(a, "lobby.join", l)
        /\ Broadcast(l, members, a, <<>>)
        /\ members \subseteq Room!Members(l) \cup {a} /\ a \in members
  BY DEF joinRead
<1>1. /\ SeatedPlay' /\ \A b \in Account : Vacated(b)' => Vacated(b) /\ byAccount'[b] = byAccount[b]
      /\ membership'[a] = l /\ membership[a] = None
      /\ \A b \in Account : b # a => membership'[b] = membership[b]
      /\ registered' = registered
  BY <1>0, SeatsAfterMessages DEF ClientInv, create, join
<1>2. a \in members
  BY <1>0
<1>3. ASSUME NEW b \in Account
      PROVE  /\ inbox'[b] \in Seq(Letter)
             /\ SeesLobby(page[b], inbox'[b], outbox[b], membership'[b])
             /\ Vacated(b)' => FindsWay(page[b], inbox'[b], outbox[b], byAccount'[b])
  <2>1. IF b \in members THEN membership[b] \in {None, l} /\ membership'[b] = l
        ELSE membership'[b] = membership[b]
    BY <1>0, <1>1, <1>2 DEF Room!Members
  <2>2. /\ inbox'[b] \in Seq(Letter)
        /\ SeesLobby(page[b], inbox'[b], outbox[b], membership'[b])
        /\ \A m : b \notin members /\ FindsWay(page[b], inbox[b], outbox[b], m)
              => FindsWay(page[b], inbox'[b], outbox[b], m)
    BY <1>0, <2>1, TheRestHear
  <2>3. Vacated(b)' => b \notin members
    BY <2>1, SessionAssumption DEF Vacated
  <2> QED  BY <1>1, <2>2, <2>3, AccountsSeats
<1>4. /\ outbox[a] # <<>> /\ outbox' = [outbox EXCEPT ![a] = Tail(@)]
      /\ Head(outbox[a]).t \notin {"lobby.leave", "match.rejoin"}
  BY <1>0, RequestsAre
<1> QED  BY <1>0, <1>1, <1>3, <1>4, InboxOfABroadcast, ServerStep

\* Somebody leaves a lobby: the others are told who is left, and the one who goes is offered the
\* match there may be to come back to and then shown out.
LEMMA LeavingTells ==
  ASSUME ClientInv, Held', UNCHANGED page, NEW a \in Account, leaveRead(a)
  PROVE  ClientInv'
<1> DEFINE l == membership[a]
           own == Offer(a) \o <<Msg("lobby.exit", None)>>
<1>1. /\ leave(a) /\ Reads(a, "lobby.leave", None) /\ Broadcast(l, Companions(a), a, own)
      /\ registered' = registered
  BY DEF leaveRead, leave
<1>2. /\ SeatedPlay'
      /\ \A b \in Account : b # a /\ Vacated(b)' => Vacated(b)
      /\ Vacated(a)' => byAccount[a] \in Running
      /\ UNCHANGED byAccount
      /\ membership'[a] = None /\ l # None
      /\ \A b \in Account : b # a => membership'[b] = membership[b]
  BY <1>1, SeatsAfterMessages DEF ClientInv
<1>3. \A b \in Account : b \in Companions(a) <=> b # a /\ membership[b] = l
  BY <1>2 DEF Companions, Room!Members
<1>4. page[a] \in Page /\ inbox[a] \in Seq(Letter) /\ l \in LobbyId
      /\ SeesLobby(page[a], inbox[a], outbox[a], l)
      /\ byAccount[a] \in MatchId \cup {None}
  BY <1>2, AccountsSeats
<1>5. /\ inbox'[a] \in Seq(Letter)
      /\ SeesLobby(page[a], inbox'[a], outbox[a], None)
      /\ byAccount[a] \in Running => FindsWay(page[a], inbox'[a], outbox[a], byAccount[a])
  <2> DEFINE e == Msg("lobby.exit", None)
             z == inbox[a] \o own
  <2>0. e \in Letter /\ e.t = "lobby.exit" /\ <<e>> \in Seq(Letter)
    BY Letters
  <2>1. CASE byAccount[a] # None /\ matches[byAccount[a]].phase # "over"
    <3> DEFINE f == Msg("match.rejoinable", byAccount[a])
    <3>1. f \in Letter /\ own = <<f>> \o <<e>>
      BY <1>4, <2>1, Letters DEF Offer
    <3>2. own \in Seq(Letter)
      <4> HIDE DEF e, f, own
      <4> QED  BY <2>0, <3>1
    <3>3. page[a].up => /\ z \in Seq(Letter) /\ SeesLobby(page[a], z, outbox[a], None)
                        /\ FindsWay(page[a], z, outbox[a], byAccount[a])
      BY <1>4, <2>1, <3>1, OfferAndExit
    <3>4. inbox'[a] = IF page[a].up THEN z ELSE inbox[a]
      BY <1>1, <1>3, <3>2, Broadcasts
    <3> HIDE DEF z, own
    <3> QED  BY <1>4, <3>3, <3>4, NobodyLooks
  <2>2. CASE byAccount[a] = None \/ matches[byAccount[a]].phase = "over"
    <3>1. own = <<>> \o <<e>>
      BY <2>2 DEF Offer
    <3> HIDE DEF e, own
    <3>2. own = <<e>> /\ own \in Seq(Letter)
      BY <2>0, <3>1
    <3>3. z = Append(inbox[a], e) /\ z \in Seq(Letter)
      BY <1>4, <2>0, <3>2, AppendIs
    <3>4. inbox'[a] = IF page[a].up THEN z ELSE inbox[a]
      <4>1. a \notin Companions(a)
        BY <1>3
      <4>2. own \in Seq(Letter) /\ Broadcast(l, Companions(a), a, own)
        BY <1>1, <3>2
      <4> HIDE DEF l
      <4> QED  BY <4>1, <4>2, Broadcasts
    <3> HIDE DEF z
    <3>5. page[a].up => SeesLobby(page[a], z, outbox[a], None)
      BY <1>4, <2>0, <3>3, ServerWords
    <3>6. byAccount[a] \notin Running
      BY <2>2, SessionAssumption DEF Running
    <3> QED  BY <1>4, <3>3, <3>4, <3>5, <3>6, NobodyLooks
  <2> QED  BY <2>1, <2>2
<1> HIDE DEF own
<1>6. ASSUME NEW b \in Account
      PROVE  /\ inbox'[b] \in Seq(Letter)
             /\ SeesLobby(page[b], inbox'[b], outbox[b], membership'[b])
             /\ Vacated(b)' => FindsWay(page[b], inbox'[b], outbox[b], byAccount'[b])
  <2>1. CASE b = a
    BY <1>2, <1>5, <2>1
  <2>2. CASE b # a
    <3>1. IF b \in Companions(a) THEN l \in LobbyId /\ membership[b] \in {None, l} /\ membership'[b] = l
          ELSE membership'[b] = membership[b]
      BY <1>2, <1>3, <1>4, <2>2
    <3>2. /\ inbox'[b] \in Seq(Letter)
          /\ SeesLobby(page[b], inbox'[b], outbox[b], membership'[b])
          /\ \A m : b \notin Companions(a) /\ FindsWay(page[b], inbox[b], outbox[b], m)
                => FindsWay(page[b], inbox'[b], outbox[b], m)
      BY <1>1, <2>2, <3>1, TheRestHear
    <3>3. Vacated(b)' => b \notin Companions(a)
      BY <1>2, <3>1, SessionAssumption DEF Vacated
    <3> QED  BY <1>2, <2>2, <3>2, <3>3, AccountsSeats
  <2> QED  BY <2>1, <2>2
<1>7. /\ outbox[a] # <<>> /\ outbox' = [outbox EXCEPT ![a] = Tail(@)]
      /\ Head(outbox[a]).t = "lobby.leave"
  BY <1>1, RequestsAre
<1> QED  BY <1>1, <1>2, <1>6, <1>7, InboxOfABroadcast, ServerStep

\* Somebody is put out by the host, and is told.
LEMMA KickingTells ==
  ASSUME ClientInv, Held', UNCHANGED page, NEW a \in Account, NEW target \in Account, kickRead(a, target)
  PROVE  ClientInv'
<1> DEFINE l == membership[a]
           e == Msg("lobby.exit", None)
<1>1. /\ kick(a, target) /\ Reads(a, "lobby.kick", target)
      /\ Broadcast(l, Companions(target), target, <<e>>)
      /\ registered' = registered
  BY DEF kickRead, kick
<1>2. /\ SeatedPlay' /\ \A b \in Account : Vacated(b)' => Vacated(b)
      /\ UNCHANGED byAccount
      /\ membership'[target] = None /\ membership[target] = l /\ l # None
      /\ \A b \in Account : b # target => membership'[b] = membership[b]
  BY <1>1, SeatsAfterMessages DEF ClientInv
<1>3. \A b \in Account : b \in Companions(target) <=> b # target /\ membership[b] = l
  BY <1>2 DEF Companions, Room!Members
<1>4. page[target] \in Page /\ inbox[target] \in Seq(Letter) /\ l \in LobbyId
      /\ SeesLobby(page[target], inbox[target], outbox[target], l)
  BY <1>2, AccountsSeats
<1>5. inbox'[target] \in Seq(Letter) /\ SeesLobby(page[target], inbox'[target], outbox[target], None)
  <2>0. e \in Letter /\ e.t = "lobby.exit"
    BY Letters
  <2> HIDE DEF e
  <2>1. <<e>> \in Seq(Letter) /\ inbox[target] \o <<e>> = Append(inbox[target], e)
        /\ Append(inbox[target], e) \in Seq(Letter)
    BY <1>4, <2>0, AppendIs
  <2>2. inbox'[target] = IF page[target].up THEN Append(inbox[target], e) ELSE inbox[target]
    <3>1. target \notin Companions(target)
      BY <1>3
    <3>2. Broadcast(l, Companions(target), target, <<e>>)
      BY <1>1 DEF e
    <3> DEFINE own == <<e>>
    <3>3. own \in Seq(Letter)
      BY <2>1
    <3>4. Broadcast(l, Companions(target), target, own)
      BY <3>2
    <3> HIDE DEF own
    <3>5. inbox'[target] = IF page[target].up THEN inbox[target] \o own ELSE inbox[target]
      BY <3>1, <3>3, <3>4, Broadcasts
    <3> QED  BY <2>1, <3>5 DEF own
  <2>3. page[target].up => SeesLobby(page[target], Append(inbox[target], e), outbox[target], None)
    BY <1>4, <2>0, ServerWords
  <2> QED  BY <1>4, <2>1, <2>2, <2>3, NobodyLooks
<1> HIDE DEF e
<1>6. ASSUME NEW b \in Account
      PROVE  /\ inbox'[b] \in Seq(Letter)
             /\ SeesLobby(page[b], inbox'[b], outbox[b], membership'[b])
             /\ Vacated(b)' => FindsWay(page[b], inbox'[b], outbox[b], byAccount'[b])
  <2>1. CASE b = target
    <3>1. ~Vacated(b)
      BY <1>2, <2>1 DEF Vacated
    <3> QED  BY <1>2, <1>5, <2>1, <3>1
  <2>2. CASE b # target
    <3>1. IF b \in Companions(target)
          THEN l \in LobbyId /\ membership[b] \in {None, l} /\ membership'[b] = l
          ELSE membership'[b] = membership[b]
      BY <1>2, <1>3, <1>4, <2>2
    <3>2. /\ inbox'[b] \in Seq(Letter)
          /\ SeesLobby(page[b], inbox'[b], outbox[b], membership'[b])
          /\ \A m : b \notin Companions(target) /\ FindsWay(page[b], inbox[b], outbox[b], m)
                => FindsWay(page[b], inbox'[b], outbox[b], m)
      BY <1>1, <2>2, <3>1, TheRestHear
    <3>3. Vacated(b)' => b \notin Companions(target)
      BY <1>2, <3>1, SessionAssumption DEF Vacated
    <3> QED  BY <1>2, <2>2, <3>2, <3>3, AccountsSeats
  <2> QED  BY <2>1, <2>2
<1>7. /\ outbox[a] # <<>> /\ outbox' = [outbox EXCEPT ![a] = Tail(@)]
      /\ Head(outbox[a]).t = "lobby.kick"
  BY <1>1, RequestsAre
<1> QED  BY <1>1, <1>2, <1>6, <1>7, InboxOfABroadcast, ServerStep

\* Requests that put nothing in anybody's mail: a start, a rejoin, a refusal.
LEMMA OthersAreRead ==
  ASSUME ClientInv, Held', UNCHANGED page, NEW a \in Account,
         startRead(a) \/ rejoinRead(a) \/ Refused(a)
  PROVE  ClientInv'
<1>1. /\ SeatedPlay' /\ UNCHANGED <<byAccount, membership, registered, inbox>>
      /\ \A b \in Account : Vacated(b)' => Vacated(b)
      /\ outbox[a] # <<>> /\ outbox' = [outbox EXCEPT ![a] = Tail(@)]
      /\ Head(outbox[a]).t = "lobby.leave" => membership'[a] = None
      /\ Head(outbox[a]).t = "match.rejoin" => ~Vacated(a)'
  <2>1. CASE startRead(a)
    <3>1. PICK m \in MatchId : start(a, m) /\ Reads(a, "lobby.start", None) /\ UNCHANGED inbox
      BY <2>1 DEF startRead
    <3>2. /\ outbox[a] # <<>> /\ outbox' = [outbox EXCEPT ![a] = Tail(@)]
          /\ Head(outbox[a]).t = "lobby.start"
      BY <3>1, RequestsAre
    <3>3. /\ SeatedPlay' /\ UNCHANGED <<byAccount, membership>>
          /\ \A b \in Account : Vacated(b)' => Vacated(b)
      BY <3>1, SeatsAfterMessages DEF ClientInv
    <3>4. registered' = registered /\ inbox' = inbox
      BY <3>1 DEF start
    <3> QED  BY <3>2, <3>3, <3>4
  <2>2. CASE rejoinRead(a)
    <3>1. rejoin(a) /\ Reads(a, "match.rejoin", None) /\ UNCHANGED inbox
      BY <2>2 DEF rejoinRead
    <3>2. /\ outbox[a] # <<>> /\ outbox' = [outbox EXCEPT ![a] = Tail(@)]
          /\ Head(outbox[a]).t = "match.rejoin"
      BY <3>1, RequestsAre
    <3>3. /\ SeatedPlay' /\ UNCHANGED <<byAccount, membership>> /\ ~Vacated(a)'
          /\ \A b \in Account : Vacated(b)' => Vacated(b)
      BY <3>1, SeatsAfterMessages DEF ClientInv
    <3>4. registered' = registered /\ inbox' = inbox
      BY <3>1 DEF rejoin
    <3> QED  BY <3>2, <3>3, <3>4
  <2>3. CASE Refused(a)
    <3>1. UNCHANGED <<membership, host, registered, closing, matches, byAccount, inbox>>
      BY <2>3 DEF Refused, seating
    <3>2. SeatedPlay' /\ \A b \in Account : Vacated(b)' <=> Vacated(b)
      BY <3>1 DEF ClientInv, SeatedPlay, Vacated, Running
    <3> DEFINE Apart(t) == /\ t = "lobby.leave" => membership[a] = None
                           /\ t = "match.rejoin" => byAccount[a] \notin Running
    <3>3. \E t, about : Reads(a, t, about) /\ Apart(t)
      <4>1. CASE \/ Reads(a, "lobby.create", None)
                 \/ \E l \in LobbyId : Reads(a, "lobby.join", l)
                 \/ \E b \in Account : Reads(a, "lobby.kick", b)
                 \/ Reads(a, "lobby.start", None)
        <5>1. Apart("lobby.create") /\ Apart("lobby.join") /\ Apart("lobby.kick") /\ Apart("lobby.start")
          OBVIOUS
        <5> HIDE DEF Apart
        <5> QED  BY <4>1, <5>1
      <4>2. CASE Reads(a, "lobby.leave", None) /\ membership[a] = None
        BY <4>2
      <4>3. CASE Reads(a, "match.rejoin", None) /\ (byAccount[a] = None \/ byAccount[a] \notin Running)
        BY <4>3, SessionAssumption DEF Running
      <4> QED  BY <2>3, <4>1, <4>2, <4>3 DEF Refused
    <3>4. byAccount[a] \notin Running => ~Vacated(a)
      BY DEF Vacated
    <3>5. PICK t, about : Reads(a, t, about) /\ Apart(t)
      BY <3>3
    <3>6. /\ outbox[a] # <<>> /\ outbox' = [outbox EXCEPT ![a] = Tail(@)]
          /\ Head(outbox[a]).t = t
      BY <3>5, RequestsAre
    <3> QED  BY <3>1, <3>2, <3>4, <3>5, <3>6
  <2> QED  BY <2>1, <2>2, <2>3
<1>2. DOMAIN inbox' = Account /\ inbox' = [b \in Account |-> inbox'[b]]
  BY <1>1 DEF ClientInv, ClientTyped
<1> QED  BY <1>1, <1>2, AccountsSeats, ServerStep

\* A lobby that changes without anybody moving tells whoever is in it; and a socket that closes
\* takes its account, whose page is gone, out of its lobby.
LEMMA LobbiesTell ==
  ASSUME ClientInv, Held', UNCHANGED page, NEW a \in Account,
         \/ lobbyChanged(a)
         \/ onReplacedClose(a) /\ UNCHANGED client
  PROVE  ClientInv'
<1>1. CASE lobbyChanged(a)
  <2> DEFINE l == membership[a]
             members == Room!Members(l)
  <2>1. /\ l # None /\ Broadcast(l, members, a, <<>>)
        /\ UNCHANGED <<membership, host, registered, closing, matches, byAccount, outbox>>
    BY <1>1 DEF lobbyChanged, seating
  <2>2. SeatedPlay' /\ \A b \in Account : Vacated(b)' <=> Vacated(b)
    BY <2>1 DEF ClientInv, SeatedPlay, Vacated, Running
  <2>3. l \in LobbyId
    BY <2>1, AccountsSeats
  <2>4. ASSUME NEW b \in Account
        PROVE  /\ inbox'[b] \in Seq(Letter)
               /\ SeesLobby(page[b], inbox'[b], outbox[b], membership'[b])
               /\ Vacated(b)' => FindsWay(page[b], inbox'[b], outbox[b], byAccount'[b])
    <3>1. IF b \in members THEN l \in LobbyId /\ membership[b] \in {None, l} /\ membership'[b] = l
          ELSE membership'[b] = membership[b]
      BY <2>1, <2>3 DEF Room!Members
    <3>2. /\ inbox'[b] \in Seq(Letter)
          /\ SeesLobby(page[b], inbox'[b], outbox[b], membership'[b])
          /\ \A m : b \notin members /\ FindsWay(page[b], inbox[b], outbox[b], m)
                => FindsWay(page[b], inbox'[b], outbox[b], m)
      <4> HIDE DEF members
      <4> QED  BY <2>1, <3>1, TheRestHear
    <3>3. Vacated(b) => b \notin members
      BY <2>1 DEF Vacated, Room!Members
    <3> QED  BY <2>1, <2>2, <3>2, <3>3, AccountsSeats
  <2>5. DOMAIN inbox' = Account /\ inbox' = [b \in Account |-> inbox'[b]]
    <3> HIDE DEF members
    <3> QED  BY <2>1, InboxOfABroadcast
  <2> QED  BY <2>1, <2>2, <2>4, <2>5, ServerStep
<1>2. CASE onReplacedClose(a) /\ UNCHANGED client
  <2>1. /\ SeatedPlay' /\ \A b \in Account : Vacated(b)' => Vacated(b)
        /\ UNCHANGED <<membership, byAccount, registered, inbox, outbox>>
    BY <1>2, SeatsAfterSockets DEF onReplacedClose, seating, client, ClientInv
  <2>2. DOMAIN inbox' = Account /\ inbox' = [b \in Account |-> inbox'[b]]
    BY <2>1 DEF ClientInv, ClientTyped
  <2> QED  BY <2>1, <2>2, AccountsSeats, ServerStep
<1> QED  BY <1>1, <1>2

LEMMA ClosingTells ==
  ASSUME ClientInv, Held', UNCHANGED page, NEW a \in Account,
         ~page[a].up, onClose(a), outbox' = [outbox EXCEPT ![a] = <<>>],
         Broadcast(membership[a], Companions(a), a, <<>>)
  PROVE  ClientInv'
<1> DEFINE l == membership[a]
<1>1. /\ SeatedPlay' /\ \A b \in Account : b # a /\ Vacated(b)' => Vacated(b)
      /\ registered' = registered \ {a} /\ UNCHANGED byAccount
  BY SeatsAfterSockets DEF ClientInv, onClose, Detach
<1>2. \A b \in Account : b # a => membership'[b] = membership[b]
  BY DEF ClientInv, Held, TypeOK, Room!TypeOK, onClose, Detach, Vacate, seating, Room!remove
<1>3. ASSUME NEW b \in Account
      PROVE  /\ inbox'[b] \in Seq(Letter)
             /\ SeesLobby(page[b], inbox'[b], outbox[b], membership'[b])
             /\ Vacated(b)' => FindsWay(page[b], inbox'[b], outbox[b], byAccount'[b])
  <2>1. b \in Companions(a) => b # a /\ membership[b] = l /\ l # None
    BY DEF Companions, Room!Members
  <2>2. IF b \in Companions(a)
        THEN l \in LobbyId /\ membership[b] \in {None, l} /\ membership'[b] = l
        ELSE ~page[b].up \/ membership'[b] = membership[b]
    BY <1>2, <2>1, AccountsSeats
  <2>3. /\ inbox'[b] \in Seq(Letter)
        /\ SeesLobby(page[b], inbox'[b], outbox[b], membership'[b])
        /\ \A m : b \notin Companions(a) /\ FindsWay(page[b], inbox[b], outbox[b], m)
              => FindsWay(page[b], inbox'[b], outbox[b], m)
    BY <2>2, TheRestHear
  <2>4. CASE b = a
    BY <2>3, <2>4 DEF FindsWay
  <2>5. CASE b # a
    <3>1. Vacated(b)' => b \notin Companions(a)
      BY <1>2, <2>1, <2>5 DEF Vacated
    <3> QED  BY <1>1, <2>3, <2>5, <3>1, AccountsSeats
  <2> QED  BY <2>4, <2>5
<1>4. /\ page \in [Account -> Page] /\ outbox \in [Account -> Seq(Request)]
      /\ \A b \in Account : page[b].up => b \in registered
  BY DEF ClientInv, ClientTyped, OpenSocketIsRegistered
<1>5. inbox' \in [Account -> Seq(Letter)]
  BY <1>3, InboxOfABroadcast
<1>6. outbox' \in [Account -> Seq(Request)] /\ \A b \in Account : b # a => outbox'[b] = outbox[b]
  <2>1. <<>> \in Seq(Request)
    OBVIOUS
  <2> QED  BY <1>4, <2>1
<1>7. ASSUME NEW b \in Account
      PROVE  /\ SeesLobby(page[b], inbox'[b], outbox'[b], membership'[b])
             /\ Vacated(b)' => FindsWay(page[b], inbox'[b], outbox'[b], byAccount'[b])
  <2>1. CASE b = a
    BY <1>3, <2>1, NobodyLooks
  <2>2. CASE b # a
    BY <1>3, <1>6, <2>2
  <2> QED  BY <2>1, <2>2
<1> QED  BY <1>1, <1>4, <1>5, <1>6, <1>7 DEF ClientInv, ClientTyped, OpenSocketIsRegistered

\* A match begins and its whole roster is told; it ends and everybody who was in it is.
LEMMA MatchesTell ==
  ASSUME ClientInv, Held', UNCHANGED page, NEW m \in MatchId,
         startBroadcast(m) \/ (startFails(m) /\ UNCHANGED client) \/ conclude(m)
  PROVE  ClientInv'
<1>1. CASE startFails(m) /\ UNCHANGED client
  <2>1. /\ SeatedPlay' /\ \A b \in Account : Vacated(b)' => Vacated(b)
        /\ UNCHANGED <<membership, byAccount, registered, inbox, outbox>>
    BY <1>1, SeatsAfterMatches DEF startFails, seating, client, ClientInv
  <2>2. DOMAIN inbox' = Account /\ inbox' = [b \in Account |-> inbox'[b]]
    BY <2>1 DEF ClientInv, ClientTyped
  <2>3. CASE Account = {}
    BY <2>1, <2>2, <2>3 DEF ClientInv, ClientTyped, OpenSocketIsRegistered
  <2>4. CASE Account # {}
    <3>1. PICK a \in Account : TRUE
      BY <2>4
    <3> QED  BY <2>1, <2>2, AccountsSeats, ServerStep
  <2> QED  BY <2>3, <2>4
<1>2. ASSUME NEW msg \in Letter, msg.t \in {"match.started", "match.results"},
             inbox' = Sent(inbox, [b \in Account |-> IF b \in matches[m].players THEN <<msg>> ELSE <<>>]),
             SeatedPlay', UNCHANGED <<membership, registered, outbox>>,
             \A b \in Account : Vacated(b)' =>
               /\ Vacated(b) /\ byAccount'[b] = byAccount[b]
               /\ b \in matches[m].players => Keeps(msg, byAccount[b])
      PROVE  ClientInv'
  <2> DEFINE owed == [b \in Account |-> IF b \in matches[m].players THEN <<msg>> ELSE <<>>]
  <2>1. ASSUME NEW b \in Account
        PROVE  inbox'[b] = IF page[b].up /\ b \in matches[m].players THEN Append(inbox[b], msg) ELSE inbox[b]
    <3>1. inbox'[b] = IF page[b].up THEN inbox[b] \o owed[b] ELSE inbox[b]
      <4> HIDE DEF owed
      <4>1. inbox' = Sent(inbox, owed)
        BY <1>2 DEF owed
      <4> QED  BY <4>1, MailGoesOut
    <3>2. owed[b] = IF b \in matches[m].players THEN <<msg>> ELSE <<>>
      OBVIOUS
    <3> HIDE DEF owed
    <3>3. inbox[b] \o <<msg>> = Append(inbox[b], msg) /\ inbox[b] \o <<>> = inbox[b]
      BY <1>2, AccountsSeats, AppendIs
    <3> QED  BY <3>1, <3>2, <3>3
  <2>2. ASSUME NEW b \in Account
        PROVE  /\ inbox'[b] \in Seq(Letter)
               /\ SeesLobby(page[b], inbox'[b], outbox[b], membership'[b])
               /\ Vacated(b)' => FindsWay(page[b], inbox'[b], outbox[b], byAccount'[b])
    <3>0. /\ page[b] \in Page /\ inbox[b] \in Seq(Letter)
          /\ SeesLobby(page[b], inbox[b], outbox[b], membership[b])
          /\ Vacated(b) => FindsWay(page[b], inbox[b], outbox[b], byAccount[b])
      BY AccountsSeats
    <3>1. CASE page[b].up /\ b \in matches[m].players
      <4>1. SeesLobby(page[b], Append(inbox[b], msg), outbox[b], membership[b])
        BY <1>2, <3>0, <3>1, ServerWords
      <4>2. Vacated(b)' => FindsWay(page[b], Append(inbox[b], msg), outbox[b], byAccount[b])
        BY <1>2, <3>0, <3>1, ServerWords
      <4>3. Append(inbox[b], msg) \in Seq(Letter)
        BY <1>2, <3>0, AppendIs
      <4>4. inbox'[b] = Append(inbox[b], msg) /\ membership'[b] = membership[b]
        BY <1>2, <2>1, <3>1
      <4>5. Vacated(b)' => byAccount'[b] = byAccount[b]
        BY <1>2
      <4> HIDE DEF owed
      <4> QED  BY <4>1, <4>2, <4>3, <4>4, <4>5
    <3>2. CASE ~(page[b].up /\ b \in matches[m].players)
      BY <1>2, <2>1, <3>0, <3>2
    <3> QED  BY <3>1, <3>2
  <2>3. DOMAIN inbox' = Account /\ inbox' = [b \in Account |-> inbox'[b]]
    BY <1>2 DEF Sent
  <2>4. CASE Account = {}
    BY <1>2, <2>3, <2>4 DEF ClientInv, ClientTyped, OpenSocketIsRegistered
  <2>5. CASE Account # {}
    <3>1. PICK a \in Account : TRUE
      BY <2>5
    <3> QED  BY <1>2, <2>2, <2>3, ServerStep
  <2> QED  BY <2>4, <2>5
<1>3. CASE startBroadcast(m)
  <2> DEFINE msg == Msg("match.started", m)
  <2>1. /\ store(m) /\ UNCHANGED <<registered, outbox>>
        /\ inbox' = Sent(inbox, [b \in Account |-> IF b \in matches[m].players THEN <<msg>> ELSE <<>>])
    BY <1>3 DEF startBroadcast, store
  <2>2. msg \in Letter /\ msg.t = "match.started"
    BY Letters
  <2> HIDE DEF msg
  <2>3. /\ SeatedPlay' /\ UNCHANGED membership
        /\ \A b \in Account : Vacated(b)' =>
             Vacated(b) /\ byAccount'[b] = byAccount[b] /\ b \notin matches[m].players
    BY <2>1, SeatsAfterMatches DEF ClientInv
  <2> QED  BY <1>2, <2>1, <2>2, <2>3
<1>4. CASE conclude(m)
  <2> DEFINE msg == Msg("match.results", m)
  <2>1. /\ decideAbandonment(m) \/ decideMatch(m)
        /\ UNCHANGED <<registered, outbox>>
        /\ inbox' = Sent(inbox, [b \in Account |-> IF b \in matches[m].players THEN <<msg>> ELSE <<>>])
    BY <1>4 DEF conclude, decideAbandonment, decideMatch
  <2>2. msg \in Letter /\ msg.t = "match.results" /\ msg.about = m
    BY Letters
  <2> HIDE DEF msg
  <2>3. /\ SeatedPlay' /\ UNCHANGED <<membership, byAccount>>
        /\ \A b \in Account : Vacated(b)' => Vacated(b) /\ byAccount[b] # m
    BY <2>1, SeatsAfterMatches DEF ClientInv
  <2>4. \A b \in Account : byAccount[b] # m => Keeps(msg, byAccount[b])
    BY <2>2 DEF Keeps
  <2> QED  BY <1>2, <2>1, <2>2, <2>3, <2>4
<1> QED  BY <1>1, <1>3, <1>4

\* A page's own step is over when what it does to one account's page, mail and requests is right.
LEMMA PageStep ==
  ASSUME ClientInv, Held', UNCHANGED vars, NEW a \in Account,
         NEW p \in Page, NEW s \in Seq(Letter), NEW o \in Seq(Request),
         page' = [page EXCEPT ![a] = p], inbox' = [inbox EXCEPT ![a] = s],
         outbox' = [outbox EXCEPT ![a] = o],
         p.up => page[a].up,
         SeesLobby(p, s, o, membership[a]),
         Vacated(a) => FindsWay(p, s, o, byAccount[a])
  PROVE  ClientInv'
<1>0. /\ page \in [Account -> Page] /\ inbox \in [Account -> Seq(Letter)] /\ outbox \in [Account -> Seq(Request)]
      /\ \A b \in Account : page[b].up => b \in registered
      /\ UNCHANGED <<membership, registered, matches, byAccount>>
  BY DEF ClientInv, ClientTyped, OpenSocketIsRegistered, vars
<1>1. SeatedPlay' /\ \A b \in Account : Vacated(b)' <=> Vacated(b)
  BY <1>0 DEF ClientInv, SeatedPlay, Vacated, Running
<1>2. ClientTyped'
  BY <1>0 DEF ClientTyped
<1>3. /\ page'[a] = p /\ inbox'[a] = s /\ outbox'[a] = o
      /\ \A b \in Account : b # a => page'[b] = page[b] /\ inbox'[b] = inbox[b] /\ outbox'[b] = outbox[b]
  BY <1>0
<1>4. OpenSocketIsRegistered'
  BY <1>0, <1>3 DEF OpenSocketIsRegistered
<1>5. \A b \in Account :
        /\ SeesLobby(page'[b], inbox'[b], outbox'[b], membership'[b])
        /\ Vacated(b)' => FindsWay(page'[b], inbox'[b], outbox'[b], byAccount'[b])
  BY <1>0, <1>1, <1>3 DEF ClientInv
<1> QED  BY <1>1, <1>2, <1>4, <1>5 DEF ClientInv

LEMMA NothingElse ==
  ASSUME ClientInv, NEW a \in Account
  PROVE  /\ page = [page EXCEPT ![a] = page[a]]
         /\ inbox = [inbox EXCEPT ![a] = inbox[a]]
         /\ outbox = [outbox EXCEPT ![a] = outbox[a]]
         /\ page[a] \in Page /\ inbox[a] \in Seq(Letter) /\ outbox[a] \in Seq(Request)
BY DEF ClientInv, ClientTyped

LEMMA Receiving ==
  ASSUME ClientInv, Held', NEW a \in Account, receive(a)
  PROVE  ClientInv'
<1> DEFINE p == After(page[a], Head(inbox[a]))
           s == Tail(inbox[a])
<1>1. /\ inbox[a] # <<>> /\ page' = [page EXCEPT ![a] = p] /\ inbox' = [inbox EXCEPT ![a] = s]
      /\ UNCHANGED vars /\ outbox' = [outbox EXCEPT ![a] = outbox[a]]
  BY NothingElse DEF receive
<1>2. /\ p \in Page /\ p.up = page[a].up /\ s \in Seq(Letter)
      /\ SeesLobby(p, s, outbox[a], membership[a])
      /\ \A m \in MatchId : FindsWay(page[a], inbox[a], outbox[a], m) => FindsWay(p, s, outbox[a], m)
  BY <1>1, AccountsSeats, MessageTaken
<1>3. Vacated(a) => byAccount[a] \in MatchId
  BY DEF Vacated, Running
<1>4. Vacated(a) => FindsWay(p, s, outbox[a], byAccount[a])
  BY <1>2, <1>3, AccountsSeats
<1> HIDE DEF p, s
<1> QED  BY <1>1, <1>2, <1>4, NothingElse, PageStep

\* A page that goes off line is told nothing more, and shows no lobby.
LEMMA GoingOffLine ==
  ASSUME ClientInv, Held', NEW a \in Account, drop(a) \/ reload(a)
  PROVE  ClientInv'
<1>1. PICK p \in Page : page' = [page EXCEPT ![a] = p] /\ ~p.up /\ p.screen # "lobby"
  <2>1. CASE drop(a)
    <3> DEFINE q == Dropped(page[a])
    <3>1. page[a] \in Page
      BY NothingElse
    <3>2. q \in Page /\ ~q.up /\ q.screen # "lobby"
      <4> DEFINE scr == IF page[a].screen \in {"lobby", "match"} THEN "menu" ELSE page[a].screen
                 mid == IF page[a].screen \in {"lobby", "match"} THEN None ELSE page[a].matchId
      <4>1. scr \in Screen /\ scr # "lobby" /\ mid \in MatchId \cup {None}
        BY <3>1 DEF Page, Screen
      <4>2. q = [page[a] EXCEPT !.up = FALSE, !.lobby = None, !.screen = scr, !.matchId = mid]
        BY <3>1 DEF Dropped, Page
      <4> HIDE DEF scr, mid, q
      <4> QED  BY <3>1, <4>1, <4>2 DEF Page
    <3>3. page' = [page EXCEPT ![a] = q]
      BY <2>1 DEF drop
    <3> HIDE DEF q
    <3> QED  BY <3>2, <3>3
  <2>2. CASE reload(a)
    <3>1. FreshPage \in Page /\ ~FreshPage.up /\ FreshPage.screen # "lobby"
      BY DEF FreshPage, Page, Screen
    <3> QED  BY <2>2, <3>1 DEF reload
  <2> QED  BY <2>1, <2>2
<1>2. /\ inbox' = [inbox EXCEPT ![a] = <<>>] /\ UNCHANGED vars
      /\ outbox' = [outbox EXCEPT ![a] = outbox[a]]
  BY NothingElse DEF drop, reload
<1>3. SeesLobby(p, <<>>, outbox[a], membership[a]) /\ FindsWay(p, <<>>, outbox[a], byAccount[a])
      /\ <<>> \in Seq(Letter)
  BY <1>1, EmptyMail DEF SeesLobby, FindsWay
<1> QED  BY <1>1, <1>2, <1>3, NothingElse, PageStep

\* A button sends something, and may take the page to another screen.
LEMMA Asking ==
  ASSUME ClientInv, Held', NEW a \in Account, NEW screen,
         \/ \E t \in Wish, about \in LobbyId \cup Account \cup {None} : Click(a, screen, t, about)
         \/ leaveMatch(a)
         \/ rejoinMatch(a)
  PROVE  ClientInv'
<1>0. /\ page[a] \in Page /\ inbox[a] \in Seq(Letter) /\ outbox[a] \in Seq(Request)
      /\ SeesLobby(page[a], inbox[a], outbox[a], membership[a])
      /\ Vacated(a) => FindsWay(page[a], inbox[a], outbox[a], byAccount[a])
  BY AccountsSeats
<1>1. ASSUME NEW t \in Wish, NEW about \in LobbyId \cup Account \cup {None}, Sends(a, t, about)
      PROVE  LET o == Append(outbox[a], Msg(t, about))
             IN /\ outbox' = [outbox EXCEPT ![a] = o] /\ o \in Seq(Request) /\ Holds(o, t)
                /\ SeesLobby(page[a], inbox[a], o, membership[a])
                /\ Vacated(a) => FindsWay(page[a], inbox[a], o, byAccount[a])
  <2>1. Msg(t, about) \in Request /\ Msg(t, about).t = t
    BY DEF Msg, Request
  <2>2. outbox' = [outbox EXCEPT ![a] = Append(outbox[a], Msg(t, about))]
    BY <1>1 DEF Sends
  <2> DEFINE msg == Msg(t, about)
  <2>4. msg \in Request /\ msg.t = t
    BY <2>1
  <2> HIDE DEF msg
  <2>3. /\ SeesLobby(page[a], inbox[a], Append(outbox[a], msg), membership[a])
        /\ Vacated(a) => FindsWay(page[a], inbox[a], Append(outbox[a], msg), byAccount[a])
        /\ Holds(Append(outbox[a], msg), t) /\ Append(outbox[a], msg) \in Seq(Request)
    BY <1>0, <2>4, RequestsMade, AppendIs
  <2> QED  BY <2>2, <2>3 DEF msg
<1>2. CASE \E t \in Wish, about \in LobbyId \cup Account \cup {None} : Click(a, screen, t, about)
  <2>1. PICK t \in Wish, about \in LobbyId \cup Account \cup {None} : Click(a, screen, t, about)
    BY <1>2
  <2> DEFINE o == Append(outbox[a], Msg(t, about))
  <2>2. Sends(a, t, about) /\ UNCHANGED <<vars, page, inbox>>
    BY <2>1 DEF Click
  <2>3. /\ outbox' = [outbox EXCEPT ![a] = o] /\ o \in Seq(Request)
        /\ SeesLobby(page[a], inbox[a], o, membership[a])
        /\ Vacated(a) => FindsWay(page[a], inbox[a], o, byAccount[a])
    BY <1>1, <2>2
  <2> HIDE DEF o
  <2>4. page' = [page EXCEPT ![a] = page[a]] /\ inbox' = [inbox EXCEPT ![a] = inbox[a]] /\ UNCHANGED vars
    BY <2>2, NothingElse
  <2> QED  BY <1>0, <2>3, <2>4, PageStep
<1>3. CASE leaveMatch(a)
  <2> DEFINE p == [page[a] EXCEPT !.screen = "menu", !.matchId = None]
  <2>1. page' = [page EXCEPT ![a] = p] /\ inbox' = [inbox EXCEPT ![a] = inbox[a]] /\ UNCHANGED vars
    BY <1>0, <1>3, NothingElse DEF leaveMatch, ClientInv, ClientTyped
  <2>2. p \in Page /\ p.up = page[a].up /\ p.screen = "menu" /\ p.rejoinable = page[a].rejoinable
    BY <1>0 DEF Page, Screen
  <2> HIDE DEF p
  <2>3. CASE page[a].up
    <3> DEFINE o == Append(outbox[a], Msg("lobby.leave", None))
    <3>1. /\ outbox' = [outbox EXCEPT ![a] = o] /\ o \in Seq(Request) /\ Holds(o, "lobby.leave")
          /\ SeesLobby(page[a], inbox[a], o, membership[a])
          /\ Vacated(a) => FindsWay(page[a], inbox[a], o, byAccount[a])
      <4>1. Sends(a, "lobby.leave", None)
        BY <1>3, <2>3 DEF leaveMatch
      <4>2. "lobby.leave" \in Wish
        BY DEF Wish
      <4> QED  BY <1>1, <4>1, <4>2
    <3> HIDE DEF o
    <3>2. SeesLobby(p, inbox[a], o, membership[a]) /\ (Vacated(a) => FindsWay(p, inbox[a], o, byAccount[a]))
      BY <2>2, <3>1 DEF SeesLobby, FindsWay
    <3> QED  BY <1>0, <2>1, <2>2, <3>1, <3>2, PageStep
  <2>4. CASE ~page[a].up
    <3>1. outbox' = [outbox EXCEPT ![a] = outbox[a]]
      BY <1>3, <2>4, NothingElse DEF leaveMatch
    <3>2. SeesLobby(p, inbox[a], outbox[a], membership[a]) /\ FindsWay(p, inbox[a], outbox[a], byAccount[a])
      BY <1>0, <2>2, <2>4 DEF SeesLobby, FindsWay
    <3> QED  BY <1>0, <2>1, <2>2, <3>1, <3>2, PageStep
  <2> QED  BY <2>3, <2>4
<1>4. CASE rejoinMatch(a)
  <2> DEFINE p == Started(page[a], page[a].rejoinable)
  <2>1. page' = [page EXCEPT ![a] = p] /\ inbox' = [inbox EXCEPT ![a] = inbox[a]] /\ UNCHANGED vars
    BY <1>4, NothingElse DEF rejoinMatch
  <2>2. p \in Page /\ p.up = page[a].up /\ p.screen = "match" /\ p.matchId # None
    BY <1>0, <1>4 DEF Page, Screen, Started, rejoinMatch
  <2> HIDE DEF p
  <2>3. CASE page[a].up
    <3> DEFINE o == Append(outbox[a], Msg("match.rejoin", None))
    <3>1. /\ outbox' = [outbox EXCEPT ![a] = o] /\ o \in Seq(Request) /\ Holds(o, "match.rejoin")
          /\ SeesLobby(page[a], inbox[a], o, membership[a])
      <4>1. Sends(a, "match.rejoin", None)
        BY <1>4, <2>3 DEF rejoinMatch
      <4>2. "match.rejoin" \in Wish
        BY DEF Wish
      <4> QED  BY <1>1, <4>1, <4>2
    <3> HIDE DEF o
    <3>2. SeesLobby(p, inbox[a], o, membership[a]) /\ FindsWay(p, inbox[a], o, byAccount[a])
      BY <2>2, <3>1 DEF SeesLobby, FindsWay
    <3> QED  BY <1>0, <2>1, <2>2, <3>1, <3>2, PageStep
  <2>4. CASE ~page[a].up
    <3>1. outbox' = [outbox EXCEPT ![a] = outbox[a]]
      BY <1>4, <2>4, NothingElse DEF rejoinMatch
    <3>2. SeesLobby(p, inbox[a], outbox[a], membership[a]) /\ FindsWay(p, inbox[a], outbox[a], byAccount[a])
      BY <1>0, <2>2, <2>4 DEF SeesLobby, FindsWay
    <3> QED  BY <1>0, <2>1, <2>2, <3>1, <3>2, PageStep
  <2> QED  BY <2>3, <2>4
<1> QED  BY <1>2, <1>3, <1>4

\* A page that comes on line is told where its account sits, and what it may come back to.
LEMMA Connecting ==
  ASSUME ClientInv, Held', NEW a \in Account, connect(a)
  PROVE  ClientInv'
<1> DEFINE seat == IF membership[a] # None THEN <<Msg("lobby.state", membership[a])>> ELSE <<>>
           game == IF byAccount[a] = None THEN <<>>
                   ELSE IF ~Resumes(a) THEN Offer(a)
                   ELSE IF matches[byAccount[a]].phase = "over" THEN <<Msg("match.results", byAccount[a])>>
                   ELSE <<>>
           p == [page[a] EXCEPT !.up = TRUE]
           s == seat \o game
<1>0. /\ page \in [Account -> Page] /\ inbox \in [Account -> Seq(Letter)] /\ outbox \in [Account -> Seq(Request)]
      /\ \A b \in Account : page[b].up => b \in registered
      /\ page[a] \in Page /\ membership[a] \in LobbyId \cup {None} /\ byAccount[a] \in MatchId \cup {None}
  BY AccountsSeats DEF ClientInv, ClientTyped, OpenSocketIsRegistered
<1>1. /\ accept(a) /\ page[a].screen = "menu"
      /\ inbox' = [inbox EXCEPT ![a] = s] /\ outbox' = [outbox EXCEPT ![a] = <<>>]
  BY DEF connect
<1>2. page' = [page EXCEPT ![a] = p]
  BY <1>0 DEF connect
<1>3. p \in Page /\ p.up /\ p.screen = "menu"
  BY <1>0, <1>1 DEF Page
<1>4. /\ SeatedPlay' /\ \A b \in Account : Vacated(b)' => Vacated(b)
      /\ Vacated(a)' => ~Resumes(a)
      /\ UNCHANGED <<membership, byAccount>> /\ registered' = registered \cup {a}
  BY <1>1, SeatsAfterSockets DEF ClientInv, accept, seating
<1>5. /\ seat = <<>> \/ \E x \in Letter : seat = <<x>> /\ x.t = "lobby.state" /\ x.about = membership[a]
      /\ membership[a] # None => seat # <<>>
  <2>1. CASE membership[a] = None
    BY <2>1
  <2>2. CASE membership[a] # None
    <3> DEFINE x == Msg("lobby.state", membership[a])
    <3>1. x \in Letter /\ x.t = "lobby.state" /\ x.about = membership[a]
      BY <1>0, <2>2, Letters
    <3>2. seat = <<x>>
      BY <2>2
    <3> HIDE DEF x
    <3>3. seat # <<>>
      BY <3>2
    <3> QED  BY <3>1, <3>2, <3>3
  <2> QED  BY <2>1, <2>2
<1>6. /\ game = <<>> \/ \E x \in Letter : game = <<x>> /\ x.t \in {"match.rejoinable", "match.results"}
      /\ byAccount[a] \in Running /\ ~Resumes(a) =>
           \E x \in Letter : game = <<x>> /\ x.t = "match.rejoinable" /\ x.about = byAccount[a]
  <2>1. CASE byAccount[a] = None
    BY <2>1, SessionAssumption DEF Running
  <2>2. CASE byAccount[a] # None
    <3>1. byAccount[a] \in MatchId
      BY <1>0, <2>2
    <3> DEFINE x == Msg("match.rejoinable", byAccount[a])
               y == Msg("match.results", byAccount[a])
    <3>2. /\ x \in Letter /\ x.t = "match.rejoinable" /\ x.about = byAccount[a]
          /\ y \in Letter /\ y.t = "match.results"
      BY <3>1, Letters
    <3>3. game \in {<<>>, <<x>>, <<y>>}
      BY <2>2 DEF Offer
    <3>4. byAccount[a] \in Running /\ ~Resumes(a) => game = <<x>>
      BY <2>2 DEF Offer, Running
    <3> HIDE DEF x, y, game
    <3> QED  BY <3>2, <3>3, <3>4
  <2> QED  BY <2>1, <2>2
<1>7. /\ s \in Seq(Letter) /\ SeesLobby(p, s, <<>>, membership[a])
      /\ byAccount[a] \in Running /\ ~Resumes(a) => FindsWay(p, s, <<>>, byAccount[a])
  <2> HIDE DEF seat, game, p
  <2>0. seat \in Seq(Letter)
    <3>1. \A x \in Letter : <<x>> \in Seq(Letter)
      OBVIOUS
    <3> QED  BY <1>5, <3>1, EmptyMail
  <2>1. SeesLobby(p, seat, <<>>, membership[a])
    <3>1. CASE seat = <<>>
      BY <1>3, <1>5, <3>1, EmptyMail DEF SeesLobby
    <3>2. CASE \E x \in Letter : seat = <<x>> /\ x.t = "lobby.state" /\ x.about = membership[a]
      <4>1. PICK x \in Letter : seat = <<x>> /\ x.t = "lobby.state" /\ x.about = membership[a]
        BY <3>2
      <4>2. Len(seat) = 1 /\ seat[1] = x /\ \A i \in 1 .. Len(seat) : i = 1
        BY <4>1
      <4>3. /\ StatesAreTrue(seat, membership[a]) /\ ExitsAreTrue(seat, membership[a])
            /\ Holds(seat, "lobby.state")
        BY <4>1, <4>2 DEF StatesAreTrue, ExitsAreTrue, Holds
      <4> QED  BY <1>3, <4>3 DEF SeesLobby
    <3> QED  BY <1>5, <3>1, <3>2
  <2>2. CASE game = <<>>
    <3>1. s = seat
      BY <2>0, <2>2
    <3>2. ~(byAccount[a] \in Running /\ ~Resumes(a))
      BY <1>6, <2>2
    <3> QED  BY <2>0, <2>1, <3>1, <3>2
  <2>3. ASSUME NEW x \in Letter, game = <<x>>, x.t \in {"match.rejoinable", "match.results"}
        PROVE  /\ s \in Seq(Letter) /\ SeesLobby(p, s, <<>>, membership[a])
               /\ byAccount[a] \in Running /\ ~Resumes(a) => FindsWay(p, s, <<>>, byAccount[a])
    <3>1. s = Append(seat, x) /\ s \in Seq(Letter)
      BY <2>0, <2>3, AppendIs
    <3>2. SeesLobby(p, Append(seat, x), <<>>, membership[a])
      BY <1>3, <2>0, <2>1, <2>3, ServerWords
    <3>3. ASSUME byAccount[a] \in Running, ~Resumes(a)
          PROVE  FindsWay(p, Append(seat, x), <<>>, byAccount[a])
      <4>1. x.t = "match.rejoinable" /\ x.about = byAccount[a]
        <5>1. PICK y \in Letter : game = <<y>> /\ y.t = "match.rejoinable" /\ y.about = byAccount[a]
          BY <1>6, <3>3
        <5>2. x = y
          BY <2>3, <5>1
        <5> QED  BY <5>1, <5>2
      <4> QED  BY <1>3, <2>0, <4>1, ServerWords
    <3> QED  BY <3>1, <3>2, <3>3
  <2> QED  BY <1>6, <2>2, <2>3
<1> HIDE DEF p, s, seat, game
<1>8. ClientTyped'
  <2>1. <<>> \in Seq(Request)
    OBVIOUS
  <2> QED  BY <1>0, <1>1, <1>2, <1>3, <1>7, <2>1 DEF ClientTyped
<1>9. /\ page'[a] = p /\ inbox'[a] = s /\ outbox'[a] = <<>>
      /\ \A b \in Account : b # a => page'[b] = page[b] /\ inbox'[b] = inbox[b] /\ outbox'[b] = outbox[b]
  BY <1>0, <1>1, <1>2
<1>10. OpenSocketIsRegistered'
  BY <1>0, <1>4, <1>9 DEF OpenSocketIsRegistered
<1>11. ASSUME NEW b \in Account
       PROVE  /\ SeesLobby(page'[b], inbox'[b], outbox'[b], membership'[b])
              /\ Vacated(b)' => FindsWay(page'[b], inbox'[b], outbox'[b], byAccount'[b])
  <2>1. CASE b = a
    <3>1. Vacated(a)' => byAccount[a] \in Running /\ ~Resumes(a)
      BY <1>4 DEF Vacated
    <3> QED  BY <1>4, <1>7, <1>9, <2>1, <3>1
  <2>2. CASE b # a
    BY <1>4, <1>9, <2>2 DEF ClientInv
  <2> QED  BY <2>1, <2>2
<1> QED  BY <1>4, <1>8, <1>10, <1>11 DEF ClientInv

---------------------------------------------------------------------------
(* The invariant, and what it says of the pages.                           *)

LEMMA ClientInvInit == Init /\ InitClient => ClientInv
<1> SUFFICES ASSUME Init, InitClient PROVE ClientInv
  OBVIOUS
<1>1. Held
  BY HeldInit
<1>2. FreshPage \in Page /\ ~FreshPage.up /\ FreshPage.screen = "menu"
  BY DEF FreshPage, Page, Screen
<1>3. ASSUME NEW a \in Account
      PROVE  page[a] = FreshPage /\ inbox[a] = <<>> /\ outbox[a] = <<>> /\ membership[a] = None /\ byAccount[a] = None
  BY DEF Init, InitClient, Room!Init
<1>4. ClientTyped
  <2>1. <<>> \in Seq(Letter) /\ <<>> \in Seq(Request)
    OBVIOUS
  <2> QED  BY <1>2, <2>1 DEF ClientTyped, InitClient
<1>5. \A a \in Account :
        SeesLobby(page[a], inbox[a], outbox[a], membership[a]) /\ FindsWay(page[a], inbox[a], outbox[a], byAccount[a])
  BY <1>2, <1>3, EmptyMail DEF SeesLobby, FindsWay
<1> QED  BY <1>1, <1>2, <1>3, <1>4, <1>5 DEF ClientInv, SeatedPlay, OpenSocketIsRegistered

LEMMA ServerKeepsIt ==
  ASSUME ClientInv, Held', Server
  PROVE  ClientInv'
<1>1. ASSUME NEW a \in Account, Answer(a), UNCHANGED page PROVE ClientInv'
  <2>1. ASSUME createRead(a) PROVE ClientInv'
    <3>1. PICK l \in LobbyId : Reads(a, "lobby.create", None) /\ create(a, l) /\ Broadcast(l, {a}, a, <<>>)
      BY <2>1 DEF createRead
    <3> QED  BY <1>1, <3>1, EnteringTells
  <2>2. ASSUME leaveRead(a) PROVE ClientInv'
    BY <1>1, <2>2, LeavingTells
  <2>3. ASSUME startRead(a) \/ rejoinRead(a) \/ Refused(a) PROVE ClientInv'
    BY <1>1, <2>3, OthersAreRead
  <2>4. ASSUME NEW l \in LobbyId, joinRead(a, l) PROVE ClientInv'
    BY <1>1, <2>4, EnteringTells
  <2>5. ASSUME NEW target \in Account, kickRead(a, target) PROVE ClientInv'
    BY <1>1, <2>5, KickingTells
  <2> QED  BY <1>1, <2>1, <2>2, <2>3, <2>4, <2>5 DEF Answer
<1>2. ASSUME NEW a \in Account, lobbyChanged(a) /\ UNCHANGED page PROVE ClientInv'
  BY <1>2, LobbiesTell
<1>3. ASSUME NEW a \in Account, onReplacedClose(a) /\ UNCHANGED client PROVE ClientInv'
  <2>1. UNCHANGED page
    BY <1>3 DEF client
  <2> QED  BY <1>3, <2>1, LobbiesTell
<1>4. ASSUME NEW a \in Account, ~page[a].up, onClose(a), outbox' = [outbox EXCEPT ![a] = <<>>],
             Broadcast(membership[a], Companions(a), a, <<>>), UNCHANGED page
      PROVE  ClientInv'
  BY <1>4, ClosingTells
<1>5. ASSUME NEW m \in MatchId,
             \/ startBroadcast(m) /\ UNCHANGED page
             \/ startFails(m) /\ UNCHANGED client
             \/ conclude(m) /\ UNCHANGED page
      PROVE  ClientInv'
  <2>1. UNCHANGED page
    BY <1>5 DEF client
  <2> QED  BY <1>5, <2>1, MatchesTell
<1> QED  BY <1>1, <1>2, <1>3, <1>4, <1>5 DEF Server

LEMMA PlayersKeepIt ==
  ASSUME ClientInv, Held', NEW a \in Account, Player(a)
  PROVE  ClientInv'
<1>1. ASSUME NEW screen, NEW t \in Wish, NEW about \in LobbyId \cup Account \cup {None}, Click(a, screen, t, about)
      PROVE  ClientInv'
  BY <1>1, Asking
<1>2. ASSUME \/ Click(a, "menu", "lobby.create", None)
             \/ \E l \in LobbyId : Click(a, "menu", "lobby.join", l)
             \/ Click(a, "lobby", "lobby.leave", None)
             \/ \E b \in Account \ {a} : Click(a, "lobby", "lobby.kick", b)
             \/ Click(a, "lobby", "lobby.start", None)
      PROVE  \E screen : \E t \in Wish, about \in LobbyId \cup Account \cup {None} : Click(a, screen, t, about)
  <2>1. /\ "lobby.create" \in Wish /\ "lobby.join" \in Wish /\ "lobby.leave" \in Wish
        /\ "lobby.kick" \in Wish /\ "lobby.start" \in Wish
    BY DEF Wish
  <2> HIDE DEF Wish
  <2> QED  BY <1>2, <2>1
<1>3. receive(a) => ClientInv'
  BY Receiving
<1>4. drop(a) \/ reload(a) => ClientInv'
  BY GoingOffLine
<1>5. connect(a) => ClientInv'
  BY Connecting
<1>6. leaveMatch(a) \/ rejoinMatch(a) => ClientInv'
  BY Asking
<1> QED  BY <1>1, <1>2, <1>3, <1>4, <1>5, <1>6 DEF Player

LEMMA ClientInvKept == ClientInv /\ [NextClient]_allVars => ClientInv'
<1> SUFFICES ASSUME ClientInv, [NextClient]_allVars PROVE ClientInv'
  OBVIOUS
<1>1. Held'
  BY ClientStepsAreSessionSteps, HeldStep DEF ClientInv
<1>2. ASSUME Server PROVE ClientInv'
  BY <1>1, <1>2, ServerKeepsIt
<1>3. ASSUME NEW a \in Account, Player(a) PROVE ClientInv'
  BY <1>1, <1>3, PlayersKeepIt
<1>4. ASSUME UNCHANGED allVars PROVE ClientInv'
  BY <1>1, <1>4 DEF allVars, ClientInv, ClientTyped, SeatedPlay, OpenSocketIsRegistered, Vacated, Running
<1> QED  BY <1>2, <1>3, <1>4 DEF NextClient

LEMMA ClientInvHolds == SpecClient => []ClientInv
<1> QED  BY ClientInvInit, ClientInvKept, PTL DEF SpecClient

\* An inbox with nothing in it is no news, and no offer but the one the page has.
LEMMA NoNews ==
  ASSUME NEW held, NEW m
  PROVE  (\A t : ~Holds(<<>>, t)) /\ (Offered(<<>>, held, m) => held = m)
<1>1. \A t : ~Holds(<<>>, t)
  BY EmptyMail
<1>2. ASSUME Offered(<<>>, held, m) PROVE held = m
  <2>1. \A k \in 0 .. Len(<<>>) : k = 0
    OBVIOUS
  <2> QED  BY <1>2, <2>1 DEF Offered
<1> QED  BY <1>1, <1>2

\* The socket a page holds is the one the server would send to, for any accounts, lobbies, matches
\* and mail, on either database engine (realtime/gateway.ts accept, connections.ts remove).
THEOREM OpenSocketsAreRegistered == SpecClient => []OpenSocketIsRegistered
<1>1. ClientInv => OpenSocketIsRegistered
  BY DEF ClientInv
<1> QED  BY <1>1, ClientInvHolds, PTL

\* Page and server agree on the lobby a player is in once nothing is under way, whatever sockets
\* died with on them (client/src/state/lobby.ts, lobby/handler.ts publish, exit).
THEOREM PagesShowTheSeat == SpecClient => []PageShowsTheSeat
<1>1. ASSUME ClientInv, NEW a \in Account, Settled(a)
      PROVE  /\ page[a].screen = "lobby" => page[a].lobby # None /\ membership[a] = page[a].lobby
             /\ membership[a] # None /\ page[a].matchId = None => page[a].screen = "lobby"
  <2>1. SeesLobby(page[a], <<>>, <<>>, membership[a]) /\ page[a].up
    BY <1>1 DEF ClientInv, Settled
  <2> QED  BY <2>1, NoNews, SessionAssumption DEF SeesLobby
<1>2. ClientInv => PageShowsTheSeat
  BY <1>1 DEF PageShowsTheSeat, LobbyScreenIsTrue, SeatedSeesLobby
<1> QED  BY <1>2, ClientInvHolds, PTL

\* No order of leaving, dropping, reloading and late messages loses a player the offer of the
\* seat that is held open for them (match/handler.ts attach, departed).
THEOREM TheWayBackIsOffered == SpecClient => []WayBack
<1>1. ASSUME ClientInv, NEW a \in Account, Settled(a), Menu(a), membership[a] = None,
             byAccount[a] \in Running, a \notin matches[byAccount[a]].connected
      PROVE  page[a].rejoinable = byAccount[a]
  <2>1. FindsWay(page[a], <<>>, <<>>, byAccount[a]) /\ page[a].up
    BY <1>1 DEF ClientInv, Settled, Vacated
  <2> QED  BY <2>1, NoNews DEF FindsWay
<1>2. ClientInv => WayBack
  BY <1>1 DEF WayBack
<1> QED  BY <1>2, ClientInvHolds, PTL
=============================================================================
