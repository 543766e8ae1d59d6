--------------------------- MODULE ClientSession ---------------------------
(***************************************************************************)
(* Session with the real client at the other end of each socket: the page  *)
(* a player looks at (client/src/state/lobby.ts, match.ts, nav.ts), the    *)
(* messages under way in both directions, and what every server handler    *)
(* sends (server/src/lobby/handler.ts, server/src/match/handler.ts).       *)
(*                                                                         *)
(* Only messages that move the page between screens are modelled: a match  *)
(* setup, a view frame or a line of chat changes what a screen draws.      *)
(***************************************************************************)
EXTENDS Session, Sequences

CONSTANTS
  MaxInbox,     \* bound on the messages under way from the server
  MaxOutbox     \* bound on the messages under way to it

ASSUME ClientAssumption == MaxInbox \in Nat /\ MaxOutbox \in Nat

VARIABLES
  page,      \* account -> the page in its browser
  inbox,     \* account -> messages from the server its socket has yet to deliver
  outbox     \* account -> messages from its current socket the server has yet to read

client == <<page, inbox, outbox>>
allVars == <<membership, host, registered, closing, matches, byAccount, page, inbox, outbox>>

\* The menu stands for home and the screens around it that no message leads to.
Screen == {"menu", "lobby", "match", "results"}
Page == [up : BOOLEAN, screen : Screen, lobby : LobbyId \cup {None},
         matchId : MatchId \cup {None}, rejoinable : MatchId \cup {None}]
FreshPage == [up |-> FALSE, screen |-> "menu", lobby |-> None, matchId |-> None, rejoinable |-> None]

\* A message names a lobby, a match, an account, or nothing.
Msg(t, about) == [t |-> t, about |-> about]
Mail == [t : STRING, about : LobbyId \cup MatchId \cup Account \cup {None}]

InitClient ==
  /\ page = [a \in Account |-> FreshPage]
  /\ inbox = [a \in Account |-> <<>>]
  /\ outbox = [a \in Account |-> <<>>]

---------------------------------------------------------------------------
(* The wire.                                                               *)

Listening == {a \in registered : page[a].up}

\* The inboxes after each account has been sent what it is owed, in order.
Sent(box, owed) ==
  [a \in Account |-> IF a \in Listening THEN box[a] \o owed[a] ELSE box[a]]

UnderWay(box) == Cardinality(UNION {{a} \X DOMAIN box[a] : a \in Account})
Fits(box) == UnderWay(box) <= MaxInbox

\* A lobby's state to the accounts left in it, and to one account something of its own.
Broadcast(l, members, a, own) ==
  /\ inbox' = Sent(inbox, [b \in Account |->
       (IF b = a THEN own ELSE <<>>) \o
       (IF b \in members THEN <<Msg("lobby.state", l)>> ELSE <<>>)])
  /\ Fits(inbox')

\* The message the server reads next from an account.
Reads(a, t, about) ==
  /\ outbox[a] # <<>>
  /\ Head(outbox[a]) = Msg(t, about)
  /\ outbox' = [outbox EXCEPT ![a] = Tail(@)]

\* While a synchronous load is under way the server reads only what had arrived
\* with the start, so a message sent meanwhile might as well be sent after it.
Sends(a, t, about) ==
  /\ Idle
  /\ UnderWay(outbox) < MaxOutbox
  /\ outbox' = [outbox EXCEPT ![a] = Append(@, Msg(t, about))]

---------------------------------------------------------------------------
(* The server reads a message, acts on it, and answers.                    *)

Companions(a) == IF membership[a] = None THEN {} ELSE Room!Members(membership[a]) \ {a}

Offer(a) ==
  IF byAccount[a] # None /\ matches[byAccount[a]].phase # "over"
  THEN <<Msg("match.rejoinable", byAccount[a])>> ELSE <<>>

createRead(a) ==
  /\ Reads(a, "lobby.create", None)
  /\ \E l \in LobbyId : create(a, l) /\ Broadcast(l, {a}, a, <<>>)

joinRead(a, l) ==
  /\ Reads(a, "lobby.join", l)
  /\ join(a, l)
  /\ Broadcast(l, Room!Members(l) \cup {a}, a, <<>>)

\* Mutant: a departure is not followed by an offer.
leaveReadWithoutOffer(a) ==
  /\ Reads(a, "lobby.leave", None)
  /\ leave(a)
  /\ Broadcast(membership[a], Companions(a), a, <<Msg("lobby.exit", None)>>)

leaveRead(a) ==
  /\ Reads(a, "lobby.leave", None)
  /\ leave(a)
  /\ Broadcast(membership[a], Companions(a), a, Offer(a) \o <<Msg("lobby.exit", None)>>)

\* Mutant: a kicked player is not told.
kickReadUntold(a, target) ==
  /\ Reads(a, "lobby.kick", target)
  /\ kick(a, target)
  /\ Broadcast(membership[a], Companions(target), target, <<>>)

kickRead(a, target) ==
  /\ Reads(a, "lobby.kick", target)
  /\ kick(a, target)
  /\ Broadcast(membership[a], Companions(target), target, <<Msg("lobby.exit", None)>>)

startRead(a) ==
  /\ Reads(a, "lobby.start", None)
  /\ \E m \in MatchId : start(a, m)
  /\ UNCHANGED inbox

rejoinRead(a) ==
  /\ Reads(a, "match.rejoin", None)
  /\ rejoin(a)
  /\ UNCHANGED inbox

\* What the service refuses: a rejection reaches the screen the sender is on.  A
\* start may be refused at any time, for want of readiness.
Refused(a) ==
  /\ a \in registered /\ Turn(a)
  /\ \/ Reads(a, "lobby.create", None) /\ membership[a] # None
     \/ \E l \in LobbyId : Reads(a, "lobby.join", l) /\ (membership[a] # None \/ host[l] = None)
     \/ Reads(a, "lobby.leave", None) /\ membership[a] = None
     \/ \E b \in Account : Reads(a, "lobby.kick", b) /\ ~MayKick(a, b)
     \/ Reads(a, "lobby.start", None)
     \/ Reads(a, "match.rejoin", None) /\ (byAccount[a] = None \/ byAccount[a] \notin Running)
  /\ UNCHANGED <<seating, registered, closing, matches, byAccount, inbox>>

Answer(a) ==
  \/ createRead(a) \/ leaveRead(a) \/ startRead(a) \/ rejoinRead(a) \/ Refused(a)
  \/ \E l \in LobbyId : joinRead(a, l)
  \/ \E target \in Account : kickRead(a, target)

\* A change to a lobby that moves nobody (a fleet, a seat, a setting) tells everyone in it.
lobbyChanged(a) ==
  /\ Idle /\ membership[a] # None
  /\ Broadcast(membership[a], Room!Members(membership[a]), a, <<>>)
  /\ UNCHANGED <<seating, registered, closing, matches, byAccount, outbox>>

\* The match is stored, and the lobby that was captured hears that it has begun.
startBroadcast(m) ==
  /\ store(m)
  /\ inbox' = Sent(inbox, [a \in Account |->
       IF a \in matches[m].players THEN <<Msg("match.started", m)>> ELSE <<>>])
  /\ Fits(inbox')
  /\ UNCHANGED outbox

\* The end of a match goes to everyone who was deployed in it.
conclude(m) ==
  /\ decideAbandonment(m) \/ decideMatch(m)
  /\ inbox' = Sent(inbox, [a \in Account |->
       IF a \in matches[m].players THEN <<Msg("match.results", m)>> ELSE <<>>])
  /\ Fits(inbox')
  /\ UNCHANGED outbox

Server ==
  \/ \E a \in Account :
       \/ Answer(a) /\ UNCHANGED page
       \/ lobbyChanged(a) /\ UNCHANGED page
       \/ onReplacedClose(a) /\ UNCHANGED client
       \/ /\ ~page[a].up
          /\ onClose(a)
          /\ outbox' = [outbox EXCEPT ![a] = <<>>]
          /\ Broadcast(membership[a], Companions(a), a, <<>>)
          /\ UNCHANGED page
  \/ \E m \in MatchId :
       \/ startBroadcast(m) /\ UNCHANGED page
       \/ startFails(m) /\ UNCHANGED client
       \/ conclude(m) /\ UNCHANGED page

---------------------------------------------------------------------------
(* The page.  receive is the handler of each message.                      *)

Started(p, m) ==
  [p EXCEPT !.screen = "match", !.matchId = m, !.lobby = None, !.rejoinable = None]

\* Mutant: the store takes the lobby in, the screen stays.
AfterLobbyStateStays(p, l) ==
  IF p.matchId # None THEN p ELSE [p EXCEPT !.lobby = l, !.rejoinable = None]

AfterLobbyState(p, l) ==
  IF p.matchId # None THEN p
  ELSE [p EXCEPT !.screen = "lobby", !.lobby = l, !.rejoinable = None]

AfterResults(p, m) ==
  IF p.rejoinable = m THEN [p EXCEPT !.rejoinable = None]
  ELSE IF p.matchId \in {None, m} THEN [p EXCEPT !.screen = "results", !.matchId = m]
  ELSE p

After(p, msg) ==
  CASE msg.t = "lobby.state" -> AfterLobbyState(p, msg.about)
    [] msg.t = "match.started" -> Started(p, msg.about)
    [] msg.t = "match.rejoinable" -> [p EXCEPT !.rejoinable = msg.about]
    [] msg.t = "match.results" -> AfterResults(p, msg.about)
    [] msg.t = "lobby.exit" -> [p EXCEPT !.screen = "menu", !.lobby = None]

receive(a) ==
  /\ inbox[a] # <<>>
  /\ page' = [page EXCEPT ![a] = After(@, Head(inbox[a]))]
  /\ inbox' = [inbox EXCEPT ![a] = Tail(@)]
  /\ UNCHANGED <<vars, outbox>>

\* The socket dies, and what it had not delivered with it.
Dropped(p) ==
  [p EXCEPT !.up = FALSE, !.lobby = None,
            !.screen = IF @ \in {"lobby", "match"} THEN "menu" ELSE @,
            !.matchId = IF p.screen \in {"lobby", "match"} THEN None ELSE @]

drop(a) ==
  /\ page[a].up
  /\ page' = [page EXCEPT ![a] = Dropped(@)]
  /\ inbox' = [inbox EXCEPT ![a] = <<>>]
  /\ UNCHANGED <<vars, outbox>>

\* A reload, or a second tab that takes over from the first.
reload(a) ==
  /\ page[a] # FreshPage
  /\ page' = [page EXCEPT ![a] = FreshPage]
  /\ inbox' = [inbox EXCEPT ![a] = <<>>]
  /\ UNCHANGED <<vars, outbox>>

\* A page connects when it is opened, and again from the menu, when a command
\* needs a socket.  The gateway accepts it and tells it where the account is: the
\* lobby first, the match last.
connect(a) ==
  /\ ~page[a].up /\ page[a].screen = "menu"
  /\ accept(a)
  /\ page' = [page EXCEPT ![a].up = TRUE]
  /\ outbox' = [outbox EXCEPT ![a] = <<>>]
  /\ inbox' = [inbox EXCEPT ![a] =
       (IF membership[a] # None THEN <<Msg("lobby.state", membership[a])>> ELSE <<>>) \o
       (IF byAccount[a] = None THEN <<>>
        ELSE IF ~Resumes(a) THEN Offer(a)
        ELSE IF matches[byAccount[a]].phase = "over" THEN <<Msg("match.results", byAccount[a])>>
        ELSE <<>>)]
  /\ Fits(inbox')

\* A button that only sends.
Click(a, screen, t, about) ==
  /\ page[a].up /\ page[a].screen = screen
  /\ Sends(a, t, about)
  /\ UNCHANGED <<vars, page, inbox>>

\* Leaving a match goes to the menu at once, whether or not the message gets away.
leaveMatch(a) ==
  /\ page[a].screen \in {"match", "results"}
  /\ page' = [page EXCEPT ![a].screen = "menu", ![a].matchId = None]
  /\ IF page[a].up THEN Sends(a, "lobby.leave", None) ELSE UNCHANGED outbox
  /\ UNCHANGED <<vars, inbox>>

rejoinMatch(a) ==
  /\ page[a].screen = "menu" /\ page[a].rejoinable # None
  /\ page' = [page EXCEPT ![a] = Started(@, @.rejoinable)]
  /\ IF page[a].up THEN Sends(a, "match.rejoin", None) ELSE UNCHANGED outbox
  /\ UNCHANGED <<vars, inbox>>

Player(a) ==
  \/ receive(a) \/ drop(a) \/ reload(a) \/ connect(a)
  \/ leaveMatch(a) \/ rejoinMatch(a)
  \/ Click(a, "menu", "lobby.create", None)
  \/ \E l \in LobbyId : Click(a, "menu", "lobby.join", l)
  \/ Click(a, "lobby", "lobby.leave", None)
  \/ \E b \in Account \ {a} : Click(a, "lobby", "lobby.kick", b)
  \/ Click(a, "lobby", "lobby.start", None)

NextClient == Server \/ \E a \in Account : Player(a)

SpecClient == Init /\ InitClient /\ [][NextClient]_allVars

---------------------------------------------------------------------------
(* Properties.  What a page shows is judged when nothing is under way.     *)

Settled(a) == page[a].up /\ inbox[a] = <<>> /\ outbox[a] = <<>>
Menu(a) == page[a].screen = "menu"

\* The socket a page holds is the one the server would send to: the close of a
\* socket that has been replaced never takes the new one down with it
\* (realtime/gateway.ts accept, connections.ts remove).
OpenSocketIsRegistered == \A a \in Account : page[a].up => a \in registered

\* A page that shows a lobby shows the one the account sits in.
LobbyScreenIsTrue ==
  \A a \in Account : Settled(a) /\ page[a].screen = "lobby" =>
    page[a].lobby # None /\ membership[a] = page[a].lobby

\* An account the server seats in a lobby sees it, unless its page is about a match.
SeatedSeesLobby ==
  \A a \in Account : Settled(a) /\ membership[a] # None /\ page[a].matchId = None =>
    page[a].screen = "lobby"

\* Page and server agree on the lobby a player is in, whatever sockets died with on them.
PageShowsTheSeat == LobbyScreenIsTrue /\ SeatedSeesLobby

\* A player on the menu, in no lobby, whose seat in a running match is held open
\* for them is offered that seat (match/handler.ts attach, departed): no order of
\* leaving, dropping, reloading and late messages loses the offer.
WayBack ==
  \A a \in Account :
    /\ Settled(a) /\ Menu(a) /\ membership[a] = None
    /\ byAccount[a] \in Running /\ a \notin matches[byAccount[a]].connected
    => page[a].rejoinable = byAccount[a]

\* The menu is where a player who is in no lobby is, unless a message to the contrary
\* is still to be read: App.tsx says that an account the server seats and a page on
\* the menu must not go together.
MenuMeansUnseated ==
  \A a \in Account : Settled(a) /\ Menu(a) => membership[a] = None

\* Once the server has read a player's lobby.leave, no running match counts that
\* player as one of its active participants (match/handler.ts departed, publish).
LeaveVacates ==
  [][\A a \in Account :
       /\ page' = page /\ registered' = registered
       /\ outbox[a] # <<>> /\ outbox'[a] = Tail(outbox[a])
       /\ Head(outbox[a]) = Msg("lobby.leave", None)
       => \A m \in Running : a \notin matches'[m].connected]_allVars

\* The end of a match its player has given up for another lobby does not take the
\* page away from that lobby (client/src/state/match.ts receivedResults).
ResultsStayAway ==
  [][\A a \in Account :
       page[a].screen = "lobby" /\ page'[a].screen = "results" =>
         page'[a].matchId = byAccount[a]]_allVars

\* A page that comes back to a running match its account never left lands on the
\* match screen (realtime/gateway.ts accept).
LandsOnMatch ==
  \A a \in Account :
    /\ Settled(a) /\ membership[a] # None
    /\ byAccount[a] \in Running /\ a \in matches[byAccount[a]].connected
    => page[a].screen = "match"
=============================================================================
