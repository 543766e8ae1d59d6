------------------------------ MODULE Delivery ------------------------------
(***************************************************************************)
(* What the players of a match are sent and what their pages make of it:   *)
(* setups, view frames with a share of the team's chart, and the results   *)
(* (server/src/match/handler.ts and store.ts, TeamChart and frameFor of    *)
(* shared/src/match/vision.ts, client/src/state/match.ts).                 *)
(*                                                                         *)
(* A chart is a log of squares, here numbered in the order they were       *)
(* confirmed.  A player is sent the part of it beyond a watermark that     *)
(* moves on when a frame is built, not when it arrives.                    *)
(***************************************************************************)
EXTENDS Fleet, Sequences

CONSTANTS
  Player,
  TeamPlayed,              \* player -> its team
  maxChartCellsPerFrame

ASSUME DeliveryAssumption ==
  /\ TeamPlayed \in [Player -> Team] /\ maxChartCellsPerFrame \in Nat \ {0}

VARIABLES
  chart,        \* team -> the squares its log holds
  connected,    \* the players whose seat is marked connected
  sockets,      \* the players with a socket in the registry
  chartSeen,    \* player -> its watermark
  viewSeq,      \* player -> the frames built for it
  wire,         \* player -> what is on its way to its page
  requests,     \* player -> what is on its way from it
  pages,        \* player -> what its page holds
  concluded     \* the results are recorded; the clock has done with the match

deliveryVars ==
  <<chart, connected, sockets, chartSeen, viewSeq, wire, requests, pages, concluded>>
playerVars == <<connected, sockets, chartSeen, viewSeq, wire, requests, pages>>

Setup == [kind |-> "setup", seq |-> 0, cells |-> {}]
View(seq, cells) == [kind |-> "view", seq |-> seq, cells |-> cells]
ResultsOut == [kind |-> "results", seq |-> 0, cells |-> {}]

\* picture: it has one, with these squares; told: the results that came over this socket.
Page == [picture : BOOLEAN, squares : SUBSET Nat, seq : Nat, told : Nat]
BlankPage == [picture |-> FALSE, squares |-> {}, seq |-> 0, told |-> 0]

---------------------------------------------------------------------------
(* Frames.                                                                 *)

Least(a, b) == IF a < b THEN a ELSE b

\* The squares a recipient that has seen so many is still owed, capped.
since(t, seen) == (seen + 1) .. Least(chart[t], seen + maxChartCellsPerFrame)

frameFor(p, seen) == View(viewSeq[p] + 1, since(TeamPlayed[p], seen))
SeenAfter(p, seen) == seen + Cardinality(since(TeamPlayed[p], seen))

\* Mutant: the chart is taken for known to a client that comes back.
resetNothing(p) == chartSeen[p]

\* The watermark a setup goes out with.
resetVision(p) == 0

\* The picture for one recipient, after which its frames go on from there.
sendMatch(p, last) ==
  /\ wire' = [wire EXCEPT ![p] = @ \o <<Setup, frameFor(p, resetVision(p))>> \o last]
  /\ viewSeq' = [viewSeq EXCEPT ![p] = @ + 1]
  /\ chartSeen' = [chartSeen EXCEPT ![p] = SeenAfter(p, resetVision(p))]

\* Everybody who is connected and has a socket gets a frame.
publish(to) ==
  /\ viewSeq' = [p \in Player |-> viewSeq[p] + IF p \in to THEN 1 ELSE 0]
  /\ chartSeen' = [p \in Player |-> IF p \in to THEN SeenAfter(p, chartSeen[p])
                                    ELSE chartSeen[p]]
Published(to) ==
  [p \in Player |-> IF p \in to THEN Append(wire[p], frameFor(p, chartSeen[p])) ELSE wire[p]]

\* The results go to every player with a socket, connected or not.
Told(sent) == [p \in Player |-> IF p \in sockets THEN Append(sent[p], ResultsOut) ELSE sent[p]]

\* Mutant: the results first, the last frame after them.
announceFirst(to, over) ==
  IF over THEN [p \in Player |-> IF p \in to
                                 THEN Append(Told(wire)[p], frameFor(p, chartSeen[p]))
                                 ELSE Told(wire)[p]]
  ELSE Published(to)

\* What a clock step sends: a frame if one is due, then the results if the match is over.
announce(to, over) == IF over THEN Told(Published(to)) ELSE Published(to)

\* Mutant: a match whose last frame was lost has had its turn to be concluded.
ClockSendsOnce(due, thrown, over) ==
  LET to == IF due /\ ~thrown THEN connected \cap sockets ELSE {}
  IN /\ wire' = announce(to, over /\ due /\ ~thrown)
     /\ publish(to)
     /\ concluded' = (over /\ due /\ ~thrown)
     /\ UNCHANGED <<connected, sockets, requests, pages>>

\* The end of a clock step: publish unless it throws, and conclude unless it threw.
ClockSends(due, thrown, over) ==
  LET to == IF due /\ ~thrown THEN connected \cap sockets ELSE {}
  IN /\ wire' = announce(to, over /\ ~thrown)
     /\ publish(to)
     /\ concluded' = (over /\ ~thrown)
     /\ UNCHANGED <<connected, sockets, requests, pages>>

---------------------------------------------------------------------------
(* Connections and requests.                                               *)

\* The match as begin leaves it: those with a socket have their setup and first frame, and
\* everybody is marked connected.
InitDelivery(there) ==
  /\ chart = [t \in Team |-> 0]
  /\ connected = Player
  /\ sockets = there
  /\ chartSeen = [p \in Player |-> 0]
  /\ viewSeq = [p \in Player |-> IF p \in there THEN 1 ELSE 0]
  /\ wire = [p \in Player |-> IF p \in there THEN <<Setup, View(1, {})>> ELSE <<>>]
  /\ requests = [p \in Player |-> <<>>]
  /\ pages = [p \in Player |-> BlankPage]
  /\ concluded = FALSE

\* Mutant: a page that comes back after the end is not told of it.
lastWordOmitted == <<>>

lastWord == IF concluded THEN <<ResultsOut>> ELSE <<>>

\* A new socket, which replaces the old one if there is one: a running match is resumed if the
\* seat is still connected and offered if not; one that is over is sent with its results.
attach(p, fresh) ==
  LET cleared == [wire EXCEPT ![p] = <<>>]
      resumes == concluded \/ p \in connected
  IN /\ sockets' = sockets \cup {p}
     /\ requests' = [requests EXCEPT ![p] = <<>>]
     /\ pages' = [pages EXCEPT ![p] = IF fresh THEN BlankPage ELSE [@ EXCEPT !.told = 0]]
     /\ connected' = IF resumes THEN connected \cup {p} ELSE connected
     /\ IF resumes
        THEN /\ wire' = [cleared EXCEPT ![p] =
                           <<Setup, frameFor(p, resetVision(p))>> \o lastWord]
             /\ viewSeq' = [viewSeq EXCEPT ![p] = @ + 1]
             /\ chartSeen' = [chartSeen EXCEPT ![p] = SeenAfter(p, resetVision(p))]
        ELSE wire' = cleared /\ UNCHANGED <<viewSeq, chartSeen>>
     /\ UNCHANGED <<chart, concluded>>

\* The socket closes with what was on it.
detach(p) ==
  /\ p \in sockets
  /\ sockets' = sockets \ {p}
  /\ connected' = connected \ {p}
  /\ wire' = [wire EXCEPT ![p] = <<>>]
  /\ requests' = [requests EXCEPT ![p] = <<>>]
  /\ UNCHANGED <<chart, chartSeen, viewSeq, pages, concluded>>

\* The page leaves: it forgets the match at once and says so.
pressLeave(p) ==
  /\ p \in sockets
  /\ pages' = [pages EXCEPT ![p] = [BlankPage EXCEPT !.told = pages[p].told]]
  /\ requests' = [requests EXCEPT ![p] = Append(@, "leave")]
  /\ UNCHANGED <<chart, connected, sockets, chartSeen, viewSeq, wire, concluded>>

pressRejoin(p) ==
  /\ p \in sockets
  /\ requests' = [requests EXCEPT ![p] = Append(@, "rejoin")]
  /\ UNCHANGED <<chart, connected, sockets, chartSeen, viewSeq, wire, pages, concluded>>

Request(p, what) ==
  /\ p \in sockets /\ requests[p] # <<>> /\ Head(requests[p]) = what
  /\ requests' = [requests EXCEPT ![p] = Tail(@)]
  /\ UNCHANGED <<chart, sockets, pages, concluded>>

departed(p) ==
  /\ Request(p, "leave")
  /\ connected' = connected \ {p}
  /\ UNCHANGED <<chartSeen, viewSeq, wire>>

\* A match that is over is not rejoined.
rejoin(p) ==
  /\ Request(p, "rejoin")
  /\ IF concluded
     THEN UNCHANGED <<connected, chartSeen, viewSeq, wire>>
     ELSE connected' = connected \cup {p} /\ sendMatch(p, <<>>)

\* A page takes what has arrived: a setup starts an empty picture, a frame that is not behind
\* the last one is folded in if there is a picture.
Taken(page, m) ==
  CASE m.kind = "setup" -> [page EXCEPT !.picture = TRUE, !.squares = {}]
    [] m.kind = "view" ->
         IF page.seq >= m.seq THEN page
         ELSE [page EXCEPT !.seq = m.seq,
                           !.squares = IF page.picture THEN @ \cup m.cells ELSE @]
    [] m.kind = "results" -> [page EXCEPT !.told = @ + 1]

receive(p) ==
  /\ wire[p] # <<>>
  /\ pages' = [pages EXCEPT ![p] = Taken(@, Head(wire[p]))]
  /\ wire' = [wire EXCEPT ![p] = Tail(@)]
  /\ UNCHANGED <<chart, connected, sockets, chartSeen, viewSeq, requests, concluded>>

---------------------------------------------------------------------------
(* Properties.                                                             *)

DeliveryTypeOK ==
  /\ chart \in [Team -> Nat]
  /\ connected \subseteq Player /\ sockets \subseteq Player
  /\ chartSeen \in [Player -> Nat] /\ viewSeq \in [Player -> Nat]
  /\ \A p \in Player : pages[p] \in Page
  /\ \A p \in Player : \A i \in DOMAIN requests[p] : requests[p][i] \in {"leave", "rejoin"}

\* A page that is in the match and has taken what it was sent has the team's whole chart up to
\* its watermark, however often it left, rejoined or was replaced, with frames still under way.
PageHasTheChart ==
  \A p \in connected \cap sockets :
    pages[p].picture /\ wire[p] = <<>> => pages[p].squares = 1 .. chartSeen[p]

\* Once the match is over, every page that is on line has been told exactly once, over whichever
\* socket it has by then.
EveryPageIsTold ==
  concluded => \A p \in Player : p \in sockets /\ wire[p] = <<>> => pages[p].told = 1

\* The results are the last a page hears of a match: the frame with the final positions goes
\* before them, and nothing follows.
ResultsComeLast ==
  \A p \in Player : /\ pages[p].told > 0 => wire[p] = <<>>
                    /\ \A i \in DOMAIN wire[p] :
                         wire[p][i].kind = "results" => i = Len(wire[p])

\* The outcome reaches every page on line once, and last.
OutcomeIsTold == EveryPageIsTold /\ ResultsComeLast
=============================================================================
