-------------------------------- MODULE Chat --------------------------------
(***************************************************************************)
(* Chat in a match: who may speak and who hears (shared/src/match/chat.ts),*)
(* how often (chat and allowChat of server/src/match/handler.ts), what the *)
(* match remembers (addChat and chatFor of match/store.ts) and what a page *)
(* makes of lines that come live, again with the backlog, or both          *)
(* (client/src/state/match.ts).                                            *)
(***************************************************************************)
EXTENDS Series, SequencesExt

CONSTANTS
  Talker,               \* the players of the match
  SideOf,               \* talker -> team, or Observing
  Observing,            \* the side of a spectator
  CHAT_BURST, CHAT_WINDOW_MS,
  CHAT_BACKLOG,         \* lines the match remembers
  CHAT_HISTORY_LIMIT,   \* lines a page keeps
  MaxLines,             \* bound: lines ever spoken
  Evenings              \* bounds of one behaviour: how far the clock goes, how many sockets break
                        \* or are replaced and pages leave, and who speaks

ASSUME ChatAssumption ==
  /\ {CHAT_BURST, CHAT_WINDOW_MS, CHAT_BACKLOG} \subseteq Nat \ {0}
  \* A page keeps at least what a reconnection brings.
  /\ CHAT_HISTORY_LIMIT \in Nat /\ CHAT_HISTORY_LIMIT >= CHAT_BACKLOG
  /\ MaxLines \in Nat
  /\ Evenings \subseteq [clock : Nat, breaks : Nat, speak : SUBSET Talker]

VARIABLES
  clock,        \* the server's clock
  chat,         \* the lines the match remembers
  nextChatId,
  chatTimes,    \* talker -> when its recent lines were spoken
  spoken,       \* who spoke when, and after how many losses of its socket, of late (history)
  sockets,      \* talker -> how often it was disconnected (history)
  lines,        \* talker -> the lines on their way to its page
  shown,        \* talker -> the lines its page has
  seat,         \* talker -> "watching" the match, on the "menu", or "gone"
  breaks, evening

chatVars == <<clock, chat, nextChatId, chatTimes, spoken, sockets, lines, shown, seat, breaks, evening>>

CHAT_SCOPES == {"team", "all", "spectator"}
ChatEntry == [id : Nat, from : Talker, scope : CHAT_SCOPES]

InitChat ==
  /\ clock = 0 /\ chat = <<>> /\ nextChatId = 1 /\ spoken = {} /\ breaks = 0
  /\ evening \in Evenings
  /\ chatTimes = [p \in Talker |-> <<>>] /\ sockets = [p \in Talker |-> 0]
  /\ lines = [p \in Talker |-> <<>>] /\ shown = [p \in Talker |-> <<>>]
  /\ seat = [p \in Talker |-> "watching"]

---------------------------------------------------------------------------
(* The rules.                                                              *)

canSpeakOn(scope, side) == side = Observing <=> scope = "spectator"

canHear(entry, side) ==
  \/ entry.scope = "all"
  \/ side = Observing
  \/ entry.scope = "team" /\ side = SideOf[entry.from]

\* Mutant: the window begins with the first line and is forgotten whole.
recentByFirst(p) == IF chatTimes[p] # <<>> /\ clock - Head(chatTimes[p]) >= CHAT_WINDOW_MS
                    THEN <<>> ELSE chatTimes[p]

recent(p) == Filtered(chatTimes[p], {at \in Nat : clock - at < CHAT_WINDOW_MS})

allowChat(p) == Len(recent(p)) < CHAT_BURST

\* Mutant: nothing is ever dropped.
AllOf(s, n) == s

Newest(s, n) == SubSeq(s, IF Len(s) > n THEN Len(s) - n + 1 ELSE 1, Len(s))

\* Mutant: the backlog is everybody's.
chatForAnyone(p) == chat

chatFor(p) == Filtered(chat, {entry \in ChatEntry : canHear(entry, SideOf[p])})

---------------------------------------------------------------------------
(* The server.                                                             *)

\* A line reaches everybody in the match who may hear it and has a socket, watching or not.
say(p, scope) ==
  /\ p \in evening.speak /\ seat[p] = "watching" /\ nextChatId <= MaxLines
  /\ canSpeakOn(scope, SideOf[p])
  /\ LET entry == [id |-> nextChatId, from |-> p, scope |-> scope]
     IN IF ~allowChat(p)
        THEN /\ chatTimes' = [chatTimes EXCEPT ![p] = recent(p)]
             /\ UNCHANGED <<chat, nextChatId, spoken, lines>>
        ELSE /\ chatTimes' = [chatTimes EXCEPT ![p] = Append(recent(p), clock)]
             /\ chat' = Newest(Append(chat, entry), CHAT_BACKLOG)
             /\ nextChatId' = nextChatId + 1
             /\ spoken' = spoken \cup {[id |-> nextChatId, from |-> p, at |-> clock, on |-> sockets[p]]}
             /\ lines' = [q \in Talker |-> IF seat[q] # "gone" /\ canHear(entry, SideOf[q])
                                           THEN Append(lines[q], entry) ELSE lines[q]]
  /\ UNCHANGED <<clock, sockets, shown, seat, breaks, evening>>

passes ==
  /\ clock < evening.clock /\ clock' = clock + 1
  /\ spoken' = {e \in spoken : clock' - e.at < CHAT_WINDOW_MS}
  /\ UNCHANGED <<chat, nextChatId, chatTimes, sockets, lines, shown, seat, breaks, evening>>

---------------------------------------------------------------------------
(* The page.                                                               *)

\* Mutant: a line that is not newer than the last one is taken for a repetition.
newestOnly(s, entry) == IF s # <<>> /\ s[Len(s)].id >= entry.id THEN s
                        ELSE Newest(Append(s, entry), CHAT_HISTORY_LIMIT)

\* The lines by their numbers, no two of which are the same: each after those that are less.
InOrder(s) ==
  [k \in DOMAIN s |->
     CHOOSE e \in ToSet(s) : Cardinality({i \in DOMAIN s : s[i].id < e.id}) = k - 1]

\* A line the page has already is dropped, another takes its place by its number.
receivedChat(s, entry) ==
  IF \E i \in DOMAIN s : s[i].id = entry.id THEN s
  ELSE Newest(InOrder(Append(s, entry)), CHAT_HISTORY_LIMIT)

hear(p) ==
  /\ lines[p] # <<>>
  /\ shown' = [shown EXCEPT ![p] = receivedChat(@, Head(lines[p]))]
  /\ lines' = [lines EXCEPT ![p] = Tail(@)]
  /\ UNCHANGED <<clock, chat, nextChatId, chatTimes, spoken, sockets, seat, breaks, evening>>

breaking == breaks < evening.breaks /\ breaks' = breaks + 1

\* Mutant: the times outlive the socket.
keptTimes(p) == chatTimes

\* detach forgets when the talker spoke.
detachedTimes(p) == [chatTimes EXCEPT ![p] = <<>>]

\* The socket dies, with what was on its way, and the server lets go of it; the page clears its
\* match and waits on the menu.
break(p) ==
  /\ seat[p] # "gone" /\ breaking
  /\ seat' = [seat EXCEPT ![p] = "gone"]
  /\ chatTimes' = detachedTimes(p) /\ sockets' = [sockets EXCEPT ![p] = @ + 1]
  /\ lines' = [lines EXCEPT ![p] = <<>>]
  /\ shown' = [shown EXCEPT ![p] = IF seat[p] = "watching" THEN <<>> ELSE @]
  /\ UNCHANGED <<clock, chat, nextChatId, spoken, evening>>

\* leaveMatch: the page clears its match, and lines of it go on coming.
walkOut(p) ==
  /\ seat[p] = "watching" /\ breaking
  /\ seat' = [seat EXCEPT ![p] = "menu"]
  /\ shown' = [shown EXCEPT ![p] = <<>>]
  /\ UNCHANGED <<clock, chat, nextChatId, chatTimes, spoken, sockets, lines, evening>>

\* A new socket, or the rejoin button: the match is sent, and the lines it remembers.
comeBack(p) ==
  /\ seat[p] # "watching"
  /\ seat' = [seat EXCEPT ![p] = "watching"]
  /\ lines' = [lines EXCEPT ![p] = @ \o chatFor(p)]
  /\ UNCHANGED <<clock, chat, nextChatId, chatTimes, spoken, sockets, shown, breaks, evening>>

\* Another tab: its page starts with what the match sends, and the server, which closes the old
\* socket itself, forgets nothing (accept of realtime/gateway.ts).
replace(p) ==
  /\ seat[p] # "gone" /\ breaking
  /\ seat' = [seat EXCEPT ![p] = "watching"]
  /\ lines' = [lines EXCEPT ![p] = chatFor(p)]
  /\ shown' = [shown EXCEPT ![p] = <<>>]
  /\ UNCHANGED <<clock, chat, nextChatId, chatTimes, spoken, sockets, evening>>

NextChat ==
  \/ \E p \in Talker : \/ \E scope \in CHAT_SCOPES : say(p, scope)
                       \/ hear(p) \/ break(p) \/ walkOut(p) \/ comeBack(p) \/ replace(p)
  \/ passes

SpecChat == InitChat /\ [][NextChat]_chatVars

---------------------------------------------------------------------------
(* Properties.                                                             *)

ChatTypeOK ==
  /\ clock \in 0 .. evening.clock /\ nextChatId \in 1 .. MaxLines + 1
  /\ chat \in Seq(ChatEntry) /\ Len(chat) <= CHAT_BACKLOG
  /\ \A p \in Talker : /\ Len(chatTimes[p]) <= CHAT_BURST
                       /\ Len(shown[p]) <= CHAT_HISTORY_LIMIT
                       /\ shown[p] \in Seq(ChatEntry) /\ lines[p] \in Seq(ChatEntry)
                       /\ seat[p] \in {"watching", "menu", "gone"} /\ sockets[p] \in Nat

\* A page that watches the match has, once its messages are in, every line the match remembers
\* and it may hear, each once and in the order they were spoken, whether the line came live,
\* with the backlog of a return, or both.
PageHasTheTalk ==
  \A p \in Talker :
    /\ \A i, j \in DOMAIN shown[p] : i < j => shown[p][i].id < shown[p][j].id
    /\ (seat[p] = "watching" /\ lines[p] = <<>>) => ToSet(chatFor(p)) \subseteq ToSet(shown[p])

\* What a side says among itself no page of the other side ever has, by either way.
TalkStaysAmongItsSide ==
  \A p, q \in Talker : \A i \in DOMAIN shown[p] :
    (shown[p][i].from = q /\ SideOf[p] # Observing) =>
       \/ SideOf[p] = SideOf[q]
       \/ shown[p][i].scope = "all"

\* A talker is refused exactly when it has spoken CHAT_BURST lines within the last window since it
\* was last disconnected: never more than that, and never fewer because attempts were refused, or
\* because of what it said before (allowChat, detach).
RefusedOnlyTooOften ==
  \A p \in Talker :
    LET within == {e \in spoken : e.from = p /\ e.on = sockets[p]}
    IN /\ Cardinality(within) <= CHAT_BURST
       /\ allowChat(p) <=> Cardinality(within) < CHAT_BURST

\* Who may speak does, who may hear does, and nobody else.
TalkIsSound == PageHasTheTalk /\ TalkStaysAmongItsSide /\ RefusedOnlyTooOften
=============================================================================
