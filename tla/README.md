# SEG: a verification project

SEG is a multiplayer submarine game: a browser client, a Node server and a shared
simulation, in TypeScript (`src/packages/{client,server,shared}`). This directory
holds TLA+ models of it, the TLC runs that check them, and proofs checked by TLAPS.
The reference is the code; a definition names the lines it models in
`PROJECT.json` under `map`.

## 1. The system

| Component | State it keeps | Operations | Talks to |
|---|---|---|---|
| Lobby registry `server/src/lobby/service.ts` | lobbies, join codes, account → lobby, when each account last created | create, join by code or id, position, fleet, ready, start, modify, leave, kick, disconnect, resync of a fleet | called by the lobby handler; synchronous, no I/O |
| Lobby handler `server/src/lobby/handler.ts` | none of its own | one case per message, `attach`/`detach`, `fleetChanged` | registry; connection registry (sends); fleet lookup and match starter (promises); match handler (callbacks `onMatchDeparture`, `onEnteredLobby`) |
| Saved fleets `server/src/http/routes/fleets.ts`, editor `client/src/state/fleet.ts` | fleet rows; a draft | create, overwrite, delete, load; every edit | database; lobby handler (`onFleetChanged`) |
| Accounts `server/src/auth/`, `client/src/state/auth.ts` | accounts, sessions, cookies, what the page shows | sign up, in and out, resolve with a sliding expiry, sweep | database, password hashing (both wait) |
| Sockets `server/src/realtime/` | account → live connection | accept (replaces the old socket), close | lobby and match handlers |
| Match membership `server/src/match/{store,handler,starter}.ts` | matches, account → match, `connected` per player, chart watermarks, chat, results | start, attach, detach, departed, abandon, rejoin, conclude, the orders | runtime, connection registry |
| Match clock `server/src/match/clock.ts` | one timer | tick every running match, publish, conclude | runtime, match handler |
| Match runtime `server/src/match/runtime.ts` over `shared/src/match/`, `shared/src/sim/` | boats, tubes, weapons, zones, contacts, charts, tallies, scores | tick, orders | clock, match handler |
| Acoustics `shared/src/sim/acoustics/` | swept fields, kept from tick to tick | one solve a second or so | runtime |
| Start of a match `shared/src/map/skeleton.ts`, `match/deploy.ts` | none: a plan from a seed | plan a cave, put the boats down | starter |
| Client session `client/src/state/`, `App.tsx` | screen, lobby, match id, rejoin offer, socket, the picture of a match | one handler per message, the buttons, `connect`, `onClose` | server, over one socket |
| Scope and mini-map `client/src/render/`, `ui/hud/MiniMap.tsx` | canvases, squares drawn, alarms raised | poll the picture every frame | client session |

What makes it hard:

* **Two sources of truth.** A player's place is recorded by the lobby registry, by the
  match index, by the `connected` mark of a seat, by the connection registry, and once
  more by the page. Each is changed by different messages; nothing is transactional.
* **Promises.** A fleet lookup, a re-read, the loads of a match start, the hash of a
  password answer later than they were asked, and the code acts on the state of *then*.
* **Sockets.** A second tab replaces the first; the first one's close comes later. A
  socket that dies takes undelivered messages of both directions with it.
* **Crossing messages.** What a player sends is acted on after what the server has
  already sent; the page has one handler per message and no notion of order.
* **The tick.** Some fifteen phases of one function hand copies of the boats on to each
  other; the order in which harm, kills, captures and the verdict are read off them decides
  a match. A tick may throw half-way and is then not repeated.
* **Things kept to save work.** Standings recounted only when something seems to have
  changed, fields of sound kept from an earlier solve, squares handed to the screen once.

What makes each component right is stated by its properties, in section 3.

## 2. The modules

```
Seating          what the registry promises       Loading   what the gear promises
  ^        ^                                        ^
  | impl.  | impl.                                  | impl.
Lobby    Session                                  Tubes   Objectives  Weapons  Vision
           ^                                        |  \______ | ______/ _____/
           | EXTENDS                                |         Results   Delivery
         ClientSession                              |___________|___________|
                                                    v
FleetRules - FleetEditor                          Match     a match, first frame to results
Accounts  Chat  Helm  Berths  Levels
Sound - Listening   Scope                         Fleet: the boats all of these share
  \____________________/                          Series: what a sum and a fold are
           v
        Services          the parts that share no state with a lobby or a match
MCLobby, MCSession, MCClientSession, MCMatch, MCServices      instances for TLC
*Proofs                                                       theorems (section 4)
```

### Lobbies and sessions

* **`Seating`** is the abstract registry: `create`, `join`, `remove` on `membership` and
  `host`. `Lobby` implements it with `host` read off its lobby records
  (`Seats == INSTANCE Seating WITH host <- ...`); `Session` is built on its actions and
  implements it as well. Both checks are `ImplementsSeating`.
* **`Lobby`** is `service.ts` with the asynchronous edge of `handler.ts` and the fleet
  routes. A lobby record is the code's `MutableLobby` with its members as a function of
  the account. A request the service refuses changes nothing and is no step. A lookup
  under way is an element of `lookups`, with the row it found: the read happens when it
  is asked and its answer is used when it arrives. `start` is the roster captured by
  `handler.start`, until the fleets are loaded.
* **`Session`** is everything that decides where an account *is* on the server: accept,
  close and late close of a replaced socket (`closing` counts those still to come),
  create, join, leave, kick, start, the load and its two outcomes, rejoin, and the tick.
  `matches[m].connected` are the players whose `connected` is true, `byAccount` is
  `MatchStore.byAccount`. Readiness is left to `Lobby`: in `Session` a host may always
  start.
* **`ClientSession`** puts a page at the other end of each socket. `inbox` and `outbox`
  are the two directions of the account's current socket, in order. `After` is the client's
  message switch, `connect` is the gateway's `accept` with what `lobby.attach` and
  `match.attach` send, and each `...Read` action is a handler with everything it sends.
  A socket may die, a page may be reloaded or replaced by another tab at any time.

Two constants choose between the environments the code is written for. `SyncStore` is
TRUE for the SQLite engine, whose promises are already resolved when they are returned:
their continuations run before the process takes up another socket's data or timer, though
not before messages that had arrived with the one being handled (`Turn`, `Idle`).
`db.ts` is an interface meant for an asynchronous engine as well; FALSE lets an answer
come at any time. `ReadsMayFail` lets a re-read reject. (`Accounts` has both engines in
one run, as its variable `engine`.)

### A match

* **`Fleet`** is who is on which side and who is a wreck. **`Tubes`** is the loading gear
  with the orders that reach it between ticks, in units of time of which a tick has
  `TickSpan`, so that an unload may end between two ticks; **`Loading`** is the promise it
  implements: a shot costs a reload, a change of mind an unload and a reload.
* **`Objectives`** is the zones on a line of candidate centres: arming, contest, capture,
  retirement, and the filling of vacancies with all of its separations and the deep-water
  limit. `streak` is a history variable: how long each team has been inside.
* **`Weapons`** is the run of a torpedo or a countermeasure, its fuzes, its burst and what
  that does to hulls; geometry is a choice (`Fates`). **`Vision`** is the contact books,
  decoys and ping alerts, fed by a solve that is a choice of what was heard.
  **`Results`** is tallies, standings and the verdict. **`Delivery`** is what each page is
  sent, with its watermark, and what it makes of it.
* **`Match`** composes them: `step` is one turn of the clock -- the tick in its order, the
  frame if one is due, the results if it is over, with the two places where it may throw --
  and the orders come between. `scene` bounds a behaviour, so that one model can be looked at
  from several sides: it restricts players and geometry, never the code.

### Services

`Services` puts side by side what shares no state: a behaviour is about one `topic`.

* **`FleetRules`** are the rules of `validate.ts`, `resolve.ts` and `stats.ts`, with the
  content tables as a parameter, because fleets outlive them; **`FleetEditor`** is the
  draft, the calls and the rows, through a release that takes a slot and a module away.
  The screen holds back a second save while it shows one (`busy`), and nothing else: loads,
  deletions and lists begin beside it, and the end of any of them clears `busy`. A call is
  a row of `requests`, served in any order, answered in any other, lost, or given up by the
  page and served after all; a create counts in one call of the database and inserts in
  another. `crossed` is history: it marks an answer that a save of the same fleet was under way
  beside. One page acts for the account; ids are random in the code, so an id may be new here
  as soon as nothing refers to it.
* **`Accounts`** cuts each call where the code waits: at the hash always, between a read
  and its write with an asynchronous engine only. **`Chat`** is the scopes, the rate, the
  backlog and the page's log. A socket that closes makes the server forget when its player
  spoke (`detach`); one that another tab replaces does not.
* **`Helm`** is routes, throttle, reversal and `resolveCollisions` on one line of water.
  **`Berths`** is `deployMatch` on the lattice of the ruler (`measure.ts`): positions are cells of
  5 m, room is in metres. The ruler's clearance is a *width*, twice the distance to the nearest
  rock less half a cell, and so is what a hull is tried with, 1.6 of twice its radius
  (`neededFor`, `Clear`); the rows beyond surface and seabed are rock (`Frame`), the sides are
  open. A place is the middle of a cell, so `BERTH_STEP` is odd. **`Levels`** is `planLevels` and the
  choice of the trunk, with heights as fractions over `scale`.
* **`Sound`** is the lattice and the arena of swept fields, evictions and all;
  **`Listening`** is one `solve`: reach, heatmap, direct returns, cutoff, reflections. It
  is one call in the code; its passes are steps here so that intermediate results are kept.
  Lengths are whole numbers (`CELL`, `DIAGONAL`) and levels are powers, as in the solver's
  inner loops.
* **`Scope`** is the picture that hands each run of charted squares over once, and the two
  surfaces that poll it: the scope, whose canvas comes up asynchronously and may come up
  after its scope has gone, and the mini-map. A store update and the React effect it causes
  are one step: the code flushes it synchronously.

## 3. The runs

| Run | Instance | What it shows |
|---|---|---|
| `LobbySeats` | 4 accounts, 2 lobbies, 2 codes, caps 2 and 4, 1 spectator seat, cooldown 1, time 0..1 | `SeatsWithinCapacity`, `RegistryAgrees`, `HostSuccession`, `TypeOK`, and that `Lobby` implements `Seating` |
| `LobbyFleets` | 2 accounts with a fleet each, costs and budgets {1, 2}, 2 reads in flight | `ReadyIsHonest`, `SelectionIsCurrent`, `StartedWithinBudget`, `ReadyForTheSameFleet`, and `UnaffordableIsDropped` (liveness) |
| `LobbyFailedRead` | the same with reads that may fail | **violation** of `StartedWithinBudget` |
| `Session` | 2 accounts, 2 lobbies, 2 matches, 1 replaced socket each | `NoGhosts`, `SeatIsReal`, `SeatedConnectedIsOnline`, `TypeOK`, `DesertedIsAbandoned` (liveness), and that `Session` implements `Seating` |
| `SessionTwoMatches` | 1 lobby | **violation** of `OneRunningMatch` |
| `ClientSession` | 2 players, 1 lobby, 1 match, 2 messages from and 1 to the server at a time | `OpenSocketIsRegistered`, `PageShowsTheSeat`, `WayBack` |
| `LeaveAfterRejoin`, `StrayResults`, `ReplacedTab`, `LeaveCrossesStart` | 1 player | **violations** of `LeaveVacates`, `ResultsStayAway`, `LandsOnMatch`, `MenuMeansUnseated` |
| `Match` | 2 boats, one a side, the first with two tubes; seven scenes | `NoRunIsEndless`, `ProgressIsEarned`, `BoardIsLegal`, `BooksAgree`, `ScopeIsHonest`, `PageHasTheChart`, `OutcomeIsTold`, `VerdictIsJust`, `MatchTypeOK`, that the gear implements `Loading`, and `MatchIsReported` (liveness) |
| `Services` | nine topics, below | `FleetsAreSound`, `AccountsAreHonest`, `SessionsRunOut`, `TalkIsSound`, `DrivingIsSafe`, `WrecksGoDown`, `StartIsSound`, `SoundIsExact`, `SurfacesAgree`, `ServicesTypeOK` |

A property is a conjunction of named parts; each part has its own comment beside it and at
least one mutant.

**Bounds.** Four accounts over caps 2 and 4 fill a lobby of either size to its last seat,
with one more knocking, and let a lobby shrink under its members. Two lobbies are what
it takes to be in the wrong one. Two fleets and costs on both sides of both budgets
give every combination of selected, affordable and edited. One spectator seat, not 16: the
count is only compared with the cap. Time is only compared with the cooldown, so 0..1 shows
a refusal and a grant. In `Session` a second match is what a stale index could point
at; one replaced socket per account is a close that comes late, more only repeat it.
`MaxInbox` and `MaxOutbox` bound the messages under way in all: 2 and 1 let a server
message meet another and cross one from the client; a server step that would send more
waits, which a socket's own queue may do for as long as it likes. A player alone with 3
and 2, and two matches, has been checked as well and shows the same.

*The scenes of `Match`*: the tubes under way while orders change; a battle with
collisions; a decoy under sonar; two noisemakers and a throw; a race for the zones with
collisions; two players who come and go while the clock throws and the chart grows; one
player who comes and goes over a longer chart. A battle and a race together would only
multiply independent moves: the one place where they meet, boats that are wrecked inside a
zone, is in the race (`rams`). Hulls of 1 and 2 points and bursts of up to 2 give a hit that
sinks and one that does not; a match of 7 ticks with captures of 3 lets a zone be won, lost,
frozen and replaced; frames come every second tick, so one may be missed.

*The topics of `Services`*: two releases that retire a module and a slot, two boats and
three edits of every kind for the fleets around one call at a time, or one release and two edits, of
which boats there are, around two calls at once (`TwoDesks`; `kinds` restricts the player,
never the code); two ids under a cap of 1; two browsers with two names and three calls at one moment,
or one name and three calls while a use is stamped, or two calls and time for a session to be extended
and to end (`ThreeStays`); one talker a side and a spectator who all speak at one moment, or a player
and the spectator, one of whose sockets breaks or is replaced, or whose page leaves, or a single talker
while that happens and the clock runs through a whole window (`ThreeEvenings`: the rate is counted
for each talker alone, so one who speaks is enough for the clock); three boats, one rock, three places to go and
three commands for the helm; eight maps (a wall through a band, stone above or below, a band
all but full, water under the surface only or none, a rock in each band) and four lists of boats for the berths; seven tunings for the
levels, two of them too low for a cave; for the sound a water of 8 by 2 with a rock that is
gone round, one that is not in the way, two that seal a passage on the diagonal, and
open water with more cells than a field may hold, so that fields are evicted; near and far
boats, loud and quiet, with a wreck, for the listening; three setups and two pictures for
the scope, where squares are charted *or* launches are heard (`TwoOutlooks`), as neither
touches the other. `SEEN_LIMIT` is 2 of 2 launches at once: no more are reported at once
than a tracker keeps.

`LobbySeats`, `Match` and `Services` turn the deadlock check off: bounded time, a concluded
match and a used-up topic leave nothing to do. The largest run is `Services`, with 626,000
states in about four minutes.

**Fairness.** A player owes nobody a step, so no action of a player is fair. `Lobby`:
weak fairness of the answers to reads -- promises settle. `Session`: weak fairness of
the end of a load, and strong fairness of the tick's `decideAbandonment` -- one
`setInterval` walks the running matches forever; a load in progress only delays it, so
one load after another must not starve it. `Match`: weak fairness of the clock
(`WF_beat(turns)`) -- an interval timer, which goes on after a step that threw; how often
steps throw is bounded (`faults`), for a clock that always throws never ends a match.
`ClientSession` and `Services` state no fairness: they are about safety.

**What the violations say** (`PROJECT.json`, `findings`): each quotes a comment that the
code does not live up to. A failed re-read is *not* re-checked at the start; a second start
makes a second match; a leave after a rejoin is refused and the seat stays connected;
results of a given-up match take the page from the new lobby; a second tab lands on the
lobby and not on the match; and a leave that crosses the start leaves the page unable to
show any lobby.

**What two of the passing properties except.** A load that the server serves before an update of
the same fleet, and whose answer the page takes after that of the update, or after giving the
update up, leaves a draft that shows nothing unsaved over a row that differs from it, with
nothing under way (`state/fleet.ts:110`; the buttons of the list are not held back). The shortest
way there takes an edit before a save and a load begun beside it. `CleanMeansStored` excepts drafts
from an answer that was so crossed and no others. And `detach` forgets the times a player spoke at
(`match/handler.ts:190`), so who says `CHAT_BURST` lines, loses the socket and comes back may say as many
more in the same window: `RefusedOnlyTooOften` counts from the last disconnection. Neither
exception is in the comments of the code (`state/fleet.ts:20-23`, `match/handler.ts:755`).

Every property of a passing run has mutants in the modules (`joinFull`, `SentAnyway`,
...; each says what bug it stands for): with one in place of the definition beside it,
the run fails.

## 4. What is proved

TLC looks at the instances above; the theorems hold for every value of the constants: any
accounts, lobbies, matches, boats, tubes, weapons, boards, hits, loading times, caps,
budgets and bounds, from the assumptions the modules name and no others: fleets and launches are finite,
`None` is none of the things it stands beside, hulls are worth a point at least, boards and
loads are such as the code accepts. One is about the model rather than the code:
`MatchAssumption` has `Share`, the unit in which damage is credited, divisible by every
number of points that may be claimed in a tick, so that shares are exact; the code divides
real numbers. Another is `LevelsAssumption`: the least height of a tall level is no less than
the floor, as `planLevels` computes it. A third is `TablesAssumption`: whatever *sets* a statistic
sets it to the same; one module of the game sets one (`content/modules.ts:106`). Eight modules hold the theorems: `LobbyProofs`;
`SessionProofs`, the pages included; `PartsProofs`, the gear and the zones by themselves,
which `MatchProofs` and then `ResultsProofs` extend to a whole match; `PreparationProofs` and
`ServicesProofs`; and `SeriesProofs`, the lemmas about sums, folds and finite sets they share. Each part has
one inductive invariant; what a run checks is a consequence of it.

| Theorem | Says |
|---|---|
| `LobbyProofs!TypeCorrect`, `RegistryAlwaysAgrees`, `SeatsAlwaysWithinCapacity`, `HostsAreSucceeded` | `TypeOK`, `RegistryAgrees`, `SeatsWithinCapacity`, `HostSuccession` |
| `LobbyProofs!LobbyImplementsSeating`, `SessionProofs!SeatingIsSound` | `Lobby` implements `Seating`; in it, every lobby with anybody in it has its host among them |
| `LobbyProofs!ReadyAlwaysHonest`, `ReadyStaysForTheSameFleet` | `ReadyIsHonest`, `ReadyForTheSameFleet`, under either engine, reads failing or not |
| `LobbyProofs!SelectionsStayCurrent`, `StartsStayWithinBudget` | `SelectionIsCurrent`, `StartedWithinBudget`, for the SQLite engine and reads that do not fail |
| `SessionProofs!SessionTypeCorrect`, `NeverAGhost`, `SeatsAlwaysReal`, `MarkedAreOnline`, `SessionSeats` | `TypeOK`, `NoGhosts`, `SeatIsReal`; `SeatedConnectedIsOnline` for the SQLite engine; `Session` implements `Seating` |
| `SessionProofs!OpenSocketsAreRegistered`, `PagesShowTheSeat`, `TheWayBackIsOffered` | `OpenSocketIsRegistered`, `PageShowsTheSeat`, `WayBack`, under either engine, for any amount of mail |
| `PartsProofs!GearKeepsItsPromise`, `MatchProofs!MatchKeepsThePromise` | the gear implements `Loading`, by itself and in a match |
| `PartsProofs!ProgressStaysEarned`, `BoardStaysLegal`, `MatchProofs!MatchBoardIsLegal` | `ProgressIsEarned` and `BoardIsLegal`, for a board by itself and in a match |
| `MatchProofs!RunsEnd`, `TheOutcomeIsTold`, `PagesHaveTheChart`, `ScopeStaysHonest` | `NoRunIsEndless`, `OutcomeIsTold`, `PageHasTheChart`, `ScopeIsHonest` |
| `ResultsProofs!TheVerdictIsJust`, `TheBooksAgree`, `MatchIsTyped` | `VerdictIsJust`, `BooksAgree`, `MatchTypeOK` |
| `ServicesProofs!DrivingStaysSafe`, `WrecksAlwaysGoDown` | `DrivingIsSafe`, `WrecksGoDown` |
| `ServicesProofs!AccountsStayHonest`, `SessionsAlwaysRunOut` | `AccountsAreHonest`, `SessionsRunOut`, for both engines |
| `ServicesProofs!TalkIsAlwaysSound` | `TalkIsSound` |
| `ServicesProofs!SurfacesAlwaysAgree` | `SurfacesAgree` |
| `ServicesProofs!ServicesAreTyped` | `ServicesTypeOK` |
| `PreparationProofs!FleetsStaySound` | `FleetsAreSound`, over any number of releases, tables and calls at once |
| `PreparationProofs!TheStartIsSound` | `StartIsSound`: the levels of any cave, the berths of any roster |

**The registry.** The invariant is `Registered == TypeOK /\ RegistryAgrees`. Neither half is
inductive by itself: a departing host leaves an heir *because* the host is a member and a
lobby stands only while it has members, which is `RegistryAgrees`; and that the member's
row exists to be copied is `TypeOK`. Every action that touches a lobby does one of four
things to it -- creates it, adds a row, changes a row, removes a row -- and each has a lemma.
The rest is relative to `Registered`, over one case split of a step (`StepsOfTheLobbies`):
`Honest` and `Fits`, a row at a time. For the seats only the two teams and the spectators
have caps of their own; that the players fit follows because caps are even. `Current` is
what makes a selection current: it is the row, or a re-read of it is on its way.

**The session.** The invariant is `Held`. `SeatedConnectedIsOnline` is not inductive: a match is
stored with everybody on the captured roster marked connected, so it needs
`LoadingAreOnline`, that nobody on that roster has gone since -- true under the SQLite
engine because no socket closes while fleets are read, and at the capture because of
`NoGhosts`. `QuietSteps` settles at once every step that begins and ends no match.

**The pages.** `PageShowsTheSeat` and `WayBack` speak of a page with nothing under way; the
invariant, `ClientInv`, has to say what is under way the rest of the time. *The last word
of a lobby*: a `lobby.state` in the mail is of the lobby the account sits in unless a
`lobby.exit` comes after it, and the other way about (`StatesAreTrue`, `ExitsAreTrue`). *The
screen*: a lobby on it is the right one unless an exit is to come; and a seat that it does not
show is on its way, or there is a `lobby.leave` the server has not read (`SeesLobby`).
*The offer* of a vacated seat is what the page holds, or is in its mail, and nothing after it
would undo it; or the page has asked for its match back (`FindsWay`). A kick makes no
offer, and the proof needs a reason why none is owed: whoever sits in a lobby has not
left its match (`SeatedPlay`), because entering a lobby gives the old match up. Every
server handler is then one lemma about what it puts in whose mail, every page's step one
about what it takes out, and `MailGrows`, `MailShrinks`, `OffersGrow` and `OffersShrink` are
the facts about sequences they share.

**The gear.** `GearInv` is the types and `TubesInv`: what a tube is at is what its state says,
and no more of it is left than it takes. The mapping to `Loading` reads progress off the time
that is left (`Promised`); a tick that spans the end of an unload is one step of the
gear and two of the promise, and `Bar` says which.

**The zones.** `ZonesInv` adds to `ProgressIsEarned` that a zone that is arming is nobody's
(`ArmingIsNobodys`). For the board, `Legal` and `Before` carry through a vacancy being
filled after another: `PlacedIsClear` is the separations and `FewAreDeep` the limit, for any
order of filling.

**A match.** Each part is untouched by the steps of the others (`StepsOfTheGear`,
`StepsOfTheBoard`), so its theorem carries over. `RunsInv` is about one weapon at a time
(`OnTheClock`): every phase is younger than the clock allows, spent ones ring no longer than they
may. `TellInv` says what each player is still owed of the results (`Owed`), by whether the
match is concluded, for every way a socket comes and goes; that results are the last
word of a wire is part of it, and so is what a frame under way says of the chart, which is
what `PageHasTheChart` comes down to when nothing is under way. `ScopeInv` knows why a mark is one of the other side's: ids of
weapons are numbers and so no boats, a mark carries what it was made from, an alert is
dated by the last ping, and one pulse makes one alert (`IsDated`, `OnePulseOneAlert`).

**The results.** Standings, tallies and credits are sums over fleets. A sum is a recursive
function on the subsets of a finite set; that there is one and that it unfolds (`SumsExist`,
`SumUnfolds`) is by induction over proper subsets, and the rest (`SumPlus`, `SumAtMost`,
`SumsSwap`, ...) by adding elements one at a time: the induction is over a set of good
subsets and not over a formula, which the provers cannot instantiate (`SmallerFirst`, `OneAtATime`).
The invariants come in layers, each relative to those below. `WorldInv`: what is in the
water is of somebody's, hit points are numbers, and the wrecks are the boats without any.
`BooksInv`: losses, captures and standings. That standings are current though `step`
recounts them on some ticks only is `NothingElseHarms`: a tick whose guard sees no loss has
changed no hull. Every boat that weapons sink has one killer (`HarmHasAKiller`), and a zone
that falls is paid for once and credited to those who were in it (`PaidOnce`,
`CreditedToThoseThere`). `ClockInv`: a match is past its time by no more ticks than solves
threw; with it, `NothingToDecide` says that a match that goes on has no wipe, no target and no
time to end it by, and `VerdictIs` that the one it ends with is the first of those that
applies. `ShownInv` and `AskedInv` complete the types: what teams are shown, and what is on
its way from players. `NumbersInv` says that no more is in the water than was fired and
dropped: it bounds what can be claimed of one hull in one tick, so that its shares are exact.
Then what the claimants of a hull are dealt adds up to what it lost (`PartsAddUp`), and to sum
by boat or by victim is the same (`DealtIsLost`); `HarmIsCredited` is the total, tick by tick
(`HarmAfterATick`).

**Driving.** That a hull is never in stone is inductive as it stands. That every contact is paid
for is not: `HelmInv` adds that a boat under way owes a command (`UnderWay`) and that time
spent on a leg and time to go are no more than a leg takes (`OnTime`); a collision stops a boat, so
it takes a command to collide again.

**Accounts.** `AccountsInv` says of every row that it is sound, of every call under way what
it has established by then (`CallsAreHonest`: this is where an answer may come
after the row has gone), and of every page that whoever it shows is whom its cookie
acts for (`WhoIsShownActs`). `RowsGoOn` is why a call that has found a row still has one
when it writes.

**Talk.** `ChatInv` says that the lines remembered are the last ones without a gap
(`TalkIsNumbered`), that one number is one line wherever it is known (`TalkIsKept`), and that
who watches has, or is being sent, what it may hear of them (`TalkComesThrough`). A page
may drop a line to make room. It is not one the match remembers: a page keeps at
least as many as the match does, its lines are in order, and numbers in order are as far apart
as their places (`NumbersSpread`, `ALineReceived`). For the rate, `TalkIsCounted` compares the
log of times with what was spoken in *every part* of the window, because the window moves on
and the log is cut to it only when its talker speaks. `filter` is a recursive function here and the
sort is by rank; what they do is proved by adding one element at a time (`OneLonger`,
`FilteredTwice`, `OneMoreInOrder`), as for sums.

**The surfaces.** `ScopeInv` is three things. `PageInv`: which canvas may be up, by the
number of the scope that asked for it. `ChartInv`: the runs that were handed over, with those
that wait, are made of the squares of the picture, each once, and every chunk is filled;
within `appendChart` the last one waits for its fill (`Filled`, `Sealed`). A square lengthens the last run or begins one and either way adds itself and nothing
else, a run goes into one chunk; what a frame's worth of them does is by induction along the
sequence (`FoldedOfOneMore`). `AlarmInv`: what a tracker has raised it remembers, unless it is
out of reports for good (`Knows`, `OutOfReports`); that trimming forgets nothing else rests on the
bound on what is reported at once, and a tracker with more keys than that has old ones.
The picture's steps, the scope's and the mini-map's have a lemma each.

**Fleets.** Editor and server agree because a boat that fits its hull under some tables
(`FitWell`) is one those tables' repair leaves alone, and whatever repair leaves of any boat
fits (`RepairIs`, by induction along its modules). `EditorInv` is `DeskInv` and `CapInv`. In
`DeskInv`, a row is sound for the tables it was *stored under*, price included (`RowsAreBuilt`),
whichever tables there are now. A draft is one that these tables allow (`DraftIsBuilt`); every
edit leaves it so. A draft that shows nothing unsaved and was not crossed is its row as these tables
repair it (`DraftIsTrue`), which by itself is not inductive: what is under way may change
either. `CallsAreTrue` says what each call has established (`CallIsTrue`): until an update is
served, a clean draft of that fleet is what it carries; an answer that was not crossed is still
the row, because nothing else writes a row. That needs a fact about *pairs* of calls, that whoever shares a fleet
with an update yet to be served knows it (`Noticed`). `CapInv` is the cap: with the synchronous
engine at most one create has been counted and not inserted, and there is room for it. As for
stacking, each of the five operations commutes with itself (`PassesCommute`; for `set` this is
`TablesAssumption`), a fold whose steps commute comes to the same backwards (`FoldedBackwards`),
and so does the pass over the operations (`AppliedBackwards`). The statistic is an integer: what
the order may do to the last digit of a product of floating-point numbers is not looked at.

**Types.** `ServicesTypeOK` follows from the invariants of the parts. Two need more: talk
the bounds of a behaviour (`ChatInBounds`), and driving what a hull can take, with damage a sum of
natural numbers and a boat that holds stopped (`Sturdy`, `HarmIsANumber`).

**The levels.** `LevelsInv` follows the stack while it is drawn and fitted: no two levels are
alike, and where the two extremes fit together neither has been dropped. What is squeezed
fits because the room it is given is a share of one at most (`RoomIs`, `SqueezedFits`). A level
that is dropped is no extreme (`ALeastCharacterful`): with three there is one between them, and
two that are the extremes would fit (`APairTakes`, `OneTakes`). The trunk follows from the
spread (`SpreadKeepsTrunk`): the second level drawn is wide enough, so the tallest is.

**The berths.** `WellPut` is what a boat's place is to those that were put down before it, and
`BerthsInv` that every boat so far was put rightly among those (`Rightly`). The search is a
minimum over a finite lattice (`LatticesAreFinite`, `TheScanFinds`), tried with less and less
room; it is found in water, in its band, clear of rock, surface and seabed by the radius of the
hull, and alone, whenever there is such a place
(`BerthsAreFound`), and who comes later disturbs none of it (`BerthsStay`).

**Only model-checked, and why.**

* Liveness: `UnaffordableIsDropped`, `DesertedIsAbandoned`, `MatchIsReported`. Fairness and
  ENABLED are out of the prover's reach.
* `SoundIsExact` compares what sweeps over a lattice settle on with the shortest ways through
  it: an induction over paths and sweeps at once, with evictions in between.
* Where a run expects a violation there is nothing to prove.

## 5. What is not modelled

* **Debug console** (`server/src/match/debug*`, `client/src/ui/debug`): off unless built for
  development, and allowed to break any rule.
* **Content tables** (`shared/src/content/`): numbers. Models take them as parameters, with
  assumptions only where the code needs one.
* **Wire protocol** (`shared/src/protocol/`): parsing and validation of shapes. Messages are
  modelled by what they carry; that a malformed one is refused is not.
* **Presentation**: styles, layout, labels, how a canvas is drawn, sounds of the interface.
* **Continuous geometry**: courses, depths, turning circles, hull outlines, the noise of caves. Where
  a decision is taken on geometry (is the weapon at its aim point, is the hull in stone) the
  outcome is a choice or the water is a line or a lattice.

These are most of the repository by lines: its comments, tables, screens and styles outweigh
its control by far, and the map covers some fifteen per cent of it. `PROJECT.json` has the list under
`components`; `hazards` is what is hard to test and what covers it.

**Noted while modelling**, with no run of their own. In the runtime: a silent load is a tick
longer in the water than `weapons/phase.ts:44` says; of two launches in one window only
the first is heard (`runtime.ts:1970`); a pulse on a solve's own tick counts for two windows of
`classifyDecoys`; a slot that could not be filled is tried again only at the next capture
(`runtime.ts:1790`); orders are taken after completion; `MatchStore.remove`
(`match/store.ts:299`) has no caller; results are recorded before anybody is told
(`handler.ts:372`). In the solver: a direct return has the full emitted power subtracted from
a background that counts only the deafening part of it. In accounts: expiry tests a
`last_used_at` that every touch refreshes (`auth/service.ts:196`, against its comment at
:23), and with an asynchronous engine a late touch may undo a newer one. In the fleet
editor: a saved draft takes the server's copy over edits made meanwhile, a lost answer to a
create makes a second fleet on retry, one to a delete leaves a draft whose saves are
refused; a visit with a blank name starts a new fleet over unsaved boats
(`FleetEditorScreen.tsx:55`); creates that overlap on an asynchronous engine may exceed the cap
(`routes/fleets.ts:124`). In the client: lines of a match that was left reach the menu, and a new match does
not clear the log although its ids start at 1 again (`state/match.ts:257`); a page put out and let in again
shows a scope without the squares it has drained until its setup comes; a connection
attempt that times out (`state/lobby.ts:295`) leaves its socket opening.

## 6. What is left

Of what the runs check, only liveness and `SoundIsExact` are not proved (section 4). Of the models:
the client's connection store (attempts, the ten-second timer, closes), and the seekers
of the weapons, which only steer.
