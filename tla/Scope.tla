-------------------------------- MODULE Scope --------------------------------
(***************************************************************************)
(* What a page draws of a running match, on two surfaces that poll one     *)
(* picture in their own time: the scope, whose canvas takes a while to     *)
(* come up (client/src/render/ScopeHost.tsx, sonar.ts), and the mini-map   *)
(* (client/src/ui/hud/MiniMap.tsx).  The picture (render/picture.ts) hands *)
(* each run of charted squares over once; each surface keeps its own       *)
(* record of the launches it has raised the alarm for (render/pings.ts).   *)
(*                                                                         *)
(* Fading squares, contacts, and how a ring grows are left out.            *)
(***************************************************************************)
EXTENDS Series, SequencesExt

CONSTANTS
  ChartCols, ChartRows,   \* the grid of the vision squares
  RUNS_PER_CHUNK,
  SEEN_LIMIT,             \* keys a tracker keeps before it trims them: MAX_ALERTS * 4
  Launch,                 \* the hostile launches, each known by its tick and place
  ALERT_FRAMES,           \* how many frames go on reporting one
  MaxShows,               \* bound: how often a scope is set up
  MaxPictures,            \* bound: the setups that come with the match in the store
  Outlooks                \* bounds, one of which holds in a behaviour: the squares there are to
                          \* chart and the launches there are to hear

ASSUME ScopeAssumption ==
  /\ {ChartCols, ChartRows, RUNS_PER_CHUNK, SEEN_LIMIT, ALERT_FRAMES, MaxShows, MaxPictures}
       \subseteq Nat \ {0}
  /\ IsFiniteSet(Launch)

ChartSquare == 0 .. ChartCols * ChartRows - 1

ASSUME OutlooksAssumption ==
  Outlooks \subseteq [squares : SUBSET ChartSquare, launches : SUBSET Launch]

VARIABLES
  outlook,       \* the bounds of this behaviour
  shownScreen,   \* the screen the page is on
  awaiting,      \* the match has been announced and its setup has not come yet
  picture,       \* which picture the page holds, 0 for none
  charted,       \* the squares in it, in the order they were confirmed
  pendingRuns,   \* its runs that no canvas has drained
  launched,      \* the launches its latest frame reported
  reports,       \* launch -> the frames that will still report it, for those heard
  shows,         \* how many times a scope has been set up
  boots,         \* the canvases that are coming up
  canvases,      \* the canvases that are up
  scopeHost,     \* what the scope on the screen holds
  miniMap        \* what the mini-map holds

pictureVars == <<picture, charted, pendingRuns, launched>>
surfaceVars == <<shows, boots, canvases, scopeHost, miniMap>>
scopeVars == <<outlook, shownScreen, awaiting, reports, pictureVars, surfaceVars>>

Silence == [l \in Launch |-> 0]

\* Which launches were raised, how often each, and the keys that are remembered.
Tracker == [seen : SUBSET Launch, raised : [Launch -> Nat]]
NewTracker == [seen |-> {}, raised |-> Silence]

\* No scope on the screen; one with the number of its canvas; the picture its layers are of.
NoScope == [app |-> 0, sonarFor |-> 0, chunks |-> <<>>, alerts |-> NewTracker]
NewScope(n) == [NoScope EXCEPT !.app = n]
NoMap == [mounted |-> FALSE, painted |-> 0, layer |-> <<>>, alerts |-> NewTracker]

InitScope ==
  /\ outlook \in Outlooks
  /\ shownScreen = "home" /\ awaiting = FALSE
  /\ picture = 0 /\ charted = <<>> /\ pendingRuns = <<>> /\ launched = {}
  /\ reports = <<>>
  /\ shows = 0 /\ boots = {} /\ canvases = {}
  /\ scopeHost = NoScope /\ miniMap = NoMap

---------------------------------------------------------------------------
(* The picture.                                                            *)

ChartRun == [col : 0 .. ChartCols - 1, row : 0 .. ChartRows - 1, length : Nat \ {0}]

Run(square) == [col |-> square % ChartCols, row |-> square \div ChartCols, length |-> 1]

\* Mutant: a run goes on without regard to the row.
JoinsAcross(run, next) == run.col + run.length = next.col /\ next.col > 0

Joins(run, next) == run.row = next.row /\ run.col + run.length = next.col /\ next.col > 0

chartRun(runs, square) ==
  LET next == Run(square)
  IN IF runs # <<>> /\ Joins(Last(runs), next)
     THEN [runs EXCEPT ![Len(runs)].length = @ + 1]
     ELSE Append(runs, next)

\* The runs of a picture with a frame's squares charted, one after another.
chartAll(runs, squares) ==
  Folded([p \in Seq(ChartRun) \X ChartSquare |-> chartRun(p[1], p[2])], runs, squares)

\* A frame's squares come in ascending order: each after those below it.
Ascending(squares) ==
  [i \in 1 .. Cardinality(squares) |->
     CHOOSE s \in squares : Cardinality({below \in squares : below < s}) = i - 1]

\* A launch is reported by so many frames from the one that heard it on, and never again.
Reporting(fresh) ==
  [l \in DOMAIN reports \cup fresh |->
     IF l \in fresh THEN ALERT_FRAMES - 1 ELSE IF reports[l] = 0 THEN 0 ELSE reports[l] - 1]
Reported(fresh) == fresh \cup {l \in DOMAIN reports : reports[l] > 0}

\* What a frame may hear that was not heard before: no more is reported at once than a tracker
\* keeps, for there are not as many tubes.
Heard == {fresh \in SUBSET (outlook.launches \ DOMAIN reports) : Cardinality(Reported(fresh)) <= SEEN_LIMIT}

---------------------------------------------------------------------------
(* The surfaces.                                                           *)

\* Mutant: the keys are trimmed to nothing.
TrimmedBare(seen, events) == IF Cardinality(seen) > SEEN_LIMIT THEN {} ELSE seen

\* Trimmed against the frame: what it reports may be reported again.
Trimmed(seen, events) == IF Cardinality(seen) > SEEN_LIMIT THEN seen \cap events ELSE seen

observeAlerts(tracker, events) ==
  [seen |-> Trimmed(tracker.seen \cup events, events),
   raised |-> [l \in Launch |->
                 tracker.raised[l] + IF l \in events \ tracker.seen THEN 1 ELSE 0]]

\* A chunk's rectangles show when it is filled; a fill takes in those queued so far.
Chunk == [rects : Seq(ChartRun), filled : Nat]

commit(chunks) ==
  IF chunks = <<>> THEN chunks
  ELSE [chunks EXCEPT ![Len(chunks)].filled = Len(Last(chunks).rects)]

\* Mutant: a chunk that is full is left without a fill.
sealUnfilled(chunks, run) ==
  IF chunks = <<>> \/ Len(Last(chunks).rects) >= RUNS_PER_CHUNK
  THEN Append(chunks, [rects |-> <<run>>, filled |-> 0])
  ELSE [chunks EXCEPT ![Len(chunks)].rects = Append(@, run)]

addRun(chunks, run) ==
  IF chunks = <<>> \/ Len(Last(chunks).rects) >= RUNS_PER_CHUNK
  THEN Append(commit(chunks), [rects |-> <<run>>, filled |-> 0])
  ELSE [chunks EXCEPT ![Len(chunks)].rects = Append(@, run)]

appendChart(chunks, runs) ==
  commit(Folded([p \in Seq(Chunk) \X ChartRun |-> addRun(p[1], p[2])], chunks, runs))

\* Layers of another picture are thrown away.
LayersFor(held) == IF held.sonarFor = picture THEN held.chunks ELSE <<>>

\* The mini-map's effect: paint what the chart has gained, and look for launches.
painting(held, squares, events) ==
  [held EXCEPT !.layer = @ \o SubSeq(squares, held.painted + 1, Len(squares)),
               !.painted = Len(squares),
               !.alerts = observeAlerts(@, events)]

\* Mutant: the layer of the last picture is painted over.
CountOnly(held) == [held EXCEPT !.painted = 0]

\* A new picture gets a new layer.
NewLayer(held) == [held EXCEPT !.layer = <<>>, !.painted = 0]

\* The scope's effect goes: its canvas with it, or, while that is coming up, once it is.
Torn(n) == canvases \ {n}

\* A scope is set up on the map on the screen, in place of the one before it if there is one.
setUp ==
  /\ shows < MaxShows /\ shows' = shows + 1
  /\ boots' = boots \cup {shows'}
  /\ canvases' = Torn(scopeHost.app)
  /\ scopeHost' = NewScope(shows')

takeDown ==
  /\ canvases' = Torn(scopeHost.app)
  /\ scopeHost' = NoScope /\ miniMap' = NoMap
  /\ UNCHANGED <<shows, boots>>

---------------------------------------------------------------------------
(* Messages.                                                               *)

\* match.started, or the rejoin button.  A page put out of the match has its setup and its last
\* frames yet, and shows them until the setup comes again.
startedMatch ==
  /\ shownScreen = "home" /\ ~awaiting
  /\ shownScreen' = "match" /\ awaiting' = TRUE
  /\ IF picture # 0 THEN setUp /\ miniMap' = painting([NoMap EXCEPT !.mounted = TRUE], charted, launched)
     ELSE UNCHANGED surfaceVars
  /\ UNCHANGED <<pictureVars, reports>>

\* match.state: a fresh picture, and a map that the scope's effect takes for another.
receivedSetup ==
  /\ awaiting /\ awaiting' = FALSE
  /\ picture < MaxPictures /\ picture' = picture + 1
  /\ charted' = <<>> /\ pendingRuns' = <<>> /\ launched' = {}
  /\ setUp
  /\ miniMap' = IF miniMap.mounted THEN painting(NewLayer(miniMap), <<>>, {}) ELSE miniMap
  /\ UNCHANGED <<shownScreen, reports>>

\* match.view, with squares the picture lacks and the launches that are still reported.
receivedFrame ==
  /\ picture # 0
  /\ \E squares \in SUBSET (outlook.squares \ ToSet(charted)), fresh \in Heard :
       /\ charted' = charted \o Ascending(squares)
       /\ pendingRuns' = chartAll(pendingRuns, Ascending(squares))
       /\ launched' = Reported(fresh) /\ reports' = Reporting(fresh)
  /\ miniMap' = IF shownScreen = "match"
                THEN painting([miniMap EXCEPT !.mounted = TRUE], charted', launched') ELSE miniMap
  /\ UNCHANGED <<shownScreen, awaiting, picture, shows, boots, canvases, scopeHost>>

\* A frame the page does not get: the launches go by.
missedFrame ==
  /\ picture = 0 /\ DOMAIN reports # outlook.launches
  /\ \E fresh \in Heard : fresh # {} /\ reports' = Reporting(fresh)
  /\ UNCHANGED <<shownScreen, awaiting, pictureVars, surfaceVars>>

\* lobby.exit to a player who was kicked: home, with the match still in the store.
putOut ==
  /\ shownScreen = "match" /\ ~awaiting
  /\ shownScreen' = "home" /\ takeDown
  /\ UNCHANGED <<awaiting, reports, pictureVars>>

\* Leaving, or the socket dying: the store is cleared.
clearMatch ==
  /\ shownScreen = "match"
  /\ shownScreen' = "home" /\ awaiting' = FALSE
  /\ picture' = 0 /\ charted' = <<>> /\ pendingRuns' = <<>> /\ launched' = {}
  /\ takeDown
  /\ UNCHANGED reports

---------------------------------------------------------------------------
(* The canvas.                                                             *)

\* Mutant: a canvas goes up for a scope that is not there any more.
bootedLate(n) == canvases' = canvases \cup {n}

\* The canvas has come up: one whose scope has gone meanwhile is destroyed at once.
booted(n) == canvases' = IF scopeHost.app = n THEN canvases \cup {n} ELSE canvases

boot ==
  /\ \E n \in boots : boots' = boots \ {n} /\ booted(n)
  /\ UNCHANGED <<shownScreen, awaiting, reports, pictureVars, shows, scopeHost, miniMap>>

\* A turn of the ticker: look for launches, then draw the runs that were not drained.
tickScope ==
  /\ scopeHost.app \in canvases /\ picture # 0
  /\ scopeHost' = [scopeHost EXCEPT !.alerts = observeAlerts(@, launched),
                                    !.chunks = appendChart(LayersFor(scopeHost), pendingRuns),
                                    !.sonarFor = picture]
  /\ pendingRuns' = <<>>
  /\ UNCHANGED <<shownScreen, awaiting, reports, picture, charted, launched,
                  shows, boots, canvases, miniMap>>

NextScope ==
  /\ UNCHANGED outlook
  /\ \/ startedMatch \/ receivedSetup \/ receivedFrame \/ missedFrame \/ putOut \/ clearMatch
     \/ boot \/ tickScope

SpecScope == InitScope /\ [][NextScope]_scopeVars

---------------------------------------------------------------------------
(* Properties.                                                             *)

ScopeTypeOK ==
  /\ shownScreen \in {"home", "match"} /\ awaiting \in BOOLEAN
  /\ picture \in 0 .. MaxPictures /\ ToSet(charted) \subseteq ChartSquare
  /\ launched \subseteq DOMAIN reports /\ DOMAIN reports \subseteq Launch
  /\ boots \subseteq 1 .. shows /\ canvases \subseteq 1 .. shows
  /\ scopeHost.alerts \in Tracker /\ miniMap.alerts \in Tracker

Covered(run) == {run.row * ChartCols + run.col + i : i \in 0 .. run.length - 1}
\* What a family of runs covers, and how many squares that are drawn.
CoveredBy(runs) == UNION {Covered(runs[i]) : i \in DOMAIN runs}
SquaresOf(runs) == SumOver([i \in DOMAIN runs |-> runs[i].length], DOMAIN runs)
\* The runs that chunks show, each by its chunk and its place there.
DrawnRuns(chunks) ==
  [p \in UNION {{i} \X (1 .. chunks[i].filled) : i \in DOMAIN chunks} |-> chunks[p[1]].rects[p[2]]]

\* What the scope has drawn and what it will be handed make up the chart, no square left out and
\* none drawn twice, though squares are handed over once and canvases come and go.  A page that
\* was put out of a match and is let in again has drawn less until the setup comes.
ScopeHasTheChart ==
  (scopeHost.app # 0 /\ ~awaiting) =>
     LET drawn == DrawnRuns(LayersFor(scopeHost))
     IN /\ CoveredBy(drawn) \cup CoveredBy(pendingRuns) = ToSet(charted)
        /\ SquaresOf(drawn) + SquaresOf(pendingRuns) = Len(charted)

\* The mini-map has painted the whole chart on its present layer.
MapHasTheChart == miniMap.mounted => miniMap.layer = charted

\* A surface raises the alarm once for a launch, however many frames report it, and the mini-map
\* for every launch that is reported.
AlarmsOnce ==
  /\ \A l \in Launch : scopeHost.alerts.raised[l] <= 1 /\ miniMap.alerts.raised[l] <= 1
  /\ miniMap.mounted => \A l \in launched : miniMap.alerts.raised[l] = 1

\* No canvas is up but that of the scope on the screen, whenever it was that it came up.
OneCanvas == canvases \subseteq {scopeHost.app} /\ (shownScreen = "home" => canvases = {})

\* The two surfaces and the picture agree.
SurfacesAgree == ScopeHasTheChart /\ MapHasTheChart /\ AlarmsOnce /\ OneCanvas
=============================================================================
