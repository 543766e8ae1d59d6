------------------------------- MODULE Vision -------------------------------
(***************************************************************************)
(* What each team knows of the enemy: its contact book and its alerts      *)
(* (shared/src/match/vision.ts), and what the runtime feeds them from the  *)
(* acoustic solve (pulse, solve, classifyDecoys, hearPings, sightingFor    *)
(* of server/src/match/runtime.ts).                                        *)
(*                                                                         *)
(* The solve itself is an arbitrary choice of what is heard of the things  *)
(* in the water, and whose pulses reach whom.  A contact that is not heard *)
(* any more stays as a last-known marker for good (contactHoldSeconds is   *)
(* infinite): only drop takes one away.                                    *)
(***************************************************************************)
EXTENDS Weapons

CONSTANTS
  TICKS_PER_SOLVE,
  TICKS_PER_PING,     \* ticks between the pulses of a boat whose sonar is on
  PING_ALERT_TICKS    \* how long an alert is repeated

ASSUME VisionAssumption ==
  /\ {TICKS_PER_SOLVE, TICKS_PER_PING} \subseteq Nat \ {0}
  /\ PING_ALERT_TICKS \in Nat
  /\ Boat \cap Nat = {}

VARIABLES
  activeSonar,    \* the boats whose sonar is on
  lastPing,       \* boat -> the tick of its last pulse, 0 for none
  exposed,        \* team -> the decoys its pulses have stripped
  contacts,       \* team -> its contact book: entity -> the contact
  alerts          \* team -> the pulses it is warned of

visionVars == <<activeSonar, lastPing, exposed, contacts, alerts>>

Contact == [kind : {"boat", "torpedo"}, named : BOOLEAN]
Alert == [tick : Nat, by : Boat, at : Nat]
NoContacts == [e \in {} |-> None]

Enemy(t, e) == IF e \in Boat THEN TeamOf[e] # t ELSE TeamOf[torpedoes[e].firedBy] # t
IsDecoy(i) == torpedoes[i].load \in Decoy

InitVision ==
  /\ activeSonar = {}
  /\ lastPing = [b \in Boat |-> 0]
  /\ exposed = [t \in Team |-> {}]
  /\ contacts = [t \in Team |-> NoContacts]
  /\ alerts = [t \in Team |-> {}]

\* The order to switch a boat's sonar; a redundant one changes nothing.
setActiveSonar(b, on) ==
  /\ b \notin destroyed
  /\ (b \in activeSonar) # on
  /\ activeSonar' = IF on THEN activeSonar \cup {b} ELSE activeSonar \ {b}
  /\ UNCHANGED <<lastPing, exposed, contacts, alerts>>

pingDue(b, now) ==
  /\ b \in activeSonar \ destroyed
  /\ lastPing[b] = 0 \/ now - lastPing[b] >= TICKS_PER_PING

pulse(now) == [b \in Boat |-> IF pingDue(b, now) THEN now ELSE lastPing[b]]

---------------------------------------------------------------------------
(* The end of a run or of a boat takes its marker off both books.          *)

endedWeapons(after) == {i \in Live(torpedoes) : i \notin Live(after)}
sunkBoats(wrecks) == wrecks \ destroyed

\* Mutant: the weapons that went off are taken for the ones that ended.
EndedWithABang ==
  {i \in endedWeapons(torpedoes') : i \in DOMAIN torpedoes' /\ torpedoes'[i].bang # None}
    \cup sunkBoats(destroyed')

\* What the tick has ended.
Ended == endedWeapons(torpedoes') \cup sunkBoats(destroyed')

drop(book, gone) == [e \in DOMAIN book \ gone |-> book[e]]

---------------------------------------------------------------------------
(* A solve, on the world the tick has settled (torpedoes', destroyed',     *)
(* lastPing').                                                             *)

\* The pulses since the last solve of the boats that could measure a decoy now.  The window is
\* closed at its far end, so that it holds the pulse of the last solve's own tick as well.
Measuring(t, now) ==
  {b \in activeSonar \ destroyed' :
     TeamOf[b] = t /\ lastPing'[b] > 0 /\ lastPing'[b] >= now - TICKS_PER_SOLVE}

\* The decoys a team's pulses may have stripped.
Strippable(t, now) ==
  IF Measuring(t, now) = {} THEN {}
  ELSE {i \in Live(torpedoes') : torpedoes'[i].load \in Decoy
                                  /\ TeamOf[torpedoes'[i].firedBy] # t}

\* Mutant: only what this solve's pulses measured is known.
strippedNow(t, caught) == caught

classifyDecoys(t, caught) == exposed[t] \cup caught

\* What a team takes an enemy for: a decoy passes for the boat it mimics until it is stripped.
sightingFor(t, e) ==
  IF e \in Boat \/ (torpedoes'[e].load \in Decoy /\ e \notin exposed'[t])
  THEN "boat" ELSE "torpedo"

\* What may be confirmed: a wreck or a spent weapon may still be seen, but never is.
Confirmable(t) ==
  {b \in Boat \ destroyed' : TeamOf[b] # t}
    \cup {i \in Live(torpedoes') : TeamOf[torpedoes'[i].firedBy] # t}

\* Mutant: a weapon is named by how loud it is, whatever it is taken for.
nameWhatIsLoud(t, book, e, loud) ==
  [kind |-> sightingFor(t, e), named |-> (e \in DOMAIN book /\ book[e].named) \/ loud]

\* A weapon is named once it was loud enough or a pulse measured it, and stays named.
confirm(t, book, e, loud) ==
  [kind  |-> sightingFor(t, e),
   named |-> \/ e \in DOMAIN book /\ book[e].named
             \/ sightingFor(t, e) = "torpedo"
                /\ (loud \/ torpedoes'[e].load \in Decoy)]

observe(t, book, heard, loud) ==
  [e \in DOMAIN book \cup heard |->
     IF e \in heard THEN confirm(t, book, e, e \in loud) ELSE book[e]]

\* Mutant: the window of the pulses is closed at its far end too.
PulsesOfThree(t, now) ==
  {b \in Boat : TeamOf[b] # t /\ lastPing'[b] > 0 /\ lastPing'[b] >= now - TICKS_PER_SOLVE}

\* The boats of the other side that pulsed since the last solve.
Pulses(t, now) ==
  {b \in Boat : TeamOf[b] # t /\ lastPing'[b] > 0
                /\ lastPing'[b] >= now - TICKS_PER_SOLVE + 1}

\* An alert is told from another by its tick and the place of the pinger, which is another one
\* on every solve; it is repeated for a while.
hearPings(t, now, lit) ==
  {a \in alerts[t] : now - a.at <= PING_ALERT_TICKS}
    \cup {[tick |-> lastPing'[b], by |-> b, at |-> now] : b \in Pulses(t, now) \cap lit}

\* One solve: the decoys first, so that a pulse and what it bought are in one frame.  Everything
\* in the water has one enemy, which hears it or does not.
solve(now, books, listening) ==
  \E heard \in SUBSET UNION {Confirmable(t) : t \in listening},
     caught \in SUBSET UNION {Strippable(t, now) : t \in Team},
     lit \in SUBSET UNION {Pulses(t, now) : t \in Team} :
    /\ exposed' = [t \in Team |-> classifyDecoys(t, caught \cap Strippable(t, now))]
    /\ \E loud \in SUBSET (heard \ Boat) :
         contacts' = [t \in Team |-> observe(t, books[t], heard \cap Confirmable(t), loud)]
    /\ alerts' = [t \in Team |-> hearPings(t, now, lit)]

\* The vision part of a tick; a solve that throws leaves the books as the drops made them.
VisionTick(now, listening, thrown) ==
  LET books == [t \in Team |-> drop(contacts[t], Ended)]
  IN /\ lastPing' = pulse(now)
     /\ UNCHANGED activeSonar
     /\ IF now % TICKS_PER_SOLVE = 0 /\ ~thrown
        THEN solve(now, books, listening)
        ELSE contacts' = books /\ UNCHANGED <<exposed, alerts>>

---------------------------------------------------------------------------
(* Properties.                                                             *)

VisionTypeOK ==
  /\ activeSonar \subseteq Boat /\ lastPing \in [Boat -> Nat]
  /\ exposed \in [Team -> SUBSET (1 .. nextEntityId - 1)]
  /\ \A t \in Team : /\ \A e \in DOMAIN contacts[t] : contacts[t][e] \in Contact
                     /\ \A a \in alerts[t] : a \in Alert

\* No marker outlives what it marks, and no team has its own side in its book: what is held is
\* an enemy boat afloat or an enemy weapon that still runs, for both teams and whatever way it
\* ended, a warhead ringing and a scuttled decoy included.
ContactsAreLive ==
  \A t \in Team : \A e \in DOMAIN contacts[t] :
    /\ e \in Active \cup Live(torpedoes)
    /\ Enemy(t, e)

\* A disguise holds until a pulse has measured it, and is never put on again: a decoy that is
\* shown as a weapon is one the team has stripped, and only such a one is named.
DisguiseHolds ==
  \A t \in Team : \A i \in DOMAIN contacts[t] \ Boat :
    IsDecoy(i) => /\ contacts[t][i].kind = "torpedo" => i \in exposed[t]
                  /\ contacts[t][i].named <=> contacts[t][i].kind = "torpedo"

\* One pulse is one alert, however many solves its tick is near to.
OnePulseOneAlert ==
  \A t \in Team : \A a, b \in alerts[t] : a.by = b.by /\ a.tick = b.tick => a = b

\* What a team is shown of the other is so: its markers are of things that are there, a decoy's
\* disguise comes off once and for good, and what it is warned of happened once.
ScopeIsHonest == ContactsAreLive /\ DisguiseHolds /\ OnePulseOneAlert
=============================================================================
