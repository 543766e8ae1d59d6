---------------------------- MODULE LobbyProofs ----------------------------
(* Proofs about Lobby, for any accounts, lobbies, fleets and bounds.       *)
EXTENDS Lobby, FiniteSetTheorems, TLAPS

\* Typing needs the registry to agree: a command works on the lobby that the
\* sender's membership names, which has to stand and to seat the sender.
Registered == TypeOK /\ RegistryAgrees

USE DEF InLobby, LobbyOf, MemberOf, registry

---------------------------------------------------------------------------
(* Facts about one state.                                                  *)

\* A member of a lobby is seated in a lobby that stands.
LEMMA SeatedMember ==
  ASSUME Registered, NEW a \in Account, InLobby(a)
  PROVE  /\ membership[a] \in LobbyId
         /\ LobbyOf(a) \in LobbyRecord
         /\ MemberOf(a) \in Member
BY NoneAssumption DEF Registered, TypeOK, RegistryAgrees, LobbyRecord

\* The seat a newcomer is offered is a position, or there is none.
LEMMA OpenPosition ==
  ASSUME NEW lobby
  PROVE  firstOpenPosition(lobby) \in Position \cup {None}
BY DEF firstOpenPosition, Position

\* A newcomer with a seat is a member.
LEMMA NewcomerTyped ==
  ASSUME TypeOK, NEW p \in Position
  PROVE  Newcomer(p) \in Member
BY DEF Newcomer, Member, TypeOK

\* A fleet read for an account is a selection, or nothing.
LEMMA ReadTyped ==
  ASSUME TypeOK, NEW a \in Account, NEW f \in Fleet
  PROVE  fleets(a, f) \in SelectedFleet \cup {None}
BY DEF fleets, TypeOK, FleetRow, SelectedFleet

---------------------------------------------------------------------------
(* Facts about steps that change the registry.                             *)

\* A lobby whose seats, host and code stay as they are may be rewritten freely.
LEMMA RewrittenLobby ==
  ASSUME Registered, NEW l \in LobbyId, lobbies[l] # None, NEW new \in LobbyRecord,
         new.host = lobbies[l].host, new.code = lobbies[l].code,
         \A a \in Account : new.members[a] = None <=> lobbies[l].members[a] = None,
         lobbies' = [lobbies EXCEPT ![l] = new],
         UNCHANGED <<byCode, membership>>
  PROVE  /\ lobbies' \in [LobbyId -> LobbyRecord \cup {None}]
         /\ RegistryAgrees'
<1>1. lobbies \in [LobbyId -> LobbyRecord \cup {None}]
  BY DEF Registered, TypeOK
<1>2. lobbies' \in [LobbyId -> LobbyRecord \cup {None}]
  BY <1>1
<1>3. new # None /\ lobbies[l] \in LobbyRecord /\ new.host \in Account
  BY <1>1, NoneAssumption DEF LobbyRecord
<1>4. \A k \in LobbyId :
        /\ lobbies'[k] # None <=> lobbies[k] # None
        /\ lobbies[k] # None =>
             /\ lobbies'[k].host = lobbies[k].host /\ lobbies[k].host \in Account
             /\ lobbies'[k].code = lobbies[k].code
             /\ \A a \in Account : lobbies'[k].members[a] = None <=> lobbies[k].members[a] = None
  BY <1>1, <1>3 DEF LobbyRecord
<1>5. byCode \in [JoinCode -> LobbyId \cup {None}]
  BY DEF Registered, TypeOK
<1>6. RegistryAgrees'
  BY <1>4, <1>5 DEF Registered, RegistryAgrees
<1> QED BY <1>2, <1>6

\* A change to one member's row keeps the registry.
LEMMA UpdateMemberKeeps ==
  ASSUME Registered, NEW a \in Account, InLobby(a), NEW m \in Member, UpdateMember(a, m)
  PROVE  /\ lobbies' \in [LobbyId -> LobbyRecord \cup {None}]
         /\ RegistryAgrees'
<1> DEFINE new == [LobbyOf(a) EXCEPT !.members = [@ EXCEPT ![a] = m]]
<1>1. /\ membership[a] \in LobbyId /\ LobbyOf(a) \in LobbyRecord /\ LobbyOf(a) # None
      /\ MemberOf(a) \in Member
  BY SeatedMember, NoneAssumption
<1>2. new \in LobbyRecord
  BY <1>1 DEF LobbyRecord
<1>3. /\ new.host = LobbyOf(a).host /\ new.code = LobbyOf(a).code
      /\ \A b \in Account : new.members[b] = None <=> LobbyOf(a).members[b] = None
  BY <1>1, NoneAssumption DEF LobbyRecord
<1>4. lobbies' = [lobbies EXCEPT ![membership[a]] = new] /\ UNCHANGED <<byCode, membership>>
  BY DEF UpdateMember
<1> HIDE DEF new
<1> QED BY <1>1, <1>2, <1>3, <1>4, RewrittenLobby

\* A host's change of the settings keeps the registry.
LEMMA ModifyKeeps ==
  ASSUME Registered, NEW a \in Account, NEW settings \in Settings, modify(a, settings)
  PROVE  /\ lobbies' \in [LobbyId -> LobbyRecord \cup {None}]
         /\ RegistryAgrees'
<1> DEFINE members == Rebudgeted(LobbyOf(a).members, settings.fleetPoints)
           new == [LobbyOf(a) EXCEPT !.settings = settings, !.members = members]
<1>1. /\ membership[a] \in LobbyId /\ LobbyOf(a) \in LobbyRecord /\ LobbyOf(a) # None
  BY SeatedMember, NoneAssumption DEF modify
<1>2. LobbyOf(a).members \in [Account -> Member \cup {None}]
  BY <1>1 DEF LobbyRecord
<1>3. /\ members \in [Account -> Member \cup {None}]
      /\ \A b \in Account : members[b] = None <=> LobbyOf(a).members[b] = None
  BY <1>2, NoneAssumption DEF Rebudgeted, Member
<1>4. new \in LobbyRecord /\ new.host = LobbyOf(a).host /\ new.code = LobbyOf(a).code
      /\ new.members = members
  BY <1>1, <1>3 DEF LobbyRecord
<1>5. lobbies' = [lobbies EXCEPT ![membership[a]] = new] /\ UNCHANGED <<byCode, membership>>
  BY DEF modify
<1> HIDE DEF new, members
<1> QED BY <1>1, <1>3, <1>4, <1>5, RewrittenLobby

\* A join seats an account that sat nowhere.
LEMMA JoinKeeps ==
  ASSUME Registered, NEW a \in Account, NEW l \in LobbyId, join(a, l)
  PROVE  /\ lobbies' \in [LobbyId -> LobbyRecord \cup {None}]
         /\ membership' \in [Account -> LobbyId \cup {None}]
         /\ RegistryAgrees'
<1> DEFINE m == Newcomer(firstOpenPosition(lobbies[l]))
           new == [lobbies[l] EXCEPT !.members[a] = m]
<1>1. m \in Member
  BY OpenPosition, NewcomerTyped DEF join, Registered
<1>2. /\ lobbies \in [LobbyId -> LobbyRecord \cup {None}]
      /\ membership \in [Account -> LobbyId \cup {None}]
      /\ byCode \in [JoinCode -> LobbyId \cup {None}]
      /\ lobbies[l] # None /\ lobbies[l] \in LobbyRecord /\ membership[a] = None
  BY DEF Registered, TypeOK, join
<1>3. /\ new \in LobbyRecord /\ new # None /\ m # None
      /\ new.host = lobbies[l].host /\ new.host \in Account /\ new.code = lobbies[l].code
      /\ new.members = [lobbies[l].members EXCEPT ![a] = m]
      /\ lobbies[l].members \in [Account -> Member \cup {None}]
  BY <1>1, <1>2, NoneAssumption DEF LobbyRecord
<1>4. /\ lobbies' = [lobbies EXCEPT ![l] = new]
      /\ membership' = [membership EXCEPT ![a] = l]
      /\ byCode' = byCode
  BY DEF join, Seat
<1> HIDE DEF m, new
<1>5. /\ lobbies' \in [LobbyId -> LobbyRecord \cup {None}]
      /\ membership' \in [Account -> LobbyId \cup {None}]
  BY <1>2, <1>3, <1>4
<1>6. \A k \in LobbyId :
        /\ lobbies'[k] # None <=> lobbies[k] # None
        /\ lobbies[k] # None =>
             /\ lobbies'[k].host = lobbies[k].host /\ lobbies[k].host \in Account
             /\ lobbies'[k].code = lobbies[k].code
             /\ \A b \in Account : lobbies'[k].members[b] = None <=>
                  lobbies[k].members[b] = None /\ ~(k = l /\ b = a)
  BY <1>2, <1>3, <1>4 DEF LobbyRecord
<1>7. RegistryAgrees'
  BY <1>2, <1>4, <1>6, NoneAssumption DEF Registered, RegistryAgrees
<1> QED BY <1>5, <1>7

\* A new lobby takes an id, a code and an account that were all free.
LEMMA CreateKeeps ==
  ASSUME Registered, NEW a \in Account, create(a)
  PROVE  /\ lobbies' \in [LobbyId -> LobbyRecord \cup {None}]
         /\ byCode' \in [JoinCode -> LobbyId \cup {None}]
         /\ membership' \in [Account -> LobbyId \cup {None}]
         /\ RegistryAgrees'
<1>1. PICK l \in LobbyId, code \in JoinCode :
        /\ lobbies[l] = None
        /\ byCode[code] = None
        /\ lobbies' = [lobbies EXCEPT ![l] =
             [host |-> a, code |-> code,
              settings |-> [maxPlayers |-> DefaultCap, fleetPoints |-> DefaultBudget,
                            visibility |-> "public"],
              members |-> [b \in Account |-> IF b = a THEN Newcomer("team1") ELSE None]]]
        /\ byCode' = [byCode EXCEPT ![code] = l]
        /\ membership' = [membership EXCEPT ![a] = l]
  BY DEF create
<1> DEFINE members == [b \in Account |-> IF b = a THEN Newcomer("team1") ELSE None]
           new == [host |-> a, code |-> code,
                   settings |-> [maxPlayers |-> DefaultCap, fleetPoints |-> DefaultBudget,
                                 visibility |-> "public"],
                   members |-> members]
<1>2. Newcomer("team1") \in Member /\ Newcomer("team1") # None
  BY NewcomerTyped, NoneAssumption DEF Registered, Position
<1>3. members \in [Account -> Member \cup {None}]
      /\ \A b \in Account : members[b] = None <=> b # a
  BY <1>2
<1>4. /\ new \in LobbyRecord /\ new # None
      /\ new.host = a /\ new.code = code /\ new.members = members
  BY <1>3, NoneAssumption, LobbyAssumption DEF LobbyRecord, Settings
<1>5. /\ lobbies \in [LobbyId -> LobbyRecord \cup {None}]
      /\ membership \in [Account -> LobbyId \cup {None}]
      /\ byCode \in [JoinCode -> LobbyId \cup {None}]
      /\ membership[a] = None
  BY DEF Registered, TypeOK, create
<1>6. lobbies' = [lobbies EXCEPT ![l] = new]
  BY <1>1
<1> HIDE DEF new, members
<1>7. /\ lobbies' \in [LobbyId -> LobbyRecord \cup {None}]
      /\ membership' \in [Account -> LobbyId \cup {None}]
      /\ byCode' \in [JoinCode -> LobbyId \cup {None}]
  BY <1>1, <1>4, <1>5, <1>6
<1>8. \A b \in Account, k \in LobbyId :
        membership'[b] = k <=> lobbies'[k] # None /\ lobbies'[k].members[b] # None
  BY <1>1, <1>3, <1>4, <1>5, <1>6, NoneAssumption DEF Registered, RegistryAgrees
<1>9. \A k \in LobbyId : lobbies'[k] # None =>
        byCode'[lobbies'[k].code] = k /\ lobbies'[k].members[lobbies'[k].host] # None
  BY <1>1, <1>3, <1>4, <1>5, <1>6, NoneAssumption DEF Registered, RegistryAgrees, LobbyRecord
<1>10. \A c \in JoinCode : byCode'[c] # None =>
         lobbies'[byCode'[c]] # None /\ lobbies'[byCode'[c]].code = c
  BY <1>1, <1>3, <1>4, <1>5, <1>6, NoneAssumption DEF Registered, RegistryAgrees, LobbyRecord
<1> QED BY <1>7, <1>8, <1>9, <1>10 DEF RegistryAgrees

\* Whoever inherits a lobby sits in it.
LEMMA HeirsSitInTheLobby ==
  ASSUME NEW members, NEW heir \in Heirs(members)
  PROVE  heir \in Account /\ members[heir] # None
BY DEF Heirs, Players, Occupants

\* A departure empties one seat: the last one takes the lobby and its code
\* along, any other leaves a host who still sits in the lobby.
LEMMA RemoveKeeps ==
  ASSUME Registered, NEW a \in Account, NEW l \in LobbyId, membership[a] = l, remove(l, a)
  PROVE  /\ lobbies' \in [LobbyId -> LobbyRecord \cup {None}]
         /\ byCode' \in [JoinCode -> LobbyId \cup {None}]
         /\ membership' \in [Account -> LobbyId \cup {None}]
         /\ RegistryAgrees'
<1> DEFINE rest == [lobbies[l].members EXCEPT ![a] = None]
<1>1. /\ lobbies \in [LobbyId -> LobbyRecord \cup {None}]
      /\ membership \in [Account -> LobbyId \cup {None}]
      /\ byCode \in [JoinCode -> LobbyId \cup {None}]
      /\ lobbies[l] \in LobbyRecord /\ lobbies[l] # None
  BY SeatedMember, NoneAssumption DEF Registered, TypeOK
<1>2. /\ lobbies[l].members \in [Account -> Member \cup {None}]
      /\ lobbies[l].host \in Account /\ lobbies[l].code \in JoinCode
      /\ rest \in [Account -> Member \cup {None}]
      /\ \A b \in Account : rest[b] = None <=> b = a \/ lobbies[l].members[b] = None
  BY <1>1 DEF LobbyRecord
<1>3. membership' = [membership EXCEPT ![a] = None]
  BY DEF remove
<1>4. membership' \in [Account -> LobbyId \cup {None}]
  BY <1>1, <1>3
<1>5. CASE /\ Occupants(rest) = {}
           /\ lobbies' = [lobbies EXCEPT ![l] = None]
           /\ byCode' = [byCode EXCEPT ![lobbies[l].code] = None]
  <2>1. \A b \in Account : b = a \/ lobbies[l].members[b] = None
    BY <1>2, <1>5 DEF Occupants
  <2> HIDE DEF rest
  <2>2. /\ lobbies' \in [LobbyId -> LobbyRecord \cup {None}]
        /\ byCode' \in [JoinCode -> LobbyId \cup {None}]
    BY <1>1, <1>2, <1>5
  <2>3. \A k \in LobbyId : lobbies'[k] = IF k = l THEN None ELSE lobbies[k]
    BY <1>1, <1>5
  <2>4. \A b \in Account : membership'[b] = IF b = a THEN None ELSE membership[b]
    BY <1>1, <1>3
  <2>5. \A c \in JoinCode : byCode'[c] = IF c = lobbies[l].code THEN None ELSE byCode[c]
    BY <1>1, <1>5
  <2>6. \A b \in Account, k \in LobbyId :
          membership'[b] = k <=> lobbies'[k] # None /\ lobbies'[k].members[b] # None
    BY <1>1, <2>1, <2>3, <2>4, NoneAssumption DEF Registered, RegistryAgrees
  <2>7. \A k \in LobbyId : lobbies'[k] # None =>
          byCode'[lobbies'[k].code] = k /\ lobbies'[k].members[lobbies'[k].host] # None
    BY <1>1, <2>3, <2>5 DEF Registered, RegistryAgrees, LobbyRecord
  <2>8. \A c \in JoinCode : byCode'[c] # None =>
          lobbies'[byCode'[c]] # None /\ lobbies'[byCode'[c]].code = c
    BY <1>1, <2>3, <2>5 DEF Registered, RegistryAgrees
  <2> QED BY <1>4, <2>2, <2>6, <2>7, <2>8 DEF RegistryAgrees
<1>6. CASE /\ Occupants(rest) # {}
           /\ \E heir \in Account :
                /\ IF lobbies[l].host = a THEN heir \in Heirs(rest) ELSE heir = lobbies[l].host
                /\ lobbies' = [lobbies EXCEPT ![l].members = rest, ![l].host = heir]
           /\ UNCHANGED byCode
  <2>1. PICK heir \in Account :
          /\ IF lobbies[l].host = a THEN heir \in Heirs(rest) ELSE heir = lobbies[l].host
          /\ lobbies' = [lobbies EXCEPT ![l].members = rest, ![l].host = heir]
    BY <1>6
  <2>0. byCode' = byCode
    BY <1>6
  <2> DEFINE new == [lobbies[l] EXCEPT !.members = rest, !.host = heir]
  <2>2. rest[heir] # None
    <3>1. CASE lobbies[l].host = a
      BY <2>1, <3>1, HeirsSitInTheLobby
    <3>2. CASE lobbies[l].host # a
      BY <1>1, <1>2, <2>1, <3>2 DEF Registered, RegistryAgrees
    <3> QED BY <3>1, <3>2
  <2> HIDE DEF rest
  <2>3. /\ new \in LobbyRecord /\ new # None
        /\ new.host = heir /\ new.code = lobbies[l].code /\ new.members = rest
    BY <1>1, <1>2, NoneAssumption DEF LobbyRecord
  <2>4. lobbies' = [lobbies EXCEPT ![l] = new]
    BY <2>1
  <2> HIDE DEF new
  <2>5. lobbies' \in [LobbyId -> LobbyRecord \cup {None}]
        /\ \A k \in LobbyId : lobbies'[k] = IF k = l THEN new ELSE lobbies[k]
    BY <1>1, <2>3, <2>4
  <2>6. \A b \in Account : membership'[b] = IF b = a THEN None ELSE membership[b]
    BY <1>1, <1>3
  <2>7. \A b \in Account, k \in LobbyId :
          membership'[b] = k <=> lobbies'[k] # None /\ lobbies'[k].members[b] # None
    BY <1>1, <1>2, <2>3, <2>5, <2>6, NoneAssumption DEF Registered, RegistryAgrees
  <2>8. \A k \in LobbyId : lobbies'[k] # None =>
          byCode'[lobbies'[k].code] = k /\ lobbies'[k].members[lobbies'[k].host] # None
    BY <1>1, <2>0, <2>2, <2>3, <2>5 DEF Registered, RegistryAgrees
  <2>9. \A c \in JoinCode : byCode'[c] # None =>
          lobbies'[byCode'[c]] # None /\ lobbies'[byCode'[c]].code = c
    BY <1>1, <2>0, <2>3, <2>5 DEF Registered, RegistryAgrees
  <2> QED BY <1>1, <1>4, <2>0, <2>5, <2>7, <2>8, <2>9 DEF RegistryAgrees
<1> QED BY <1>5, <1>6 DEF remove

---------------------------------------------------------------------------
(* The registry agrees with itself in every state.                         *)

LEMMA RegisteredInit == Init => Registered
BY LobbyAssumption, NoneAssumption DEF Init, Registered, TypeOK, RegistryAgrees

\* What a member may become is a member.
LEMMA MemberChangesTyped ==
  ASSUME Registered, NEW a \in Account, InLobby(a)
  PROVE  /\ \A p \in Position : Moved(a, p) \in Member
         /\ \A ready \in BOOLEAN : [MemberOf(a) EXCEPT !.ready = ready] \in Member
         /\ \A fleet \in SelectedFleet \cup {None} : Selection(a, fleet) \in Member
BY SeatedMember DEF Moved, Selection, Member

\* The roster names fleets of accounts.
LEMMA RosterTyped ==
  ASSUME NEW members \in [Account -> Member \cup {None}]
  PROVE  Roster(members) \in [Account -> Fleet \cup {None}]
<1>1. \A a \in Players(members) : members[a] \in Member
  BY DEF Players, Occupants
<1>2. \A a \in Players(members) : members[a].fleet # None => members[a].fleet.id \in Fleet
  BY <1>1 DEF Member, SelectedFleet
<1> QED BY <1>2 DEF Roster

\* A command of a player keeps the registry.
LEMMA CommandKeepsRegistered ==
  ASSUME Registered, NEW a \in Account, Command(a)
  PROVE  Registered'
<1> USE DEF Registered
<1>1. ASSUME create(a) PROVE Registered'
  <2>1. /\ lastCreatedAt' \in [Account -> Nat \cup {None}]
        /\ UNCHANGED <<rows, lookups, start, clock>>
    BY <1>1 DEF create, TypeOK
  <2> QED BY <1>1, <2>1, CreateKeeps DEF TypeOK
<1>2. ASSUME NEW l \in LobbyId, join(a, l) PROVE Registered'
  <2>1. UNCHANGED <<byCode, lastCreatedAt, rows, lookups, start, clock>>
    BY <1>2 DEF join, Seat
  <2> QED BY <1>2, <2>1, JoinKeeps DEF TypeOK
<1>3. ASSUME NEW c \in JoinCode, joinByCode(a, c) PROVE Registered'
  <2>1. byCode[c] \in LobbyId
    BY <1>3 DEF joinByCode, TypeOK
  <2> QED BY <1>2, <1>3, <2>1 DEF joinByCode
<1>4. ASSUME NEW l \in LobbyId, joinById(a, l) PROVE Registered'
  BY <1>2, <1>4 DEF joinById
<1>5. ASSUME NEW m \in Member, InLobby(a), UpdateMember(a, m), UNCHANGED <<lookups, start>>
      PROVE Registered'
  <2>1. UNCHANGED <<byCode, membership, lastCreatedAt, rows, lookups, start, clock>>
    BY <1>5 DEF UpdateMember
  <2> QED BY <1>5, <2>1, UpdateMemberKeeps DEF TypeOK
<1>6. ASSUME NEW p \in Position, setPosition(a, p) PROVE Registered'
  BY <1>5, <1>6, MemberChangesTyped DEF setPosition
<1>7. ASSUME NEW ready \in BOOLEAN, setReady(a, ready) PROVE Registered'
  BY <1>5, <1>7, MemberChangesTyped DEF setReady
<1>8. ASSUME selectNone(a) PROVE Registered'
  BY <1>5, <1>8, MemberChangesTyped DEF selectNone
<1>9. ASSUME NEW f \in Fleet, requestFleet(a, f) PROVE Registered'
  <2>1. [op |-> "select", account |-> a, fleet |-> f, row |-> fleets(a, f)] \in Lookup
    BY ReadTyped DEF Lookup
  <2>2. lookups' \subseteq Lookup /\ UNCHANGED <<registry, lastCreatedAt, rows, start, clock>>
    BY <1>9, <2>1 DEF requestFleet, TypeOK
  <2> QED BY <2>2 DEF TypeOK, RegistryAgrees
<1>10. ASSUME NEW b \in Account, InLobby(b), remove(membership[b], b) PROVE Registered'
  <2>1. membership[b] \in LobbyId /\ UNCHANGED <<lastCreatedAt, rows, lookups, start, clock>>
    BY <1>10, SeatedMember DEF remove
  <2> QED BY <1>10, <2>1, RemoveKeeps DEF TypeOK
<1>11. ASSUME leave(a) PROVE Registered'
  BY <1>10, <1>11 DEF leave
<1>12. ASSUME NEW target \in Account, kick(a, target) PROVE Registered'
  <2>1. membership[target] = membership[a] /\ InLobby(target)
    BY <1>12, SeatedMember, NoneAssumption DEF kick, RegistryAgrees
  <2> QED BY <1>10, <1>12, <2>1 DEF kick
<1>13. ASSUME NEW settings \in Settings, modify(a, settings) PROVE Registered'
  <2>1. UNCHANGED <<byCode, membership, lastCreatedAt, rows, lookups, start, clock>>
    BY <1>13 DEF modify
  <2> QED BY <1>13, <2>1, ModifyKeeps DEF TypeOK
<1>14. ASSUME startMatch(a) PROVE Registered'
  <2>1. LobbyOf(a) \in LobbyRecord
    BY <1>14, SeatedMember DEF startMatch
  <2>2. /\ LobbyOf(a).settings.fleetPoints \in Budgets
        /\ Roster(LobbyOf(a).members) \in [Account -> Fleet \cup {None}]
    BY <2>1, RosterTyped DEF LobbyRecord, Settings
  <2>3. start' \in StartOrder /\ UNCHANGED <<registry, lastCreatedAt, rows, lookups, clock>>
    BY <1>14, <2>2 DEF startMatch, StartOrder
  <2> QED BY <2>3 DEF TypeOK, RegistryAgrees
<1> QED BY <1>1, <1>3, <1>4, <1>6, <1>7, <1>8, <1>9, <1>11, <1>12, <1>13, <1>14 DEF Command

\* An answer to a read, a write of a fleet, and the passing of time keep it too.
LEMMA AnswerKeepsRegistered ==
  ASSUME Registered, NEW k \in lookups, selectFleet(k) \/ resyncFleet(k)
  PROVE  Registered'
<1> DEFINE a == k.account
<1>1. k \in Lookup /\ a \in Account /\ k.row \in SelectedFleet \cup {None} /\ lookups' \subseteq Lookup
  BY DEF Registered, TypeOK, Lookup, selectFleet, resyncFleet
<1>2. UNCHANGED start
  BY DEF selectFleet, resyncFleet
<1>3. CASE UNCHANGED <<registry, lastCreatedAt, rows, clock>>
  BY <1>1, <1>2, <1>3 DEF Registered, TypeOK, RegistryAgrees
<1>4. ASSUME InLobby(a), NEW fleet \in SelectedFleet \cup {None}, UpdateMember(a, Selection(a, fleet))
      PROVE Registered'
  <2>1. Selection(a, fleet) \in Member
    BY <1>1, <1>4, MemberChangesTyped
  <2>2. lobbies' \in [LobbyId -> LobbyRecord \cup {None}] /\ RegistryAgrees'
    BY <1>1, <1>4, <2>1, UpdateMemberKeeps
  <2>3. UNCHANGED <<byCode, membership, lastCreatedAt, rows, clock>>
    BY <1>4 DEF UpdateMember
  <2> QED BY <1>1, <1>2, <2>2, <2>3 DEF Registered, TypeOK
<1>5. Resynced(a, k.row) \in SelectedFleet \cup {None}
  BY <1>1 DEF Resynced
<1> QED BY <1>1, <1>3, <1>4, <1>5 DEF selectFleet, resyncFleet

LEMMA WriteKeepsRegistered ==
  ASSUME Registered, NEW f \in Fleet, NEW row \in FleetRow \cup {None}, writeFleet(f, row)
  PROVE  Registered'
<1> DEFINE found == IF row = None THEN None
                    ELSE [id |-> f, name |-> row.name, points |-> row.points]
           k == [op |-> "resync", account |-> OwnerOf[f], fleet |-> f, row |-> found]
<1>1. k \in Lookup
  BY LobbyAssumption DEF Lookup, FleetRow, SelectedFleet
<1>2. rows' \in [Fleet -> FleetRow \cup {None}]
  BY DEF Registered, TypeOK, writeFleet
<1>3. lookups' \subseteq Lookup
  BY <1>1 DEF Registered, TypeOK, writeFleet
<1>4. UNCHANGED <<registry, lastCreatedAt, start, clock>>
  BY DEF writeFleet
<1> QED BY <1>2, <1>3, <1>4 DEF Registered, TypeOK, RegistryAgrees

LEMMA RegisteredStep == Registered /\ [Next]_vars => Registered'
<1> SUFFICES ASSUME Registered, [Next]_vars PROVE Registered'
  OBVIOUS
<1>1. CASE loadFleets
  BY <1>1 DEF loadFleets, Registered, TypeOK, RegistryAgrees
<1>2. CASE Tick
  BY <1>2 DEF Tick, Registered, TypeOK, RegistryAgrees
<1>3. CASE UNCHANGED vars
  BY <1>3 DEF vars, Registered, TypeOK, RegistryAgrees
<1> QED BY <1>1, <1>2, <1>3, CommandKeepsRegistered, AnswerKeepsRegistered,
           WriteKeepsRegistered DEF Next

\* The registry agrees, and is well typed, in every state of every behaviour.
THEOREM RegisteredAlways == Spec => []Registered
BY RegisteredInit, RegisteredStep, PTL DEF Spec

\* Every variable keeps its type, for any accounts, lobbies and bounds.
THEOREM TypeCorrect == Spec => []TypeOK
<1>1. Registered => TypeOK
  BY DEF Registered
<1> QED BY <1>1, RegisteredAlways, PTL

\* Membership, lobbies and join codes never disagree, and a standing lobby is
\* never without its host, through any sequence of service calls.
THEOREM RegistryAlwaysAgrees == Spec => []RegistryAgrees
<1>1. Registered => RegistryAgrees
  BY DEF Registered
<1> QED BY <1>1, RegisteredAlways, PTL

---------------------------------------------------------------------------
(* What the roster says can be relied on.                                  *)

\* One member's row is honest under a budget.
Honest(m, budget) ==
  /\ m.fleet # None => m.fleet.points <= budget
  /\ m.ready => m.fleet # None /\ m.position # "spectator"

LEMMA HonestMembers ==
  ReadyIsHonest <=>
    \A l \in LobbyId, a \in Account :
      lobbies[l] # None /\ lobbies[l].members[a] # None =>
        Honest(lobbies[l].members[a], lobbies[l].settings.fleetPoints)
BY DEF ReadyIsHonest, Honest

\* A change to one member's row keeps the roster honest when the new row is.
LEMMA UpdateKeepsHonest ==
  ASSUME Registered, ReadyIsHonest, NEW a \in Account, InLobby(a), NEW m \in Member,
         Honest(m, LobbyOf(a).settings.fleetPoints), UpdateMember(a, m)
  PROVE  ReadyIsHonest'
<1>1. /\ lobbies \in [LobbyId -> LobbyRecord \cup {None}]
      /\ membership[a] \in LobbyId /\ LobbyOf(a) \in LobbyRecord /\ m # None
  BY SeatedMember, NoneAssumption DEF Registered, TypeOK
<1>2. \A l \in LobbyId, b \in Account : lobbies[l] # None /\ ~(l = membership[a] /\ b = a) =>
        /\ lobbies'[l].members[b] = lobbies[l].members[b]
        /\ lobbies'[l].settings = lobbies[l].settings
  BY <1>1 DEF UpdateMember, LobbyRecord
<1>3. /\ lobbies'[membership[a]].members[a] = m
      /\ lobbies'[membership[a]].settings = LobbyOf(a).settings
  BY <1>1 DEF UpdateMember, LobbyRecord
<1>4. \A l \in LobbyId : lobbies'[l] # None => lobbies[l] # None
  BY <1>1, NoneAssumption DEF UpdateMember
<1>5. SUFFICES ASSUME NEW l \in LobbyId, NEW b \in Account,
                      lobbies'[l] # None, lobbies'[l].members[b] # None
               PROVE  Honest(lobbies'[l].members[b], lobbies'[l].settings.fleetPoints)
  BY DEF ReadyIsHonest, Honest
<1> QED BY <1>2, <1>3, <1>4, <1>5, HonestMembers

\* A lobby that appears, or a member that joins, brings nobody ready.
LEMMA CreateKeepsHonest ==
  ASSUME Registered, ReadyIsHonest, NEW a \in Account, create(a)
  PROVE  ReadyIsHonest'
<1>1. PICK l \in LobbyId, code \in JoinCode :
        lobbies' = [lobbies EXCEPT ![l] =
             [host |-> a, code |-> code,
              settings |-> [maxPlayers |-> DefaultCap, fleetPoints |-> DefaultBudget,
                            visibility |-> "public"],
              members |-> [b \in Account |-> IF b = a THEN Newcomer("team1") ELSE None]]]
  BY DEF create
<1>2. \A b \in Account : lobbies'[l].members[b] # None =>
        lobbies'[l].members[b].fleet = None /\ lobbies'[l].members[b].ready = FALSE
  BY <1>1 DEF Newcomer, Registered, TypeOK
<1>3. \A k \in LobbyId : k # l => lobbies'[k] = lobbies[k]
  BY <1>1 DEF Registered, TypeOK
<1> QED BY <1>2, <1>3 DEF ReadyIsHonest

LEMMA JoinKeepsHonest ==
  ASSUME Registered, ReadyIsHonest, NEW a \in Account, NEW l \in LobbyId, join(a, l)
  PROVE  ReadyIsHonest'
<1>1. lobbies \in [LobbyId -> LobbyRecord \cup {None}] /\ lobbies[l] \in LobbyRecord
  BY DEF Registered, TypeOK, join
<1>2. lobbies' = [lobbies EXCEPT ![l].members[a] = Newcomer(firstOpenPosition(lobbies[l]))]
  BY DEF join, Seat
<1>3. /\ lobbies'[l].members[a].fleet = None /\ lobbies'[l].members[a].ready = FALSE
      /\ lobbies'[l].settings = lobbies[l].settings
      /\ \A b \in Account : b # a => lobbies'[l].members[b] = lobbies[l].members[b]
  BY <1>1, <1>2 DEF Newcomer, LobbyRecord
<1>4. \A k \in LobbyId : k # l => lobbies'[k] = lobbies[k]
  BY <1>1, <1>2
<1> QED BY <1>1, <1>3, <1>4, NoneAssumption DEF ReadyIsHonest

\* A departure changes nobody else's row.
LEMMA RemoveKeepsRows ==
  ASSUME Registered, NEW a \in Account, NEW l \in LobbyId, membership[a] = l, remove(l, a)
  PROVE  \A k \in LobbyId, b \in Account :
           lobbies'[k] # None /\ lobbies'[k].members[b] # None =>
             /\ lobbies[k] # None
             /\ lobbies'[k].settings = lobbies[k].settings
             /\ lobbies'[k].members[b] = lobbies[k].members[b]
<1> DEFINE rest == [lobbies[l].members EXCEPT ![a] = None]
<1>1. /\ lobbies \in [LobbyId -> LobbyRecord \cup {None}]
      /\ lobbies[l] \in LobbyRecord /\ lobbies[l] # None
  BY SeatedMember, NoneAssumption DEF Registered, TypeOK
<1>2. \A b \in Account : rest[b] # None => rest[b] = lobbies[l].members[b]
  BY <1>1 DEF LobbyRecord
<1>3. CASE lobbies' = [lobbies EXCEPT ![l] = None]
  BY <1>1, <1>3
<1>4. ASSUME NEW heir \in Account, lobbies' = [lobbies EXCEPT ![l].members = rest, ![l].host = heir]
      PROVE  \A k \in LobbyId :
               /\ k # l => lobbies'[k] = lobbies[k]
               /\ lobbies'[l].settings = lobbies[l].settings /\ lobbies'[l].members = rest
  BY <1>1, <1>4 DEF LobbyRecord
<1> HIDE DEF rest
<1>5. CASE \E heir \in Account : lobbies' = [lobbies EXCEPT ![l].members = rest, ![l].host = heir]
  <2>1. /\ \A k \in LobbyId : k # l => lobbies'[k] = lobbies[k]
        /\ lobbies'[l].settings = lobbies[l].settings /\ lobbies'[l].members = rest
    BY <1>4, <1>5
  <2> QED BY <1>1, <1>2, <2>1
<1> QED BY <1>3, <1>5 DEF remove, rest

\* A budget change leaves every row either as it was, or without fleet and readiness.
LEMMA RebudgetedRows ==
  ASSUME NEW members \in [Account -> Member \cup {None}], NEW budget, NEW a \in Account,
         members[a] # None
  PROVE  LET m == Rebudgeted(members, budget)[a] IN
           \/ m = members[a] /\ (m.fleet # None => ~(m.fleet.points > budget))
           \/ m.fleet = None /\ m.ready = FALSE
<1>1. members[a] \in Member
  OBVIOUS
<1> QED BY <1>1 DEF Rebudgeted, Member

LEMMA ModifyKeepsHonest ==
  ASSUME Registered, ReadyIsHonest, NEW a \in Account, NEW settings \in Settings,
         modify(a, settings)
  PROVE  ReadyIsHonest'
<1> DEFINE l == membership[a]
           members == Rebudgeted(lobbies[l].members, settings.fleetPoints)
<1>1. /\ lobbies \in [LobbyId -> LobbyRecord \cup {None}]
      /\ l \in LobbyId /\ lobbies[l] \in LobbyRecord /\ lobbies[l] # None
  BY SeatedMember, NoneAssumption DEF modify, Registered, TypeOK
<1>2. /\ lobbies[l].members \in [Account -> Member \cup {None}]
      /\ settings.fleetPoints \in Nat
  BY <1>1, LobbyAssumption DEF LobbyRecord, Settings
<1>3. /\ lobbies'[l].settings = settings /\ lobbies'[l].members = members
      /\ \A k \in LobbyId : k # l => lobbies'[k] = lobbies[k]
  BY <1>1 DEF modify, LobbyRecord
<1>4. \A b \in Account : members[b] # None => lobbies[l].members[b] # None
  BY <1>2, NoneAssumption DEF Rebudgeted
<1>5. ASSUME NEW b \in Account, members[b] # None
      PROVE  Honest(members[b], settings.fleetPoints)
  <2>1. /\ lobbies[l].members[b] # None
        /\ \/ /\ members[b] = lobbies[l].members[b]
              /\ members[b].fleet # None => ~(members[b].fleet.points > settings.fleetPoints)
           \/ members[b].fleet = None /\ members[b].ready = FALSE
    BY <1>2, <1>4, <1>5, RebudgetedRows
  <2> HIDE DEF members, l
  <2>2. members[b].fleet # None /\ members[b] = lobbies[l].members[b] =>
          members[b].fleet.points \in Nat
    <3>1. lobbies[l].members[b] \in Member
      BY <1>2, <2>1
    <3> QED BY <3>1, LobbyAssumption DEF Member, SelectedFleet
  <2>3. members[b] = lobbies[l].members[b] =>
          (members[b].ready => members[b].fleet # None /\ members[b].position # "spectator")
    BY <1>1, <2>1 DEF ReadyIsHonest
  <2> QED BY <1>2, <2>1, <2>2, <2>3 DEF Honest
<1> HIDE DEF l, members
<1>6. SUFFICES ASSUME NEW k \in LobbyId, NEW b \in Account,
                      lobbies'[k] # None, lobbies'[k].members[b] # None
               PROVE  Honest(lobbies'[k].members[b], lobbies'[k].settings.fleetPoints)
  BY DEF ReadyIsHonest, Honest
<1> QED BY <1>3, <1>5, <1>6, HonestMembers

\* A departure takes rows away and leaves the rest honest.
LEMMA RemoveKeepsHonest ==
  ASSUME Registered, ReadyIsHonest, NEW a \in Account, InLobby(a), remove(membership[a], a)
  PROVE  ReadyIsHonest'
<1>1. membership[a] \in LobbyId
  BY SeatedMember
<1> QED BY <1>1, RemoveKeepsRows DEF ReadyIsHonest

LEMMA HonestStep == Registered /\ ReadyIsHonest /\ [Next]_vars => ReadyIsHonest'
<1> SUFFICES ASSUME Registered, ReadyIsHonest, [Next]_vars PROVE ReadyIsHonest'
  OBVIOUS
<1>0. CASE UNCHANGED lobbies
  BY <1>0 DEF ReadyIsHonest
<1>1. ASSUME NEW a \in Account, Command(a) PROVE ReadyIsHonest'
  <2>1. CASE create(a)
    BY <2>1, CreateKeepsHonest
  <2>2. ASSUME NEW l \in LobbyId, join(a, l) PROVE ReadyIsHonest'
    BY <2>2, JoinKeepsHonest
  <2>3. ASSUME NEW c \in JoinCode, joinByCode(a, c) PROVE ReadyIsHonest'
    <3>1. byCode[c] \in LobbyId
      BY <2>3 DEF joinByCode, Registered, TypeOK
    <3> QED BY <2>2, <2>3, <3>1 DEF joinByCode
  <2>4. ASSUME NEW l \in LobbyId, joinById(a, l) PROVE ReadyIsHonest'
    BY <2>2, <2>4 DEF joinById
  <2>5. InLobby(a) => /\ MemberOf(a) \in Member
                      /\ Honest(MemberOf(a), LobbyOf(a).settings.fleetPoints)
    <3>1. SUFFICES ASSUME InLobby(a)
                   PROVE  /\ MemberOf(a) \in Member
                          /\ Honest(MemberOf(a), LobbyOf(a).settings.fleetPoints)
      OBVIOUS
    <3>2. /\ MemberOf(a) \in Member /\ MemberOf(a) # None
          /\ membership[a] \in LobbyId /\ LobbyOf(a) # None
      BY <3>1, SeatedMember, NoneAssumption
    <3> QED BY <3>2, HonestMembers
  <2>6. ASSUME NEW p \in Position, setPosition(a, p) PROVE ReadyIsHonest'
    <3>1. InLobby(a) /\ Moved(a, p) \in Member /\ UpdateMember(a, Moved(a, p))
      BY <2>6, MemberChangesTyped DEF setPosition
    <3>2. Honest(Moved(a, p), LobbyOf(a).settings.fleetPoints)
      BY <2>5, <3>1 DEF Honest, Moved, Member
    <3> QED BY <3>1, <3>2, UpdateKeepsHonest
  <2>7. ASSUME NEW ready \in BOOLEAN, setReady(a, ready) PROVE ReadyIsHonest'
    <3> DEFINE m == [MemberOf(a) EXCEPT !.ready = ready]
    <3>1. InLobby(a) /\ m \in Member /\ UpdateMember(a, m)
      BY <2>7, MemberChangesTyped DEF setReady
    <3>2. Honest(m, LobbyOf(a).settings.fleetPoints)
      BY <2>5, <2>7, <3>1 DEF Honest, Member, setReady
    <3> HIDE DEF m
    <3> QED BY <3>1, <3>2, UpdateKeepsHonest
  <2>8. CASE selectNone(a)
    <3>1. InLobby(a) /\ Selection(a, None) \in Member /\ UpdateMember(a, Selection(a, None))
      BY <2>8, MemberChangesTyped DEF selectNone
    <3>2. Honest(Selection(a, None), LobbyOf(a).settings.fleetPoints)
      BY <2>5, <3>1 DEF Honest, Selection, Member
    <3> QED BY <3>1, <3>2, UpdateKeepsHonest
  <2>9. CASE \E f \in Fleet : requestFleet(a, f)
    BY <1>0, <2>9 DEF requestFleet
  <2>10. CASE leave(a)
    BY <2>10, RemoveKeepsHonest DEF leave
  <2>11. ASSUME NEW target \in Account, kick(a, target) PROVE ReadyIsHonest'
    <3>1. membership[target] = membership[a] /\ InLobby(target) /\ remove(membership[target], target)
      BY <2>11, SeatedMember, NoneAssumption DEF kick, Registered, RegistryAgrees
    <3> QED BY <3>1, RemoveKeepsHonest
  <2>12. ASSUME NEW settings \in Settings, modify(a, settings) PROVE ReadyIsHonest'
    BY <2>12, ModifyKeepsHonest
  <2>13. CASE startMatch(a)
    BY <1>0, <2>13 DEF startMatch
  <2> QED BY <1>1, <2>1, <2>3, <2>4, <2>6, <2>7, <2>8, <2>9, <2>10, <2>11, <2>12, <2>13 DEF Command
<1>2. ASSUME NEW k \in lookups, selectFleet(k) \/ resyncFleet(k) PROVE ReadyIsHonest'
  <2> DEFINE a == k.account
  <2>1. a \in Account /\ k.row \in SelectedFleet \cup {None}
    BY DEF Registered, TypeOK, Lookup
  <2>2. ASSUME InLobby(a), NEW fleet \in SelectedFleet \cup {None},
               fleet # None => fleet.points <= LobbyOf(a).settings.fleetPoints,
               UpdateMember(a, Selection(a, fleet))
        PROVE  ReadyIsHonest'
    <3>1. Selection(a, fleet) \in Member
      BY <2>1, <2>2, MemberChangesTyped
    <3>2. Selection(a, fleet).fleet = fleet /\ Selection(a, fleet).ready = FALSE
      BY <2>1, <2>2, SeatedMember DEF Selection, Member
    <3>3. Honest(Selection(a, fleet), LobbyOf(a).settings.fleetPoints)
      BY <2>2, <3>2 DEF Honest
    <3> QED BY <2>1, <2>2, <3>1, <3>3, UpdateKeepsHonest
  <2>3. CASE selectFleet(k)
    BY <1>0, <2>1, <2>2, <2>3 DEF selectFleet, Affordable
  <2>4. CASE resyncFleet(k)
    <3>1. /\ Resynced(a, k.row) \in SelectedFleet \cup {None}
          /\ Resynced(a, k.row) # None =>
               Resynced(a, k.row).points <= LobbyOf(a).settings.fleetPoints
      BY <2>1 DEF Resynced, Affordable
    <3> QED BY <1>0, <2>2, <2>4, <3>1 DEF resyncFleet
  <2> QED BY <1>2, <2>3, <2>4
<1>3. CASE \E f \in Fleet, row \in FleetRow \cup {None} : writeFleet(f, row)
  BY <1>0, <1>3 DEF writeFleet
<1>4. CASE loadFleets \/ Tick \/ UNCHANGED vars
  BY <1>0, <1>4 DEF loadFleets, Tick, vars
<1> QED BY <1>1, <1>2, <1>3, <1>4 DEF Next

\* A member shown as ready always has a fleet, within the budget of the moment,
\* and a seat on a team -- under either engine, and whether or not re-reads fail.
THEOREM ReadyAlwaysHonest == Spec => []ReadyIsHonest
<1>1. Init => ReadyIsHonest
  BY DEF Init, ReadyIsHonest
<1> QED BY <1>1, HonestStep, RegisteredAlways, PTL DEF Spec

---------------------------------------------------------------------------
(* The ways a step changes the lobbies.                                    *)

\* The new row of a member: a move needs an open seat, readiness that survives
\* the change is readiness for the fleet the member already had, and a fleet that
\* is new to the member is one a read found.
RowChange(a, m) ==
  /\ m \in Member
  /\ m.position # MemberOf(a).position => capacityFor(LobbyOf(a), m.position, a)
  /\ m.joinedAt = MemberOf(a).joinedAt
  /\ MemberOf(a).ready /\ m.ready => m.fleet = MemberOf(a).fleet
  /\ \/ m.fleet \in {MemberOf(a).fleet, None}
     \/ \E k \in lookups : k.account = a /\ m.fleet = k.row
  /\ UpdateMember(a, m)

StepOfTheLobbies ==
  \/ UNCHANGED <<lobbies, membership>>
  \/ \E a \in Account : create(a)
  \/ \E a \in Account, l \in LobbyId : join(a, l)
  \/ \E a \in Account, m \in Member : InLobby(a) /\ RowChange(a, m)
  \/ \E a \in Account : InLobby(a) /\ remove(membership[a], a)
  \/ \E a \in Account, settings \in Settings : modify(a, settings)

\* Every step is one of these: a kick removes a member of the host's own lobby,
\* and all that a move, a ready, a selection or a re-read does is rewrite one row.
LEMMA StepsOfTheLobbies == Registered /\ [Next]_vars => StepOfTheLobbies
<1> SUFFICES ASSUME Registered, [Next]_vars PROVE StepOfTheLobbies
  OBVIOUS
<1>1. ASSUME NEW a \in Account, Command(a) PROVE StepOfTheLobbies
  <2>1. CASE create(a)
    BY <2>1 DEF StepOfTheLobbies
  <2>2. CASE \E c \in JoinCode : joinByCode(a, c)
    <3>1. PICK c \in JoinCode : byCode[c] # None /\ join(a, byCode[c])
      BY <2>2 DEF joinByCode
    <3>2. byCode[c] \in LobbyId
      BY <3>1 DEF Registered, TypeOK
    <3> QED BY <3>1, <3>2 DEF StepOfTheLobbies
  <2>3. CASE \E l \in LobbyId : joinById(a, l)
    BY <2>3 DEF joinById, StepOfTheLobbies
  <2>4. ASSUME NEW p \in Position, setPosition(a, p) PROVE StepOfTheLobbies
    <3>1. InLobby(a) /\ Moved(a, p) \in Member /\ MemberOf(a) \in Member
      BY <2>4, MemberChangesTyped, SeatedMember DEF setPosition
    <3>2. /\ Moved(a, p).position = p /\ Moved(a, p).joinedAt = MemberOf(a).joinedAt
          /\ Moved(a, p).fleet = MemberOf(a).fleet
      BY <3>1 DEF Moved, Member
    <3>3. RowChange(a, Moved(a, p))
      BY <2>4, <3>1, <3>2 DEF setPosition, RowChange
    <3> QED BY <3>1, <3>3 DEF StepOfTheLobbies
  <2>5. ASSUME NEW ready \in BOOLEAN, setReady(a, ready) PROVE StepOfTheLobbies
    <3> DEFINE m == [MemberOf(a) EXCEPT !.ready = ready]
    <3>1. InLobby(a) /\ m \in Member /\ MemberOf(a) \in Member
      BY <2>5, MemberChangesTyped, SeatedMember DEF setReady
    <3>2. /\ m.position = MemberOf(a).position /\ m.joinedAt = MemberOf(a).joinedAt
          /\ m.fleet = MemberOf(a).fleet /\ UpdateMember(a, m)
      BY <2>5, <3>1 DEF Member, setReady
    <3> HIDE DEF m
    <3>3. RowChange(a, m)
      BY <3>1, <3>2 DEF RowChange
    <3> QED BY <3>1, <3>3 DEF StepOfTheLobbies
  <2>6. CASE selectNone(a)
    <3>1. InLobby(a) /\ Selection(a, None) \in Member /\ MemberOf(a) \in Member
      BY <2>6, MemberChangesTyped, SeatedMember DEF selectNone
    <3>2. RowChange(a, Selection(a, None))
      BY <2>6, <3>1 DEF Member, selectNone, Selection, RowChange
    <3> QED BY <3>1, <3>2 DEF StepOfTheLobbies
  <2>7. CASE \E f \in Fleet : requestFleet(a, f)
    BY <2>7 DEF requestFleet, StepOfTheLobbies
  <2>8. CASE leave(a)
    BY <2>8 DEF leave, StepOfTheLobbies
  <2>9. ASSUME NEW target \in Account, kick(a, target) PROVE StepOfTheLobbies
    <3>1. membership[target] = membership[a] /\ InLobby(target) /\ remove(membership[target], target)
      BY <2>9, SeatedMember, NoneAssumption DEF kick, Registered, RegistryAgrees
    <3> QED BY <3>1 DEF StepOfTheLobbies
  <2>10. CASE \E settings \in Settings : modify(a, settings)
    BY <2>10 DEF StepOfTheLobbies
  <2>11. CASE startMatch(a)
    BY <2>11 DEF startMatch, StepOfTheLobbies
  <2> QED BY <1>1, <2>1, <2>2, <2>3, <2>4, <2>5, <2>6, <2>7, <2>8, <2>9, <2>10, <2>11 DEF Command
<1>2. ASSUME NEW k \in lookups, selectFleet(k) \/ resyncFleet(k) PROVE StepOfTheLobbies
  <2> DEFINE a == k.account
  <2>1. a \in Account /\ k.row \in SelectedFleet \cup {None}
    BY DEF Registered, TypeOK, Lookup
  <2>2. ASSUME InLobby(a), NEW fleet \in {k.row, None}, UpdateMember(a, Selection(a, fleet))
        PROVE  StepOfTheLobbies
    <3>1. Selection(a, fleet) \in Member /\ MemberOf(a) \in Member
      BY <2>1, <2>2, MemberChangesTyped, SeatedMember
    <3>2. /\ Selection(a, fleet).position = MemberOf(a).position
          /\ Selection(a, fleet).joinedAt = MemberOf(a).joinedAt
          /\ Selection(a, fleet).ready = FALSE /\ Selection(a, fleet).fleet = fleet
      BY <3>1 DEF Member, Selection
    <3>3. RowChange(a, Selection(a, fleet))
      BY <2>2, <3>1, <3>2 DEF RowChange
    <3> QED BY <2>1, <2>2, <3>1, <3>3 DEF StepOfTheLobbies
  <2>3. CASE selectFleet(k)
    BY <2>1, <2>2, <2>3 DEF selectFleet, StepOfTheLobbies
  <2>4. CASE resyncFleet(k)
    <3>1. Resynced(a, k.row) \in {k.row, None}
      BY DEF Resynced
    <3> QED BY <2>2, <2>4, <3>1 DEF resyncFleet, StepOfTheLobbies
  <2> QED BY <1>2, <2>3, <2>4
<1>3. CASE \E f \in Fleet, row \in FleetRow \cup {None} : writeFleet(f, row)
  BY <1>3 DEF writeFleet, StepOfTheLobbies
<1>4. CASE loadFleets \/ Tick \/ UNCHANGED vars
  BY <1>4 DEF loadFleets, Tick, vars, StepOfTheLobbies
<1> QED BY <1>1, <1>2, <1>3, <1>4 DEF Next

\* A rewritten row is the only thing that changes.
LEMMA RowChanged ==
  ASSUME Registered, NEW a \in Account, InLobby(a), NEW m \in Member, UpdateMember(a, m)
  PROVE  /\ membership[a] \in LobbyId /\ LobbyOf(a) # None /\ LobbyOf(a) \in LobbyRecord
         /\ lobbies' = [lobbies EXCEPT ![membership[a]] =
              [LobbyOf(a) EXCEPT !.members = [@ EXCEPT ![a] = m]]]
         /\ \A l \in LobbyId : l # membership[a] => lobbies'[l] = lobbies[l]
         /\ lobbies'[membership[a]].host = LobbyOf(a).host
         /\ lobbies'[membership[a]].settings = LobbyOf(a).settings
         /\ lobbies'[membership[a]].members = [LobbyOf(a).members EXCEPT ![a] = m]
<1>1. /\ lobbies \in [LobbyId -> LobbyRecord \cup {None}]
      /\ membership[a] \in LobbyId /\ LobbyOf(a) \in LobbyRecord
  BY SeatedMember DEF Registered, TypeOK
<1> QED BY <1>1, NoneAssumption DEF UpdateMember, LobbyRecord

\* So is a departure's: one seat, and the host where the host departed.
LEMMA Removed ==
  ASSUME Registered, NEW a \in Account, InLobby(a), remove(membership[a], a)
  PROVE  LET l == membership[a]
             rest == [lobbies[l].members EXCEPT ![a] = None]
         IN /\ l \in LobbyId /\ lobbies[l] # None /\ lobbies[l] \in LobbyRecord
            /\ \A k \in LobbyId : k # l => lobbies'[k] = lobbies[k]
            /\ rest \in [Account -> Member \cup {None}]
            /\ \/ Occupants(rest) = {} /\ lobbies'[l] = None
               \/ /\ Occupants(rest) # {}
                  /\ lobbies'[l] # None /\ lobbies'[l].members = rest
                  /\ lobbies'[l].settings = lobbies[l].settings
                  /\ IF lobbies[l].host = a THEN lobbies'[l].host \in Heirs(rest)
                                            ELSE lobbies'[l].host = lobbies[l].host
<1> DEFINE l == membership[a]
           rest == [lobbies[l].members EXCEPT ![a] = None]
<1>1. /\ lobbies \in [LobbyId -> LobbyRecord \cup {None}]
      /\ l \in LobbyId /\ lobbies[l] \in LobbyRecord /\ lobbies[l] # None
  BY SeatedMember, NoneAssumption DEF Registered, TypeOK
<1>2. rest \in [Account -> Member \cup {None}]
  BY <1>1 DEF LobbyRecord
<1>3. CASE Occupants(rest) = {} /\ lobbies' = [lobbies EXCEPT ![l] = None]
  BY <1>1, <1>2, <1>3
<1>4. ASSUME Occupants(rest) # {}, NEW heir \in Account,
             IF lobbies[l].host = a THEN heir \in Heirs(rest) ELSE heir = lobbies[l].host,
             lobbies' = [lobbies EXCEPT ![l].members = rest, ![l].host = heir]
      PROVE  /\ \A k \in LobbyId : k # l => lobbies'[k] = lobbies[k]
             /\ lobbies'[l] # None /\ lobbies'[l].members = rest
             /\ lobbies'[l].settings = lobbies[l].settings
             /\ lobbies'[l].host = heir
  <2> DEFINE new == [lobbies[l] EXCEPT !.members = rest, !.host = heir]
  <2> HIDE DEF rest
  <2>1. /\ new \in LobbyRecord /\ new # None /\ new.members = rest /\ new.host = heir
        /\ new.settings = lobbies[l].settings
    BY <1>1, <1>2, NoneAssumption DEF LobbyRecord
  <2>2. lobbies' = [lobbies EXCEPT ![l] = new]
    BY <1>4
  <2> HIDE DEF new
  <2> QED BY <1>1, <2>1, <2>2
<1> QED BY <1>1, <1>2, <1>3, <1>4 DEF remove

---------------------------------------------------------------------------
(* Nobody is seated beyond the capacity of a team, the stands or the lobby. *)

\* Every position of a lobby's members is within its capacity.  That the players
\* fit the whole lobby follows: the cap is even, and each team has half of it.
Fits(members, maxPlayers) ==
  /\ \A t \in Team : positionCount(members, t) <= teamCapacity(maxPlayers)
  /\ positionCount(members, "spectator") <= SpectatorCap

EveryoneFits ==
  \A l \in LobbyId : lobbies[l] # None => Fits(lobbies[l].members, lobbies[l].settings.maxPlayers)

LEMMA CountsAreNumbers ==
  ASSUME NEW members, NEW p
  PROVE  IsFiniteSet(At(members, p)) /\ positionCount(members, p) \in Nat
<1>1. At(members, p) \subseteq Account
  BY DEF At, Occupants
<1> QED BY <1>1, AccountsFinite, FS_Subset, FS_CardinalityType DEF positionCount

\* Fewer at a position, and at most one more where there was a seat to take.
LEMMA FewerFit ==
  ASSUME NEW old, NEW new, NEW p, At(new, p) \subseteq At(old, p)
  PROVE  positionCount(new, p) <= positionCount(old, p)
BY CountsAreNumbers, FS_Subset DEF positionCount

LEMMA OneMoreFits ==
  ASSUME NEW others, IsFiniteSet(others), NEW a, NEW cap \in Nat, Cardinality(others) < cap,
         NEW members, NEW p, At(members, p) \subseteq others \cup {a}
  PROVE  positionCount(members, p) <= cap
<1>1. /\ IsFiniteSet(others \cup {a}) /\ Cardinality(others \cup {a}) \in Nat
      /\ Cardinality(others) \in Nat /\ Cardinality(others \cup {a}) <= Cardinality(others) + 1
  BY FS_AddElement, FS_CardinalityType
<1>2. Cardinality(At(members, p)) <= Cardinality(others \cup {a}) /\ Cardinality(At(members, p)) \in Nat
  BY <1>1, FS_Subset, FS_CardinalityType
<1> QED BY <1>1, <1>2 DEF positionCount

\* A cap is a positive even number, and a team has half of it.
LEMMA CapsAreEven ==
  ASSUME NEW cap \in PlayerCaps
  PROVE  cap \in Nat /\ teamCapacity(cap) \in Nat /\ teamCapacity(cap) > 0
         /\ 2 * teamCapacity(cap) = cap
<1>1. cap \in Nat /\ cap > 0 /\ cap % 2 = 0
  BY LobbyAssumption
<1> QED BY <1>1 DEF teamCapacity

\* Players are those on the two teams.
LEMMA PlayersFit ==
  ASSUME NEW members \in [Account -> Member \cup {None}], NEW cap \in PlayerCaps,
         Fits(members, cap)
  PROVE  playerCount(members) <= cap
<1>1. Players(members) = At(members, "team1") \cup At(members, "team2")
  <2>1. \A a \in Occupants(members) : members[a].position \in {"team1", "team2", "spectator"}
    BY DEF Occupants, Member, Position
  <2> QED BY <2>1 DEF Players, At
<1>2. /\ Cardinality(Players(members)) <= positionCount(members, "team1") + positionCount(members, "team2")
      /\ Cardinality(Players(members)) \in Nat
  <2>1. /\ IsFiniteSet(At(members, "team1")) /\ IsFiniteSet(At(members, "team2"))
        /\ Cardinality(At(members, "team1")) \in Nat /\ Cardinality(At(members, "team2")) \in Nat
    BY CountsAreNumbers DEF positionCount
  <2>2. /\ Cardinality(Players(members)) =
             Cardinality(At(members, "team1")) + Cardinality(At(members, "team2"))
             - Cardinality(At(members, "team1") \cap At(members, "team2"))
        /\ IsFiniteSet(At(members, "team1") \cap At(members, "team2"))
        /\ IsFiniteSet(Players(members))
    BY <1>1, <2>1, FS_Union, FS_Intersection
  <2>3. /\ Cardinality(At(members, "team1") \cap At(members, "team2")) \in Nat
        /\ Cardinality(Players(members)) \in Nat
    BY <2>2, FS_CardinalityType
  <2> QED BY <2>1, <2>2, <2>3 DEF positionCount
<1>3. /\ positionCount(members, "team1") <= teamCapacity(cap)
      /\ positionCount(members, "team2") <= teamCapacity(cap)
      /\ positionCount(members, "team1") \in Nat /\ positionCount(members, "team2") \in Nat
  BY CountsAreNumbers DEF Fits, Team, Position
<1> QED BY <1>2, <1>3, CapsAreEven DEF playerCount

\* A newcomer's seat is one the position still had.
LEMMA OpenPositionIsOpen ==
  ASSUME NEW lobby, lobby.settings.maxPlayers \in PlayerCaps, firstOpenPosition(lobby) # None
  PROVE  LET p == firstOpenPosition(lobby)
         IN /\ p \in Position
            /\ positionCount(lobby.members, p) <
                 IF p = "spectator" THEN SpectatorCap ELSE teamCapacity(lobby.settings.maxPlayers)
<1>1. /\ positionCount(lobby.members, "team1") \in Nat
      /\ positionCount(lobby.members, "team2") \in Nat
      /\ teamCapacity(lobby.settings.maxPlayers) \in Nat
  BY CountsAreNumbers, CapsAreEven
<1> QED BY <1>1 DEF firstOpenPosition, Position

\* Seating one more where there is room, and changing nobody else's position.
LEMMA SeatedOneMore ==
  ASSUME NEW old \in [Account -> Member \cup {None}], NEW cap \in PlayerCaps, Fits(old, cap),
         NEW a \in Account, NEW m \in Member,
         \/ a \in At(old, m.position)
         \/ Cardinality(At(old, m.position) \ {a}) <
              IF m.position = "spectator" THEN SpectatorCap ELSE teamCapacity(cap)
  PROVE  Fits([old EXCEPT ![a] = m], cap)
<1> DEFINE new == [old EXCEPT ![a] = m]
<1>1. \A p : /\ p # m.position => At(new, p) \subseteq At(old, p)
             /\ At(new, p) \subseteq (At(old, p) \ {a}) \cup {a}
             /\ a \in At(old, p) => At(new, p) \subseteq At(old, p)
  BY NoneAssumption DEF At, Occupants
<1> HIDE DEF new
<1>2. teamCapacity(cap) \in Nat /\ SpectatorCap \in Nat
  BY CapsAreEven, LobbyAssumption
<1>3. \A p : /\ IsFiniteSet(At(old, p) \ {a}) 
             /\ positionCount(old, p) \in Nat /\ positionCount(new, p) \in Nat
  BY CountsAreNumbers, FS_RemoveElement
<1>4. ASSUME NEW p, NEW room \in Nat, positionCount(old, p) <= room,
             p = m.position => Cardinality(At(old, p) \ {a}) < room \/ a \in At(old, p)
      PROVE  positionCount(new, p) <= room
  <2>1. CASE At(new, p) \subseteq At(old, p)
    BY <1>3, <1>4, <2>1, FewerFit
  <2>2. CASE Cardinality(At(old, p) \ {a}) < room
    BY <1>1, <1>3, <2>2, OneMoreFits
  <2> QED BY <1>1, <1>4, <2>1, <2>2
<1>5. \A t \in Team : positionCount(new, t) <= teamCapacity(cap)
  BY <1>2, <1>4 DEF Fits, Team
<1>6. positionCount(new, "spectator") <= SpectatorCap
  BY <1>2, <1>4 DEF Fits
<1> QED BY <1>5, <1>6 DEF Fits, new

LEMMA EveryoneFitsStep == Registered /\ EveryoneFits /\ [Next]_vars => EveryoneFits'
<1> SUFFICES ASSUME Registered, EveryoneFits, StepOfTheLobbies,
                    NEW l \in LobbyId, lobbies'[l] # None
             PROVE  Fits(lobbies'[l].members, lobbies'[l].settings.maxPlayers)
  BY StepsOfTheLobbies DEF EveryoneFits, Fits, positionCount, At, Occupants
<1>0. lobbies \in [LobbyId -> LobbyRecord \cup {None}]
  BY DEF Registered, TypeOK
<1>1. lobbies[l] # None => /\ lobbies[l].members \in [Account -> Member \cup {None}]
                           /\ lobbies[l].settings.maxPlayers \in PlayerCaps
                           /\ Fits(lobbies[l].members, lobbies[l].settings.maxPlayers)
  BY <1>0 DEF LobbyRecord, Settings, EveryoneFits
<1>2. CASE lobbies' = lobbies
  BY <1>1, <1>2
<1>3. ASSUME NEW a \in Account, create(a)
      PROVE  Fits(lobbies'[l].members, lobbies'[l].settings.maxPlayers)
  <2>1. PICK k \in LobbyId, code \in JoinCode :
          lobbies' = [lobbies EXCEPT ![k] =
            [host |-> a, code |-> code,
             settings |-> [maxPlayers |-> DefaultCap, fleetPoints |-> DefaultBudget,
                           visibility |-> "public"],
             members |-> [b \in Account |-> IF b = a THEN Newcomer("team1") ELSE None]]]
    BY <1>3 DEF create
  <2>2. CASE l # k
    BY <1>0, <1>1, <2>1, <2>2
  <2>3. CASE l = k
    <3> DEFINE empty == [b \in Account |-> None]
               m == Newcomer("team1")
    <3>1. /\ lobbies'[l].members = [empty EXCEPT ![a] = m]
          /\ lobbies'[l].settings.maxPlayers = DefaultCap
      BY <1>0, <2>1, <2>3
    <3>2. \A p : At(empty, p) = {}
      BY DEF At, Occupants
    <3>3. DefaultCap \in PlayerCaps /\ SpectatorCap \in Nat
      BY LobbyAssumption
    <3>4. Fits(empty, DefaultCap)
      <4> HIDE DEF empty
      <4>1. \A p : positionCount(empty, p) = 0
        BY <3>2, FS_EmptySet DEF positionCount
      <4>2. teamCapacity(DefaultCap) \in Nat
        BY <3>3, CapsAreEven
      <4> QED BY <3>3, <4>1, <4>2 DEF Fits
    <3>5. m \in Member /\ m.position = "team1"
      BY NewcomerTyped DEF Registered, Newcomer, Position
    <3>6. Cardinality(At(empty, "team1") \ {a}) < teamCapacity(DefaultCap)
      <4>1. At(empty, "team1") \ {a} = {}
        BY <3>2
      <4> QED BY <4>1, <3>3, FS_EmptySet, CapsAreEven
    <3>7. empty \in [Account -> Member \cup {None}]
      OBVIOUS
    <3> HIDE DEF empty, m
    <3>8. Fits([empty EXCEPT ![a] = m], DefaultCap)
      BY <3>3, <3>4, <3>5, <3>6, <3>7, SeatedOneMore
    <3> QED BY <3>1, <3>8
  <2> QED BY <2>2, <2>3
<1>4. ASSUME NEW a \in Account, NEW k \in LobbyId, join(a, k)
      PROVE  Fits(lobbies'[l].members, lobbies'[l].settings.maxPlayers)
  <2> DEFINE m == Newcomer(firstOpenPosition(lobbies[k]))
  <2>1. /\ lobbies[k] # None /\ lobbies[k] \in LobbyRecord /\ firstOpenPosition(lobbies[k]) # None
        /\ lobbies[k].members[a] = None
    BY <1>0, <1>4, NoneAssumption DEF join, Registered, RegistryAgrees
  <2>2. m \in Member /\ m.position = firstOpenPosition(lobbies[k])
    BY <2>1, OpenPosition, NewcomerTyped DEF Registered, Newcomer
  <2>3. lobbies' = [lobbies EXCEPT ![k].members[a] = m]
    BY <1>4 DEF join, Seat
  <2> HIDE DEF m
  <2>4. CASE l # k
    BY <1>0, <1>1, <2>3, <2>4
  <2>5. CASE l = k
    <3>1. /\ lobbies'[l].members = [lobbies[l].members EXCEPT ![a] = m]
          /\ lobbies'[l].settings = lobbies[l].settings
      BY <1>0, <2>1, <2>3, <2>5 DEF LobbyRecord
    <3>2. \A p : At(lobbies[l].members, p) \ {a} = At(lobbies[l].members, p)
      BY <2>1, <2>5 DEF At, Occupants
    <3>3. Cardinality(At(lobbies[l].members, m.position) \ {a}) <
            IF m.position = "spectator" THEN SpectatorCap
            ELSE teamCapacity(lobbies[l].settings.maxPlayers)
      BY <1>1, <2>1, <2>2, <2>5, <3>2, OpenPositionIsOpen DEF positionCount
    <3> QED BY <1>1, <2>1, <2>2, <2>5, <3>1, <3>3, SeatedOneMore
  <2> QED BY <2>4, <2>5
<1>5. ASSUME NEW a \in Account, NEW m \in Member, InLobby(a), RowChange(a, m)
      PROVE  Fits(lobbies'[l].members, lobbies'[l].settings.maxPlayers)
  <2>1. /\ \A k \in LobbyId : k # membership[a] => lobbies'[k] = lobbies[k]
        /\ lobbies'[membership[a]].settings = LobbyOf(a).settings
        /\ lobbies'[membership[a]].members = [LobbyOf(a).members EXCEPT ![a] = m]
        /\ LobbyOf(a) # None
    BY <1>5, RowChanged DEF RowChange
  <2>2. CASE l # membership[a]
    BY <1>1, <2>1, <2>2
  <2>3. CASE l = membership[a]
    <3>1. a \in At(LobbyOf(a).members, MemberOf(a).position)
      BY <1>5, SeatedMember, NoneAssumption DEF At, Occupants
    <3>2. m.position # MemberOf(a).position =>
            Cardinality(At(LobbyOf(a).members, m.position) \ {a}) <
              IF m.position = "spectator" THEN SpectatorCap
              ELSE teamCapacity(LobbyOf(a).settings.maxPlayers)
      BY <1>5 DEF RowChange, capacityFor
    <3>3. \/ a \in At(LobbyOf(a).members, m.position)
          \/ Cardinality(At(LobbyOf(a).members, m.position) \ {a}) <
               IF m.position = "spectator" THEN SpectatorCap
               ELSE teamCapacity(LobbyOf(a).settings.maxPlayers)
      BY <3>1, <3>2
    <3>4. /\ LobbyOf(a).members \in [Account -> Member \cup {None}]
          /\ LobbyOf(a).settings.maxPlayers \in PlayerCaps
          /\ Fits(LobbyOf(a).members, LobbyOf(a).settings.maxPlayers)
      BY <1>1, <2>1, <2>3
    <3>5. Fits([LobbyOf(a).members EXCEPT ![a] = m], LobbyOf(a).settings.maxPlayers)
      BY <3>3, <3>4, SeatedOneMore
    <3> QED BY <2>1, <2>3, <3>5
  <2> QED BY <2>2, <2>3
<1>6. ASSUME NEW a \in Account, InLobby(a), remove(membership[a], a)
      PROVE  Fits(lobbies'[l].members, lobbies'[l].settings.maxPlayers)
  <2> DEFINE rest == [lobbies[membership[a]].members EXCEPT ![a] = None]
  <2>1. /\ l # membership[a] => lobbies'[l] = lobbies[l]
        /\ l = membership[a] => /\ lobbies'[l].members = rest
                                /\ lobbies'[l].settings = lobbies[l].settings
                                /\ lobbies[l] # None
    BY <1>6, Removed
  <2>2. l = membership[a] => \A p : At(rest, p) \subseteq At(lobbies[l].members, p)
    BY <1>1, <2>1 DEF At, Occupants
  <2> HIDE DEF rest
  <2>3. l = membership[a] =>
          \A p : positionCount(rest, p) <= positionCount(lobbies[l].members, p)
    BY <2>2, FewerFit
  <2>4. \A p : /\ positionCount(rest, p) \in Nat
               /\ positionCount(lobbies[l].members, p) \in Nat
    BY CountsAreNumbers
  <2>5. lobbies[l] # None => teamCapacity(lobbies[l].settings.maxPlayers) \in Nat
    BY <1>1, CapsAreEven
  <2> QED BY <1>1, <2>1, <2>3, <2>4, <2>5, LobbyAssumption DEF Fits
<1>7. ASSUME NEW a \in Account, NEW settings \in Settings, modify(a, settings)
      PROVE  Fits(lobbies'[l].members, lobbies'[l].settings.maxPlayers)
  <2> DEFINE members == Rebudgeted(lobbies[membership[a]].members, settings.fleetPoints)
  <2>1. /\ membership[a] \in LobbyId /\ LobbyOf(a) \in LobbyRecord /\ LobbyOf(a) # None
    BY <1>7, SeatedMember, NoneAssumption DEF modify
  <2>2. /\ l # membership[a] => lobbies'[l] = lobbies[l]
        /\ l = membership[a] => lobbies'[l].members = members /\ lobbies'[l].settings = settings
    BY <1>0, <1>7, <2>1 DEF modify, LobbyRecord
  <2>3. LobbyOf(a).members \in [Account -> Member \cup {None}]
    BY <2>1 DEF LobbyRecord
  <2>4. \A b \in Account : /\ members[b] = None <=> LobbyOf(a).members[b] = None
                           /\ LobbyOf(a).members[b] # None =>
                                members[b].position = LobbyOf(a).members[b].position
    BY <2>3, NoneAssumption DEF Rebudgeted, Member
  <2> HIDE DEF members
  <2>5. \A p : At(members, p) = At(LobbyOf(a).members, p)
    BY <2>4 DEF At, Occupants
  <2>6. CapFits(LobbyOf(a).members, settings.maxPlayers)
    BY <1>7 DEF modify
  <2> QED BY <1>1, <2>1, <2>2, <2>5, <2>6 DEF CapFits, Fits, positionCount
<1> QED BY <1>2, <1>3, <1>4, <1>5, <1>6, <1>7 DEF StepOfTheLobbies

\* No order of joins, moves and cap changes overfills a team, the stands or a
\* lobby, for any capacities (service.ts firstOpenPosition, capacityFor, modify).
THEOREM SeatsAlwaysWithinCapacity == Spec => []SeatsWithinCapacity
<1>1. Init => EveryoneFits
  BY DEF Init, EveryoneFits
<1>2. Registered /\ EveryoneFits => SeatsWithinCapacity
  <2> SUFFICES ASSUME Registered, EveryoneFits, NEW l \in LobbyId, lobbies[l] # None
               PROVE  /\ playerCount(lobbies[l].members) <= lobbies[l].settings.maxPlayers
                      /\ Fits(lobbies[l].members, lobbies[l].settings.maxPlayers)
    BY DEF SeatsWithinCapacity, Fits
  <2>1. /\ lobbies[l].members \in [Account -> Member \cup {None}]
        /\ lobbies[l].settings.maxPlayers \in PlayerCaps
    BY DEF Registered, TypeOK, LobbyRecord, Settings
  <2>2. Fits(lobbies[l].members, lobbies[l].settings.maxPlayers)
    BY DEF EveryoneFits
  <2> QED BY <2>1, <2>2, PlayersFit
<1> QED BY <1>1, <1>2, EveryoneFitsStep, RegisteredAlways, PTL DEF Spec

---------------------------------------------------------------------------
(* What a step may do to a host, and to a member who is ready.             *)

\* Heirs are players where there are any, and among those the first to join.
LEMMA HeirsComeFirst ==
  ASSUME NEW members \in [Account -> Member \cup {None}], NEW heir \in Heirs(members),
         NEW a \in Occupants(members)
  PROVE  \/ members[heir].position # "spectator" /\ members[a].position = "spectator"
         \/ /\ (members[heir].position = "spectator") = (members[a].position = "spectator")
            /\ members[heir].joinedAt <= members[a].joinedAt
BY DEF Heirs, Players, Occupants

\* The step of HostSuccession, for one lobby.
SuccessionAt(l) ==
  LET members == lobbies'[l].members
      heir == lobbies'[l].host
      spectates(a) == members[a].position = "spectator"
  IN /\ members[lobbies[l].host] = None
     /\ \A a \in Occupants(members) :
          \/ ~spectates(heir) /\ spectates(a)
          \/ /\ spectates(heir) = spectates(a)
             /\ members[heir].joinedAt <= members[a].joinedAt

LEMMA SuccessionStep ==
  ASSUME Registered, StepOfTheLobbies, NEW l \in LobbyId,
         lobbies[l] # None, lobbies'[l] # None, lobbies'[l].host # lobbies[l].host
  PROVE  SuccessionAt(l)
<1>0. lobbies \in [LobbyId -> LobbyRecord \cup {None}] /\ lobbies[l] \in LobbyRecord
  BY DEF Registered, TypeOK
<1>1. ASSUME NEW a \in Account, create(a) PROVE FALSE
  BY <1>0, <1>1 DEF create
<1>2. ASSUME NEW a \in Account, NEW k \in LobbyId, join(a, k) PROVE FALSE
  BY <1>0, <1>2 DEF join, Seat, LobbyRecord
<1>3. ASSUME NEW a \in Account, NEW m \in Member, InLobby(a), RowChange(a, m) PROVE FALSE
  BY <1>3, RowChanged DEF RowChange
<1>4. ASSUME NEW a \in Account, NEW settings \in Settings, modify(a, settings) PROVE FALSE
  BY <1>0, <1>4 DEF modify, LobbyRecord
<1>5. ASSUME NEW a \in Account, InLobby(a), remove(membership[a], a) PROVE SuccessionAt(l)
  <2> DEFINE rest == [lobbies[membership[a]].members EXCEPT ![a] = None]
  <2>1. /\ l = membership[a] /\ lobbies[l].host = a
        /\ rest \in [Account -> Member \cup {None}]
        /\ lobbies'[l].members = rest /\ lobbies'[l].host \in Heirs(rest)
    BY <1>5, Removed
  <2>2. rest[lobbies[l].host] = None
    BY <1>0, <2>1 DEF LobbyRecord
  <2> HIDE DEF rest
  <2> QED BY <2>1, <2>2, HeirsComeFirst DEF SuccessionAt
<1> QED BY <1>1, <1>2, <1>3, <1>4, <1>5 DEF StepOfTheLobbies

\* A lobby only ever passes from a host who has gone to the member who has been
\* there longest, players first, for any accounts (service.ts remove).
THEOREM HostsAreSucceeded == Spec => HostSuccession
<1>1. Registered /\ [Next]_vars =>
        [\A l \in LobbyId :
           lobbies[l] # None /\ lobbies'[l] # None /\ lobbies'[l].host # lobbies[l].host =>
             LET members == lobbies'[l].members
                 heir == lobbies'[l].host
                 spectates(a) == members[a].position = "spectator"
             IN /\ members[lobbies[l].host] = None
                /\ \A a \in Occupants(members) :
                     \/ ~spectates(heir) /\ spectates(a)
                     \/ /\ spectates(heir) = spectates(a)
                        /\ members[heir].joinedAt <= members[a].joinedAt]_vars
  BY StepsOfTheLobbies, SuccessionStep DEF SuccessionAt
<1> QED BY <1>1, RegisteredAlways, PTL DEF Spec, HostSuccession

\* A step of the lobbies never leaves a member ready with another fleet.
LEMMA ReadyStep ==
  ASSUME Registered, StepOfTheLobbies, NEW l \in LobbyId, NEW b \in Account,
         lobbies[l] # None, lobbies'[l] # None,
         lobbies[l].members[b] # None, lobbies'[l].members[b] # None,
         lobbies[l].members[b].ready, lobbies'[l].members[b].ready
  PROVE  lobbies[l].members[b].fleet = lobbies'[l].members[b].fleet
<1>0. lobbies \in [LobbyId -> LobbyRecord \cup {None}] /\ lobbies[l] \in LobbyRecord
  BY DEF Registered, TypeOK
<1> DEFINE Same == lobbies'[l].members[b].fleet = lobbies[l].members[b].fleet
<1>1. ASSUME NEW a \in Account, create(a) PROVE Same
  BY <1>0, <1>1 DEF create
<1>2. ASSUME NEW a \in Account, NEW k \in LobbyId, join(a, k) PROVE Same
  <2>1. k = l => a # b
    BY <1>2, NoneAssumption DEF join, Registered, RegistryAgrees
  <2> QED BY <1>0, <1>2, <2>1 DEF join, Seat, LobbyRecord
<1>3. ASSUME NEW a \in Account, NEW m \in Member, InLobby(a), RowChange(a, m) PROVE Same
  <2>1. /\ l # membership[a] => lobbies'[l] = lobbies[l]
        /\ l = membership[a] => lobbies'[l].members = [lobbies[l].members EXCEPT ![a] = m]
    <3>1. UpdateMember(a, m)
      BY <1>3 DEF RowChange
    <3>2. /\ \A k \in LobbyId : k # membership[a] => lobbies'[k] = lobbies[k]
          /\ lobbies'[membership[a]].members = [LobbyOf(a).members EXCEPT ![a] = m]
      BY <1>3, <3>1, RowChanged
    <3> QED BY <3>2
  <2>2. l = membership[a] /\ a = b => m.ready /\ m.fleet = lobbies[l].members[b].fleet
                                      /\ lobbies'[l].members[b] = m
    BY <1>0, <1>3, <2>1 DEF RowChange, LobbyRecord
  <2>3. l = membership[a] /\ a # b => lobbies'[l].members[b] = lobbies[l].members[b]
    BY <1>0, <2>1 DEF LobbyRecord
  <2> QED BY <2>1, <2>2, <2>3
<1>4. ASSUME NEW a \in Account, InLobby(a), remove(membership[a], a) PROVE Same
  <2>1. membership[a] \in LobbyId
    BY <1>4, SeatedMember
  <2> QED BY <1>4, <2>1, RemoveKeepsRows
<1>5. ASSUME NEW a \in Account, NEW settings \in Settings, modify(a, settings) PROVE Same
  <2> DEFINE members == Rebudgeted(lobbies[membership[a]].members, settings.fleetPoints)
  <2>1. /\ l # membership[a] => lobbies'[l] = lobbies[l]
        /\ l = membership[a] => lobbies'[l].members = members
    BY <1>0, <1>5 DEF modify, LobbyRecord
  <2>2. l = membership[a] =>
          \/ members[b] = lobbies[l].members[b]
          \/ members[b].ready = FALSE
    <3>1. lobbies[l].members \in [Account -> Member \cup {None}]
      BY <1>0 DEF LobbyRecord
    <3>2. LET m == Rebudgeted(lobbies[l].members, settings.fleetPoints)[b]
          IN m = lobbies[l].members[b] \/ m.ready = FALSE
      BY <3>1, RebudgetedRows
    <3> QED BY <3>2
  <2> HIDE DEF members
  <2> QED BY <2>1, <2>2
<1> QED BY <1>1, <1>2, <1>3, <1>4, <1>5 DEF StepOfTheLobbies

\* Readiness is for the fleet it was declared with: no re-read, swap or budget
\* change puts another fleet under it (service.ts selectFleet, resyncFleet).
THEOREM ReadyStaysForTheSameFleet == Spec => ReadyForTheSameFleet
<1>1. Registered /\ [Next]_vars =>
        [\A l \in LobbyId, a \in Account :
           LET before == lobbies[l].members[a]
               after == lobbies'[l].members[a]
           IN lobbies[l] # None /\ lobbies'[l] # None /\ before # None /\ after # None
              /\ before.ready /\ after.ready => before.fleet = after.fleet]_vars
  BY StepsOfTheLobbies, ReadyStep
<1> QED BY <1>1, RegisteredAlways, PTL DEF Spec, ReadyForTheSameFleet

---------------------------------------------------------------------------
(* The registry implements Seating.                                        *)

\* Those who sit in a lobby are those whose membership names it.
LEMMA SittingIsMembership ==
  ASSUME Registered, NEW l \in LobbyId, lobbies[l] # None
  PROVE  Seats!Members(l) = Occupants(lobbies[l].members)
BY DEF Seats!Members, Occupants, Registered, RegistryAgrees

Hosts == [l \in LobbyId |-> IF lobbies[l] = None THEN None ELSE lobbies[l].host]

LEMMA SeatingStep ==
  ASSUME Registered, StepOfTheLobbies
  PROVE  [Seats!Next]_Seats!seating
<1>0. /\ lobbies \in [LobbyId -> LobbyRecord \cup {None}]
      /\ membership \in [Account -> LobbyId \cup {None}]
      /\ \A l \in LobbyId : lobbies[l] # None => lobbies[l].host \in Account
  BY DEF Registered, TypeOK, LobbyRecord
<1> DEFINE Step == Seats!Next \/ UNCHANGED <<membership, Hosts>>
<1>1. SUFFICES Step
  BY DEF Seats!seating, Hosts
<1>2. CASE UNCHANGED <<lobbies, membership>>
  BY <1>2 DEF Hosts
<1>3. ASSUME NEW a \in Account, create(a) PROVE Step
  <2>1. PICK l \in LobbyId, code \in JoinCode :
          /\ lobbies[l] = None
          /\ lobbies' = [lobbies EXCEPT ![l] =
               [host |-> a, code |-> code,
                settings |-> [maxPlayers |-> DefaultCap, fleetPoints |-> DefaultBudget,
                              visibility |-> "public"],
                members |-> [b \in Account |-> IF b = a THEN Newcomer("team1") ELSE None]]]
          /\ membership' = [membership EXCEPT ![a] = l]
    BY <1>3 DEF create
  <2>2. lobbies'[l] # None
    <3>1. membership'[a] = l
      BY <1>0, <2>1
    <3> QED BY <1>3, <2>1, <3>1, CreateKeeps DEF RegistryAgrees
  <2>3. Hosts[l] = None /\ Hosts' = [Hosts EXCEPT ![l] = a]
    BY <1>0, <2>1, <2>2 DEF Hosts
  <2>4. membership[a] = None
    BY <1>3 DEF create
  <2>5. Seats!create(a, l)
    BY <2>1, <2>3, <2>4 DEF Seats!create, Hosts
  <2> QED BY <2>5 DEF Seats!Next
<1>4. ASSUME NEW a \in Account, NEW l \in LobbyId, join(a, l) PROVE Step
  <2>1. /\ lobbies[l] # None /\ lobbies[l] \in LobbyRecord /\ membership[a] = None
        /\ membership' = [membership EXCEPT ![a] = l]
        /\ lobbies' = [lobbies EXCEPT ![l].members[a] = Newcomer(firstOpenPosition(lobbies[l]))]
    BY <1>0, <1>4 DEF join, Seat
  <2>2. lobbies'[l] # None /\ lobbies'[l].host = lobbies[l].host
    <3>1. lobbies'[l].host = lobbies[l].host
      BY <1>0, <2>1 DEF LobbyRecord
    <3>2. membership'[a] = l
      BY <1>0, <2>1
    <3> QED BY <1>4, <3>1, <3>2, JoinKeeps DEF RegistryAgrees
  <2>3. Hosts[l] # None /\ Hosts' = Hosts
    BY <1>0, <2>1, <2>2, NoneAssumption DEF Hosts
  <2>4. Seats!join(a, l)
    BY <2>1, <2>3 DEF Seats!join, Hosts
  <2> QED BY <2>4 DEF Seats!Next
<1>5. ASSUME NEW a \in Account, NEW m \in Member, InLobby(a), RowChange(a, m) PROVE Step
  <2>1. UNCHANGED membership
    BY <1>5 DEF RowChange, UpdateMember
  <2>2. \A l \in LobbyId : /\ lobbies'[l] = None <=> lobbies[l] = None
                           /\ lobbies[l] # None => lobbies'[l].host = lobbies[l].host
    <3>1. lobbies'[membership[a]] # None
      BY <1>5, <2>1, UpdateMemberKeeps, SeatedMember DEF RegistryAgrees, RowChange
    <3> QED BY <1>5, <3>1, RowChanged DEF RowChange
  <2> QED BY <2>1, <2>2 DEF Hosts
<1>6. ASSUME NEW a \in Account, NEW settings \in Settings, modify(a, settings) PROVE Step
  <2>1. UNCHANGED membership
    BY <1>6 DEF modify
  <2>2. \A l \in LobbyId : /\ lobbies'[l] = None <=> lobbies[l] = None
                           /\ lobbies[l] # None => lobbies'[l].host = lobbies[l].host
    <3>1. membership[a] \in LobbyId /\ LobbyOf(a) # None /\ InLobby(a)
      BY <1>6, SeatedMember, NoneAssumption DEF modify
    <3>2. lobbies'[membership[a]] # None
      BY <1>6, <2>1, <3>1, ModifyKeeps DEF RegistryAgrees
    <3> QED BY <1>0, <1>6, <3>1, <3>2 DEF modify, LobbyRecord
  <2> QED BY <2>1, <2>2 DEF Hosts
<1>7. ASSUME NEW a \in Account, InLobby(a), remove(membership[a], a) PROVE Step
  <2> DEFINE l == membership[a]
             rest == [lobbies[l].members EXCEPT ![a] = None]
  <2>1. /\ l \in LobbyId /\ l # None /\ lobbies[l] # None /\ lobbies[l] \in LobbyRecord
        /\ membership' = [membership EXCEPT ![a] = None]
        /\ \A k \in LobbyId : k # l => lobbies'[k] = lobbies[k]
        /\ \/ Occupants(rest) = {} /\ lobbies'[l] = None
           \/ /\ Occupants(rest) # {}
              /\ lobbies'[l] # None
              /\ IF lobbies[l].host = a THEN lobbies'[l].host \in Heirs(rest)
                                        ELSE lobbies'[l].host = lobbies[l].host
    BY <1>7, Removed, NoneAssumption DEF remove
  <2>2. Occupants(rest) = Seats!Members(l) \ {a}
    BY <2>1, SittingIsMembership DEF Occupants, LobbyRecord
  <2> HIDE DEF l, rest
  <2>3. Hosts[l] = lobbies[l].host
    BY <2>1 DEF Hosts
  <2>4. CASE Occupants(rest) = {} /\ lobbies'[l] = None
    <3>1. Hosts' = [Hosts EXCEPT ![l] = None]
      BY <2>1, <2>4 DEF Hosts
    <3>2. Seats!remove(a)
      BY <2>1, <2>2, <2>4, <3>1 DEF Seats!remove, Hosts, l
    <3> QED BY <3>2 DEF Seats!Next
  <2>5. CASE lobbies[l].host # a /\ lobbies'[l] # None /\ lobbies'[l].host = lobbies[l].host
             /\ Occupants(rest) # {}
    <3>1. Hosts' = Hosts
      BY <2>1, <2>5 DEF Hosts
    <3>2. Seats!remove(a)
      BY <2>1, <2>2, <2>3, <2>5, <3>1 DEF Seats!remove, Hosts, l
    <3> QED BY <3>2 DEF Seats!Next
  <2>6. CASE lobbies[l].host = a /\ lobbies'[l] # None /\ lobbies'[l].host \in Heirs(rest)
    <3> DEFINE heir == lobbies'[l].host
    <3>1. heir \in Occupants(rest)
      BY <2>6 DEF Heirs, Players
    <3>2. Hosts' = [Hosts EXCEPT ![l] = heir]
      BY <2>1, <2>6 DEF Hosts
    <3> HIDE DEF heir
    <3>3. Seats!remove(a)
      BY <2>1, <2>2, <2>3, <2>6, <3>1, <3>2 DEF Seats!remove, Hosts, l
    <3> QED BY <3>3 DEF Seats!Next
  <2> QED BY <2>1, <2>4, <2>5, <2>6
<1> QED BY <1>2, <1>3, <1>4, <1>5, <1>6, <1>7 DEF StepOfTheLobbies

\* The whole lobby service, with its lookups, budgets and starts, is the small
\* Seating it promises: one seat an account, one host a lobby, who sits in it.
THEOREM LobbyImplementsSeating == Spec => ImplementsSeating
<1>1. Init => Seats!Init
  BY DEF Init, Seats!Init
<1>2. Registered /\ [Next]_vars => [Seats!Next]_Seats!seating
  BY StepsOfTheLobbies, SeatingStep
<1> QED BY <1>1, <1>2, RegisteredAlways, PTL DEF Spec, ImplementsSeating, Seats!Spec

---------------------------------------------------------------------------
(* Under the synchronous engine nothing is stale.  With a read under way   *)
(* the selection it is for may still be; what makes the promise inductive  *)
(* is that every other selection is current, and so is every row read.     *)

\* A read is on its way for the fleet this account has selected.
Rereading(a) ==
  \E k \in lookups : k.op = "resync" /\ k.account = a /\ k.fleet = SelectionOf(a).id

CurrentOrReread ==
  \A a \in Account : SelectionOf(a) # None =>
    SelectionOf(a) = fleets(a, SelectionOf(a).id) \/ Rereading(a)

LookupsAreCurrent == \A k \in lookups : k.row = fleets(k.account, k.fleet)

Current == CurrentOrReread /\ LookupsAreCurrent /\ StartedWithinBudget

\* A selection is a fleet row, and a row read for an account names the fleet asked for.
LEMMA SelectionTyped ==
  ASSUME Registered, NEW a \in Account
  PROVE  SelectionOf(a) \in SelectedFleet \cup {None}
<1>1. CASE InLobby(a)
  BY <1>1, SeatedMember DEF SelectionOf, Member
<1> QED BY <1>1 DEF SelectionOf

LEMMA ReadNamesTheFleet ==
  ASSUME NEW a, NEW f, fleets(a, f) # None
  PROVE  fleets(a, f).id = f /\ fleets(a, f).points = rows[f].points
BY DEF fleets

\* A selection changes only to nothing or to a row that was read for the account.
LEMMA SelectionsChange ==
  ASSUME Registered, StepOfTheLobbies, NEW b \in Account
  PROVE  \/ SelectionOf(b)' \in {SelectionOf(b), None}
         \/ \E k \in lookups : k.account = b /\ SelectionOf(b)' = k.row
<1> DEFINE Good == \/ SelectionOf(b)' \in {SelectionOf(b), None}
                   \/ \E k \in lookups : k.account = b /\ SelectionOf(b)' = k.row
<1>0. /\ lobbies \in [LobbyId -> LobbyRecord \cup {None}]
      /\ membership \in [Account -> LobbyId \cup {None}]
      /\ membership[b] # None =>
           /\ membership[b] \in LobbyId /\ lobbies[membership[b]] \in LobbyRecord
           /\ lobbies[membership[b]] # None /\ lobbies[membership[b]].members[b] # None
  BY SeatedMember, NoneAssumption DEF Registered, TypeOK
<1>1. CASE UNCHANGED <<lobbies, membership>>
  BY <1>1 DEF SelectionOf
<1>2. ASSUME NEW a \in Account, create(a) PROVE Good
  <2>1. PICK l \in LobbyId, code \in JoinCode :
          /\ lobbies[l] = None
          /\ lobbies' = [lobbies EXCEPT ![l] =
               [host |-> a, code |-> code,
                settings |-> [maxPlayers |-> DefaultCap, fleetPoints |-> DefaultBudget,
                              visibility |-> "public"],
                members |-> [c \in Account |-> IF c = a THEN Newcomer("team1") ELSE None]]]
          /\ membership' = [membership EXCEPT ![a] = l]
    BY <1>2 DEF create
  <2>2. CASE b = a
    BY <1>0, <2>1, <2>2 DEF SelectionOf, Newcomer
  <2>3. CASE b # a
    BY <1>0, <2>1, <2>3 DEF SelectionOf
  <2> QED BY <2>2, <2>3
<1>3. ASSUME NEW a \in Account, NEW l \in LobbyId, join(a, l) PROVE Good
  <2>1. /\ lobbies[l] # None /\ lobbies[l] \in LobbyRecord
        /\ lobbies' = [lobbies EXCEPT ![l].members[a] = Newcomer(firstOpenPosition(lobbies[l]))]
        /\ membership' = [membership EXCEPT ![a] = l]
    BY <1>0, <1>3 DEF join, Seat
  <2>2. CASE b = a
    BY <1>0, <2>1, <2>2 DEF SelectionOf, Newcomer, LobbyRecord
  <2>3. CASE b # a
    <3>1. membership'[b] = membership[b]
      BY <1>0, <2>1, <2>3
    <3>2. membership[b] # None =>
            lobbies'[membership[b]].members[b] = lobbies[membership[b]].members[b]
      BY <1>0, <2>1, <2>3 DEF LobbyRecord
    <3> QED BY <3>1, <3>2 DEF SelectionOf
  <2> QED BY <2>2, <2>3
<1>4. ASSUME NEW a \in Account, NEW m \in Member, InLobby(a), RowChange(a, m) PROVE Good
  <2>1. UpdateMember(a, m) /\ UNCHANGED membership
    BY <1>4 DEF RowChange, UpdateMember
  <2>2. /\ \A l \in LobbyId : l # membership[a] => lobbies'[l] = lobbies[l]
        /\ lobbies'[membership[a]].members = [LobbyOf(a).members EXCEPT ![a] = m]
        /\ LobbyOf(a).members \in [Account -> Member \cup {None}]
    BY <1>4, <2>1, RowChanged DEF LobbyRecord
  <2>3. CASE b = a
    <3>1. SelectionOf(b)' = m.fleet /\ SelectionOf(b) = MemberOf(a).fleet
      BY <1>4, <2>1, <2>2, <2>3 DEF SelectionOf
    <3> QED BY <1>4, <2>3, <3>1 DEF RowChange
  <2>4. CASE b # a
    <3>1. membership[b] # None =>
            lobbies'[membership[b]].members[b] = lobbies[membership[b]].members[b]
      BY <1>0, <2>2, <2>4
    <3> QED BY <2>1, <3>1 DEF SelectionOf
  <2> QED BY <2>3, <2>4
<1>5. ASSUME NEW a \in Account, InLobby(a), remove(membership[a], a) PROVE Good
  <2>1. membership' = [membership EXCEPT ![a] = None]
    BY <1>5 DEF remove
  <2>2. CASE b = a
    BY <1>0, <2>1, <2>2 DEF SelectionOf
  <2>3. CASE b # a /\ membership[b] # None
    <3>1. membership'[b] = membership[b]
      BY <1>0, <2>1, <2>3
    <3>2. membership[a] \in LobbyId
      BY <1>5, SeatedMember
    <3>3. lobbies'[membership[b]] # None /\ lobbies'[membership[b]].members[b] # None
      BY <1>0, <1>5, <2>3, <3>1, <3>2, RemoveKeeps DEF RegistryAgrees
    <3>4. lobbies'[membership[b]].members[b] = lobbies[membership[b]].members[b]
      BY <1>0, <1>5, <2>3, <3>2, <3>3, RemoveKeepsRows
    <3> QED BY <3>1, <3>4 DEF SelectionOf
  <2>4. CASE b # a /\ membership[b] = None
    BY <1>0, <2>1, <2>4 DEF SelectionOf
  <2> QED BY <2>2, <2>3, <2>4
<1>6. ASSUME NEW a \in Account, NEW settings \in Settings, modify(a, settings) PROVE Good
  <2> DEFINE members == Rebudgeted(lobbies[membership[a]].members, settings.fleetPoints)
  <2>1. UNCHANGED membership
    BY <1>6 DEF modify
  <2>2. /\ membership[b] # None /\ membership[b] # membership[a] =>
             lobbies'[membership[b]] = lobbies[membership[b]]
        /\ membership[b] # None /\ membership[b] = membership[a] =>
             lobbies'[membership[b]].members = members
    BY <1>0, <1>6 DEF modify, LobbyRecord
  <2>3. membership[b] # None /\ membership[b] = membership[a] =>
          members[b].fleet \in {lobbies[membership[b]].members[b].fleet, None}
    <3>1. membership[b] # None => lobbies[membership[b]].members \in [Account -> Member \cup {None}]
      BY <1>0 DEF LobbyRecord
    <3>2. membership[b] # None =>
            LET m == Rebudgeted(lobbies[membership[b]].members, settings.fleetPoints)[b]
            IN m = lobbies[membership[b]].members[b] \/ m.fleet = None
      BY <1>0, <3>1, RebudgetedRows
    <3> QED BY <3>2
  <2> HIDE DEF members
  <2> QED BY <2>1, <2>2, <2>3 DEF SelectionOf
<1> QED BY <1>1, <1>2, <1>3, <1>4, <1>5, <1>6 DEF StepOfTheLobbies

\* What a command does to the reads and the rows: it may ask for one more read.
LEMMA CommandReads ==
  ASSUME Registered, LookupsAreCurrent, NEW a \in Account, Command(a)
  PROVE  /\ UNCHANGED rows
         /\ lookups \subseteq lookups'
         /\ LookupsAreCurrent'
<1>1. CASE \E f \in Fleet : requestFleet(a, f)
  BY <1>1 DEF requestFleet, LookupsAreCurrent, fleets
<1>2. CASE UNCHANGED <<rows, lookups>>
  BY <1>2 DEF LookupsAreCurrent, fleets
<1>3. ASSUME NEW b, NEW l, remove(l, b) PROVE UNCHANGED <<rows, lookups>>
  BY <1>3 DEF remove
<1>4. CASE Command(a) /\ ~(\E f \in Fleet : requestFleet(a, f))
  BY <1>2, <1>3, <1>4 DEF Command, create, joinByCode, joinById, join, Seat, setPosition,
     setReady, selectNone, UpdateMember, leave, kick, modify, startMatch
<1> QED BY <1>1, <1>4

\* While no read of that account's selection answers, its selection stays current.
LEMMA StaysCurrent ==
  ASSUME Registered, StepOfTheLobbies, LookupsAreCurrent, CurrentOrReread, NEW b \in Account,
         UNCHANGED rows, SelectionOf(b)' # None,
         \A k \in lookups : k.op = "resync" /\ k.account = b /\ k.fleet = SelectionOf(b).id
           => k \in lookups'
  PROVE  SelectionOf(b)' = fleets(b, SelectionOf(b).id)' \/ Rereading(b)'
<1>1. \A f : fleets(b, f)' = fleets(b, f)
  BY DEF fleets
<1>2. CASE SelectionOf(b)' = SelectionOf(b)
  BY <1>1, <1>2 DEF CurrentOrReread, Rereading
<1>3. ASSUME NEW k \in lookups, k.account = b, SelectionOf(b)' = k.row
      PROVE  SelectionOf(b)' = fleets(b, SelectionOf(b).id)'
  <2>1. k.row = fleets(b, k.fleet)
    BY <1>3 DEF LookupsAreCurrent
  <2>2. k.row.id = k.fleet
    BY <1>3, <2>1, ReadNamesTheFleet
  <2> QED BY <1>1, <1>3, <2>1, <2>2
<1> QED BY <1>2, <1>3, SelectionsChange

\* A start takes fleets the store holds as the lobby remembers them.
LEMMA StartIsWithinBudget ==
  ASSUME Registered, ReadyIsHonest, CurrentOrReread, SyncStore,
         NEW a \in Account, startMatch(a)
  PROVE  StartedWithinBudget'
<1>0. rows' = rows /\ start' = [budget |-> LobbyOf(a).settings.fleetPoints,
                                roster |-> Roster(LobbyOf(a).members)]
  BY DEF startMatch
<1>1. /\ membership[a] \in LobbyId /\ LobbyOf(a) \in LobbyRecord /\ LobbyOf(a) # None
  BY SeatedMember, NoneAssumption DEF startMatch
<1>2. ASSUME NEW b \in Account, Roster(LobbyOf(a).members)[b] # None
      PROVE  LET f == Roster(LobbyOf(a).members)[b]
             IN rows[f] # None => rows[f].points <= LobbyOf(a).settings.fleetPoints
  <2>1. /\ LobbyOf(a).members[b] # None /\ LobbyOf(a).members[b].fleet # None
        /\ Roster(LobbyOf(a).members)[b] = LobbyOf(a).members[b].fleet.id
    BY <1>2 DEF Roster, Players, Occupants
  <2>2. membership[b] = membership[a]
    BY <1>1, <2>1 DEF Registered, RegistryAgrees
  <2>3. SelectionOf(b) = LobbyOf(a).members[b].fleet
    BY <1>1, <2>2, NoneAssumption DEF SelectionOf
  <2>4. ~Rereading(b)
    BY DEF startMatch, Turn, Rereading
  <2>5. SelectionOf(b) = fleets(b, SelectionOf(b).id)
    BY <2>1, <2>3, <2>4 DEF CurrentOrReread
  <2>6. SelectionOf(b).points = rows[SelectionOf(b).id].points
    BY <2>1, <2>3, <2>5, ReadNamesTheFleet
  <2>7. SelectionOf(b).points <= LobbyOf(a).settings.fleetPoints
    BY <1>1, <2>1, <2>3 DEF ReadyIsHonest
  <2> QED BY <2>1, <2>3, <2>6, <2>7
<1> QED BY <1>0, <1>2 DEF StartedWithinBudget

LEMMA CurrentStep ==
  ASSUME SyncStore, ~ReadsMayFail
  PROVE  Registered /\ ReadyIsHonest /\ Current /\ [Next]_vars => Current'
<1> SUFFICES ASSUME Registered, ReadyIsHonest, Current, [Next]_vars PROVE Current'
  OBVIOUS
<1> USE DEF Current
<1>0. StepOfTheLobbies
  BY StepsOfTheLobbies
<1>1. ASSUME NEW a \in Account, Command(a) PROVE Current'
  <2>1. UNCHANGED rows /\ lookups \subseteq lookups' /\ LookupsAreCurrent'
    BY <1>1, CommandReads
  <2>2. CurrentOrReread'
    BY <1>0, <2>1, StaysCurrent DEF CurrentOrReread
  <2>3. StartedWithinBudget'
    <3>1. CASE startMatch(a)
      BY <3>1, StartIsWithinBudget
    <3>2. ASSUME NEW b, NEW l, remove(l, b) PROVE UNCHANGED start
      BY <3>2 DEF remove
    <3>3. CASE UNCHANGED start
      BY <2>1, <3>3 DEF StartedWithinBudget
    <3> QED BY <1>1, <3>1, <3>2, <3>3 DEF Command, create, joinByCode, joinById, join, Seat,
            setPosition, setReady, selectNone, requestFleet, UpdateMember, leave, kick, modify
  <2> QED BY <2>1, <2>2, <2>3
<1>2. ASSUME NEW k \in lookups, selectFleet(k) \/ resyncFleet(k) PROVE Current'
  <2>1. UNCHANGED <<rows, start>> /\ lookups' = lookups \ {k}
    BY <1>2 DEF selectFleet, resyncFleet, UpdateMember
  <2>2. LookupsAreCurrent' /\ StartedWithinBudget'
    BY <2>1 DEF LookupsAreCurrent, StartedWithinBudget, fleets
  <2>3. ASSUME NEW b \in Account, SelectionOf(b)' # None
        PROVE  SelectionOf(b)' = fleets(b, SelectionOf(b).id)' \/ Rereading(b)'
    <3>1. CASE selectFleet(k) \/ k.account # b \/ k.fleet # SelectionOf(b).id
      BY <1>0, <2>1, <2>3, <3>1, StaysCurrent DEF selectFleet
    <3>2. CASE resyncFleet(k) /\ k.account = b /\ k.fleet = SelectionOf(b).id
      <4>1. k.row = fleets(b, k.fleet) /\ \A f : fleets(b, f)' = fleets(b, f)
        BY <2>1, <3>2 DEF LookupsAreCurrent, fleets
      <4>2. Resynced(b, k.row) \in {k.row, None} /\ (k.row # None => k.row.id = k.fleet)
        BY <4>1, ReadNamesTheFleet DEF Resynced
      <4>3. CASE UNCHANGED <<lobbies, membership>>
        <5>1. SelectionOf(b)' = SelectionOf(b) /\ InLobby(b) /\ MemberOf(b).fleet = SelectionOf(b)
          BY <2>3, <4>3 DEF SelectionOf
        <5>2. CASE SelectionOf(b) = Resynced(b, k.row)
          BY <2>3, <4>1, <4>2, <5>1, <5>2
        <5>3. CASE SelectionOf(b) # Resynced(b, k.row)
          <6>1. UpdateMember(b, Selection(b, Resynced(b, k.row)))
            BY <2>3, <3>2, <5>1, <5>3 DEF resyncFleet
          <6>2. SelectionOf(b)' = Resynced(b, k.row)
            <7>1. Selection(b, Resynced(b, k.row)) \in Member
              BY <4>2, <5>1, MemberChangesTyped DEF Registered, TypeOK, Lookup
            <7>2. Selection(b, Resynced(b, k.row)).fleet = Resynced(b, k.row)
              BY <5>1, SeatedMember DEF Selection, Member
            <7>3. LobbyOf(b)' = LobbyOf(b) /\ LobbyOf(b).members \in [Account -> Member \cup {None}]
              BY <4>3, <5>1, SeatedMember DEF LobbyRecord
            <7>4. MemberOf(b)' = Selection(b, Resynced(b, k.row))
              BY <4>3, <5>1, <6>1, <7>1, <7>3, RowChanged
            <7> QED BY <4>3, <5>1, <7>2, <7>4 DEF SelectionOf
          <6> QED BY <5>1, <5>3, <6>2
        <5> QED BY <5>2, <5>3
      <4>4. CASE InLobby(b) /\ UpdateMember(b, Selection(b, Resynced(b, k.row)))
        <5>1. Selection(b, Resynced(b, k.row)) \in Member
          BY <4>2, <4>4, MemberChangesTyped DEF Registered, TypeOK, Lookup
        <5>2. Selection(b, Resynced(b, k.row)).fleet = Resynced(b, k.row)
          BY <4>4, SeatedMember DEF Selection, Member
        <5>3. /\ lobbies'[membership[b]].members =
                   [LobbyOf(b).members EXCEPT ![b] = Selection(b, Resynced(b, k.row))]
              /\ LobbyOf(b).members \in [Account -> Member \cup {None}]
          BY <4>4, <5>1, RowChanged DEF LobbyRecord
        <5>4. SelectionOf(b)' = Resynced(b, k.row)
          BY <4>4, <5>2, <5>3 DEF SelectionOf, UpdateMember
        <5> QED BY <2>3, <4>1, <4>2, <5>4
      <4> QED BY <3>2, <4>3, <4>4 DEF resyncFleet
    <3> QED BY <1>2, <3>1, <3>2
  <2> QED BY <2>2, <2>3 DEF CurrentOrReread
<1>3. ASSUME NEW f \in Fleet, NEW row \in FleetRow \cup {None}, writeFleet(f, row) PROVE Current'
  <2> DEFINE o == OwnerOf[f]
             found == IF row = None THEN None
                      ELSE [id |-> f, name |-> row.name, points |-> row.points]
             k == [op |-> "resync", account |-> o, fleet |-> f, row |-> found]
  <2>1. /\ lookups = {} /\ start = None /\ rows' = [rows EXCEPT ![f] = row]
        /\ InLobby(o) => lookups' = {k}
        /\ ~InLobby(o) => lookups' = {}
        /\ UNCHANGED <<lobbies, membership, start>>
    BY <1>3 DEF writeFleet
  <2>2. rows \in [Fleet -> FleetRow \cup {None}] /\ o \in Account
    BY LobbyAssumption DEF Registered, TypeOK
  <2>3. found = fleets(o, f)'
    BY <2>1, <2>2, NoneAssumption DEF fleets
  <2>4. k.op = "resync" /\ k.account = o /\ k.fleet = f /\ k.row = found
    OBVIOUS
  <2>5. \A b \in Account, g \in Fleet : b # o \/ g # f => fleets(b, g)' = fleets(b, g)
    BY <2>1, <2>2 DEF fleets
  <2> HIDE DEF o, found, k
  <2>6. LookupsAreCurrent'
    BY <2>1, <2>3, <2>4 DEF LookupsAreCurrent
  <2>7. ASSUME NEW b \in Account, SelectionOf(b)' # None
        PROVE  SelectionOf(b)' = fleets(b, SelectionOf(b).id)' \/ Rereading(b)'
    <3>1. SelectionOf(b)' = SelectionOf(b) /\ SelectionOf(b).id \in Fleet /\ InLobby(b)
      BY <2>1, <2>7, SelectionTyped DEF SelectionOf, SelectedFleet
    <3>2. SelectionOf(b) = fleets(b, SelectionOf(b).id)
      BY <2>1, <2>7, <3>1 DEF CurrentOrReread, Rereading
    <3>3. CASE b = o /\ SelectionOf(b).id = f
      <4>1. k \in lookups'
        BY <2>1, <3>1, <3>3
      <4> QED BY <2>4, <3>1, <3>3, <4>1 DEF Rereading
    <3> QED BY <2>5, <3>1, <3>2, <3>3
  <2> QED BY <2>1, <2>6, <2>7 DEF CurrentOrReread, StartedWithinBudget
<1>4. CASE loadFleets \/ Tick \/ UNCHANGED vars
  <2>1. UNCHANGED <<lobbies, membership, rows, lookups>> /\ start' \in {start, None}
    BY <1>4 DEF loadFleets, Tick, vars
  <2> QED BY <2>1 DEF CurrentOrReread, Rereading, SelectionOf, LookupsAreCurrent,
             StartedWithinBudget, fleets
<1> QED BY <1>1, <1>2, <1>3, <1>4 DEF Next

LEMMA CurrentAlways ==
  ASSUME SyncStore, ~ReadsMayFail
  PROVE  Spec => []Current
<1>1. Init => Current
  BY DEF Init, Current, CurrentOrReread, SelectionOf, LookupsAreCurrent, StartedWithinBudget
<1>2. Registered /\ ReadyIsHonest /\ Current /\ [Next]_vars => Current'
  BY CurrentStep
<1> QED BY <1>1, <1>2, RegisteredAlways, ReadyAlwaysHonest, PTL DEF Spec

\* With the SQLite engine and reads that do not fail, a lobby's copy of a fleet is
\* the stored row whenever no read is under way, for any players, fleets and
\* costs, through any edits and deletions (service.ts resyncFleet).
THEOREM SelectionsStayCurrent ==
  ASSUME SyncStore, ~ReadsMayFail
  PROVE  Spec => []SelectionIsCurrent
<1>1. Current => SelectionIsCurrent
  BY DEF Current, CurrentOrReread, Rereading, SelectionIsCurrent
<1> QED BY <1>1, CurrentAlways, PTL

\* And what a start is about to load fits the budget it was started under, as the
\* store has it (handler.ts fleetChanged, match.start).
THEOREM StartsStayWithinBudget ==
  ASSUME SyncStore, ~ReadsMayFail
  PROVE  Spec => []StartedWithinBudget
<1>1. Current => StartedWithinBudget
  BY DEF Current
<1> QED BY <1>1, CurrentAlways, PTL
=============================================================================
