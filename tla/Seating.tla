------------------------------ MODULE Seating ------------------------------
(* What the lobby registry promises everybody else: an account sits in at  *)
(* most one lobby, a lobby exists while somebody sits in it, and it has    *)
(* one host, who sits in it (server/src/lobby/service.ts, the public       *)
(* operations that move an account in or out).                             *)
CONSTANTS Account, LobbyId, None

VARIABLES
  membership,   \* account -> the lobby it sits in, or None
  host          \* lobby id -> its host, or None when there is no such lobby

seating == <<membership, host>>

Members(l) == {a \in Account : membership[a] = l}

Init ==
  /\ membership = [a \in Account |-> None]
  /\ host = [l \in LobbyId |-> None]

create(a, l) ==
  /\ membership[a] = None
  /\ host[l] = None
  /\ membership' = [membership EXCEPT ![a] = l]
  /\ host' = [host EXCEPT ![l] = a]

join(a, l) ==
  /\ membership[a] = None
  /\ host[l] # None
  /\ membership' = [membership EXCEPT ![a] = l]
  /\ UNCHANGED host

\* The last to go takes the lobby along; a departing host leaves an heir.
remove(a) ==
  LET l == membership[a]
      rest == Members(l) \ {a}
  IN /\ l # None
     /\ membership' = [membership EXCEPT ![a] = None]
     /\ \/ rest = {} /\ host' = [host EXCEPT ![l] = None]
        \/ rest # {} /\ host[l] # a /\ UNCHANGED host
        \/ host[l] = a /\ \E heir \in rest : host' = [host EXCEPT ![l] = heir]

Next == \E a \in Account : remove(a) \/ \E l \in LobbyId : create(a, l) \/ join(a, l)

Spec == Init /\ [][Next]_seating

---------------------------------------------------------------------------
TypeOK ==
  /\ membership \in [Account -> LobbyId \cup {None}]
  /\ host \in [LobbyId -> Account \cup {None}]

\* A lobby is nobody's or is hosted by one of the accounts that sit in it.
HostSitsInside ==
  \A l \in LobbyId :
    /\ host[l] # None => membership[host[l]] = l
    /\ host[l] = None => Members(l) = {}
=============================================================================
