------------------------------ MODULE MCLobby ------------------------------
(* Finite instances of Lobby: who owns which fleet, and symmetry.          *)
EXTENDS Lobby, TLC

CONSTANTS a1, a2, f1, f2

MCOwnerOf == (f1 :> a1) @@ (f2 :> a2)
NoOwner == [f \in {} |-> a1]
OneOwner == f1 :> a1

AccountSymmetry == Permutations(Account)
CodeSymmetry == Permutations(JoinCode)
RegistrySymmetry == AccountSymmetry \cup Permutations(LobbyId) \cup CodeSymmetry
=============================================================================
