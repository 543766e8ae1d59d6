-------------------------- MODULE MCClientSession --------------------------
(* Finite instances of ClientSession.                                      *)
EXTENDS ClientSession, TLC

ClientSymmetry == Permutations(Account) \cup Permutations(LobbyId) \cup Permutations(MatchId)
=============================================================================
