----------------------------- MODULE MCSession -----------------------------
(* Finite instances of Session.                                            *)
EXTENDS Session, TLC

SessionSymmetry == Permutations(Account) \cup Permutations(LobbyId) \cup Permutations(MatchId)
=============================================================================
