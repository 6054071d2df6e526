-------------------------- MODULE MCSessionService --------------------------
(***************************************************************************)
(* SessionService for TLC: connections are interchangeable, and so are the *)
(* deletion requests.                                                      *)
(***************************************************************************)
EXTENDS SessionService, TLC

Symmetric == Permutations(Conns) \cup Permutations(Deleters)

=============================================================================
