---------------------------- MODULE MCSessionStore ----------------------------
(* Instances of SessionStore for TLC. *)
EXTENDS SessionStore, TLC
CONSTANTS h1, h2, d1, d2
Symmetric == Permutations(Data)
=============================================================================
