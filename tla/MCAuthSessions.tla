---------------------------- MODULE MCAuthSessions ----------------------------
(* A small instance of AuthSessions. *)
EXTENDS AuthSessions, TLC

AuthSymmetry == Permutations(Requests)
=============================================================================
