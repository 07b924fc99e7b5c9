---------------------------- MODULE MCModelServing ----------------------------
(* A small instance of ModelServing: two runs that train two models, one request. *)
EXTENDS ModelServing
=============================================================================
