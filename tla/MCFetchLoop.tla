---------------------------- MODULE MCFetchLoop ----------------------------
(* FetchLoop for TLC; the ladder's length is given in the configurations. *)
EXTENDS FetchLoop
=============================================================================
