------------------------------ MODULE MCLoader ------------------------------
(* A small input for the loader. *)
EXTENDS Loader

CONSTANTS w1, w2

TwoWorkers == {w1, w2}

(* A line in the middle does not decode, and the last two are never read. *)
SixLines == <<"data", "bad", "data", "data", "long", "data">>
=============================================================================
