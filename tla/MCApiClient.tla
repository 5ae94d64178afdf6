---------------------------- MODULE MCApiClient ----------------------------
(* Instances of ApiClient for TLC. *)
EXTENDS ApiClient

CONSTANTS w1, w2

TwoWorkers == {w1, w2}
=============================================================================
