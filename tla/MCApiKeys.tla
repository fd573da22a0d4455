----------------------------- MODULE MCApiKeys -----------------------------
(***************************************************************************)
(* Small instances of ApiKeys for TLC.  Requests are interchangeable.      *)
(***************************************************************************)
EXTENDS ApiKeys, TLC

CONSTANTS r1, r2

TwoRequests == {r1, r2}
RequestsAlike == Permutations(TwoRequests)
=============================================================================
