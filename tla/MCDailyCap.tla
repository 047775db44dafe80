------------------------------- MODULE MCDailyCap ------------------------------
(* A small instance of DailyCap for TLC: one key that may be used and one that *)
(* may not, both capped.                                                      *)
EXTENDS DailyCap, TLC

CONSTANTS key1, key2, q1, q2, q3

SmallCaps == (key1 :> 3) @@ (key2 :> 0)
Slots == Permutations(Requests)
================================================================================
