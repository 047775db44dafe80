------------------------------ MODULE MCOAuthLogin -----------------------------
(* Small instances of OAuthLogin for TLC.                                    *)
EXTENDS OAuthLogin, TLC

CONSTANTS l1, l2, w1, w2

Interchangeable == Permutations(Logins) \cup Permutations(Workers)
================================================================================
