------------------------- MODULE MCCredentialRefresh -------------------------
(* Small instances of CredentialRefresh for TLC.                             *)
EXTENDS CredentialRefresh, TLC

CONSTANTS c1, c2, r1, r2, k1, f1

AllFaults == {"crash", "lost", "unread", "unsaved", "refused", "removed"}
\* Faults that end the hope for a credential, and no outage or crash that comes for ever.
Losses == {"lost", "unread", "unsaved", "removed"}
==============================================================================
