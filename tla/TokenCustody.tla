----------------------------- MODULE TokenCustody -----------------------------
(***************************************************************************)
(* What the vault and its refreshers promise about the newest token of a    *)
(* rotating credential: it is always at one place, it is lost only when a    *)
(* fault or a removal has touched the credential, and once lost no           *)
(* interleaving brings it back (only a new login does, under another id).   *)
(***************************************************************************)
CONSTANT Creds

VARIABLES
    place,   \* where the newest token of each credential is
    touched  \* credentials a fault or a removal has touched

vars == <<place, touched>>

Places == {
    "none",   \* nobody has logged in
    "vault",  \* in the credential's row
    "hand",   \* only in the copy of some running worker
    "gone"}   \* nowhere: the provider will not accept anything Fob has left

TypeOK ==
    /\ place \in [Creds -> Places]
    /\ touched \in SUBSET Creds

Init ==
    /\ place = [c \in Creds |-> "none"]
    /\ touched = {}

Touch(S) == touched' = touched \cup S

Move(c, from, to) ==
    /\ place[c] = from
    /\ place' = [place EXCEPT ![c] = to]

Connect(c) == Move(c, "none", "vault")

\* The provider issues a new token to a worker, or the row is removed under one.
Carry(c) == Move(c, "vault", "hand")

Put(c) == Move(c, "hand", "vault")

\* Several tokens are lost at once when the process dies.
Lose(S) ==
    /\ S # {}
    /\ S \subseteq touched'
    /\ \A c \in S : place[c] \in {"vault", "hand"}
    /\ place' = [c \in Creds |-> IF c \in S THEN "gone" ELSE place[c]]

Next ==
    /\ \E S \in SUBSET Creds : Touch(S)
    /\ \/ \E c \in Creds : Connect(c) \/ Carry(c) \/ Put(c)
       \/ \E S \in SUBSET Creds : Lose(S)
       \/ UNCHANGED place

Settle(c) ==
    /\ place[c] = "hand"
    /\ \E S \in SUBSET Creds : Touch(S)
    /\ Put(c) \/ Lose({c})

\* Where a token may be and go, whoever is scheduled.
Safety == Init /\ [][Next]_vars

\* A token in a worker's hands does not stay there.
Spec ==
    /\ Safety
    /\ \A c \in Creds : WF_vars(Settle(c))
================================================================================
