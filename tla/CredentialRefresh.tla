--------------------------- MODULE CredentialRefresh ---------------------------
(***************************************************************************)
(* The credential vault and everybody who refreshes it: the requests of    *)
(* internal/proxy/proxy.go (Proxy), the keepalive loop started by          *)
(* cmd/fob/main.go (KeepaliveCredentials) and the subscription fetches of   *)
(* internal/sub/sub.go (Collect, fetchOne).  Each of them lists the vault,  *)
(* works on its copies, asks the provider for new tokens when a copy is     *)
(* near expiry (and, for a request, when an execution answers 401) and      *)
(* saves what it got.  Nothing locks a credential between the List and the  *)
(* Save, so the copies go stale under each other.                           *)
(*                                                                         *)
(* Tokens are abstracted to generations: generation n of a credential is    *)
(* what the provider issued the n-th time.  Generation 0 is "nothing".      *)
(***************************************************************************)
EXTENDS Integers

CONSTANTS
    Creds,      \* credential ids of one provider, the vault's primary keys
    Rotating,   \* credentials whose refresh token is spent when it is used
    Identity,   \* credentials without refresh token: Refresh returns them as they are
    Expiring,   \* credentials stored with an expires_at
    Requests,   \* proxied requests
    Keepers,    \* keepalive loops (the program starts one)
    Fetches,    \* goroutines of sub.Collect
    Faults,     \* which faults the environment may inject
    MaxGen,     \* bound: generations the provider issues for one credential
    NoCred      \* "works on no credential"

ASSUME CredsAssumption ==
    /\ Rotating \subseteq Creds
    /\ Identity \subseteq Creds \ Rotating
    /\ Expiring \subseteq Creds
    /\ NoCred \notin Creds

ASSUME WorkersAssumption ==
    /\ Requests \cap Keepers = {}
    /\ Requests \cap Fetches = {}
    /\ Keepers \cap Fetches = {}

ASSUME BoundsAssumption ==
    /\ MaxGen \in Nat \ {0}
    /\ Faults \subseteq {"crash", "lost", "unread", "unsaved", "refused", "removed"}

Workers == Requests \cup Keepers \cup Fetches
Gen == 0 .. MaxGen

VARIABLES
    row,      \* row[c]: generation in the credentials table, 0 without a row
    live,     \* live[c]: newest generation the provider issued
    aged,     \* aged[c]: generations up to this one are near expiry
    pc,       \* where each worker is
    snap,     \* snap[w][c]: the listed copies the worker has not come to yet
    cred,     \* the credential the worker is at
    copy,     \* the generation in the worker's local variable `cred`
    excused   \* history: credentials a fault or a removal has touched

vault == <<row, live, aged>>
local == <<pc, snap, cred, copy>>
vars == <<row, live, aged, pc, snap, cred, copy, excused>>

Asking == {"ask1", "ask2"}       \* Refresh is under way: near expiry, or after a 401
Saving == {"save1", "save2"}     \* Refresh returned without error, Save comes next
Executing == {"exec1", "exec2"}  \* Execute, or the subscription fetch, is under way
PC == {"idle", "walk"} \cup Asking \cup Saving \cup Executing

TypeOK ==
    /\ row \in [Creds -> Gen]
    /\ live \in [Creds -> Gen]
    /\ aged \in [Creds -> Gen]
    /\ pc \in [Workers -> PC]
    /\ snap \in [Workers -> [Creds -> Gen]]
    /\ cred \in [Workers -> Creds \cup {NoCred}]
    /\ copy \in [Workers -> Gen]
    /\ excused \in SUBSET Creds

Init ==
    /\ row = [c \in Creds |-> 0]
    /\ live = [c \in Creds |-> 0]
    /\ aged = [c \in Creds |-> 0]
    /\ pc = [w \in Workers |-> "idle"]
    /\ snap = [w \in Workers |-> [c \in Creds |-> 0]]
    /\ cred = [w \in Workers |-> NoCred]
    /\ copy = [w \in Workers |-> 0]
    /\ excused = {}

--------------------------------------------------------------------------------
(* The panel and the clock.                                                *)

\* A finished login saves a credential under a new random id.
Connect(c) ==
    /\ live[c] = 0
    /\ row' = [row EXCEPT ![c] = 1]
    /\ live' = [live EXCEPT ![c] = 1]
    /\ UNCHANGED <<aged, local, excused>>

\* "Out" on the panel deletes the row; copies in flight are not told.
Remove(c) ==
    /\ "removed" \in Faults
    /\ row[c] # 0
    /\ row' = [row EXCEPT ![c] = 0]
    /\ excused' = excused \cup {c}
    /\ UNCHANGED <<live, aged, local>>

\* Time passes until the tokens issued so far are inside the five minute skew.
Age(c) ==
    /\ c \in Expiring
    /\ aged[c] < live[c]
    /\ live[c] < MaxGen
    /\ aged' = [aged EXCEPT ![c] = live[c]]
    /\ UNCHANGED <<row, live, local, excused>>

NearExpiry(c, gen) == c \in Expiring /\ gen <= aged[c]

--------------------------------------------------------------------------------
(* Workers: list the vault, walk over the copies.                          *)

\* Mutated: the rows come from a cache that removal does not invalidate.
ListCached(w, S) ==
    /\ pc[w] = "idle"
    /\ \E c \in S : live[c] # 0
    /\ pc' = [pc EXCEPT ![w] = "walk"]
    /\ snap' = [snap EXCEPT ![w] = [c \in Creds |-> IF c \in S THEN live[c] ELSE 0]]
    /\ UNCHANGED <<vault, cred, copy, excused>>

\* pickCredentials, Keepalive's and Collect's List: a snapshot of the rows in S.
ListRows(w, S) ==
    /\ pc[w] = "idle"
    /\ \E c \in S : row[c] # 0
    /\ pc' = [pc EXCEPT ![w] = "walk"]
    /\ snap' = [snap EXCEPT ![w] = [c \in Creds |-> IF c \in S THEN row[c] ELSE 0]]
    /\ UNCHANGED <<vault, cred, copy, excused>>

\* A request and keepalive list every row, a fetch goroutine is given one of them.
List(w) ==
    \/ w \notin Fetches /\ ListRows(w, Creds)
    \/ w \in Fetches /\ \E c \in Creds : ListRows(w, {c})

\* Mutated: keepalive leaves out the credentials a request would refresh anyway.
SkippedNear(w, c) == w \in Keepers

\* Keepalive passes over a copy that is not near expiry, and over one Refresh
\* hands back unchanged (credentialAdvanced).
Skipped(w, c) ==
    /\ w \in Keepers
    /\ NearExpiry(c, snap[w][c]) => c \in Identity

Skip(w, c) ==
    /\ pc[w] = "walk"
    /\ snap[w][c] # 0
    /\ Skipped(w, c)
    /\ snap' = [snap EXCEPT ![w][c] = 0]
    /\ UNCHANGED <<vault, pc, cred, copy, excused>>

\* Where the worker goes with a copy: refresh it first when it is near expiry.
FirstStep(c, gen) ==
    IF ~NearExpiry(c, gen) THEN "exec1"
    ELSE IF c \in Identity THEN "save1" ELSE "ask1"

Take(w, c) ==
    /\ pc[w] = "walk"
    /\ snap[w][c] # 0
    /\ ~Skipped(w, c)
    /\ pc' = [pc EXCEPT ![w] = FirstStep(c, snap[w][c])]
    /\ snap' = [snap EXCEPT ![w][c] = 0]
    /\ cred' = [cred EXCEPT ![w] = c]
    /\ copy' = [copy EXCEPT ![w] = snap[w][c]]
    /\ UNCHANGED <<vault, excused>>

WalkEnds(w) ==
    /\ pc[w] = "walk"
    /\ \A c \in Creds : snap[w][c] = 0
    /\ pc' = [pc EXCEPT ![w] = "idle"]
    /\ UNCHANGED <<vault, snap, cred, copy, excused>>

\* The worker is done with this credential and comes to the next copy of its list.
NextCopy(w) ==
    /\ pc' = [pc EXCEPT ![w] = "walk"]
    /\ cred' = [cred EXCEPT ![w] = NoCred]
    /\ copy' = [copy EXCEPT ![w] = 0]

--------------------------------------------------------------------------------
(* Refresh: the provider's token endpoint and its answer.                  *)

\* External: a rotating provider takes a refresh token only once.
Accepts(w) ==
    /\ pc[w] \in Asking
    /\ live[cred[w]] < MaxGen
    /\ cred[w] \in Rotating => copy[w] = live[cred[w]]

SaveStep(w) == IF pc[w] = "ask1" THEN "save1" ELSE "save2"

\* Mutated: the refreshed tokens stay in a variable of the inner block.
MintShadowed(w) ==
    /\ Accepts(w)
    /\ live' = [live EXCEPT ![cred[w]] = @ + 1]
    /\ pc' = [pc EXCEPT ![w] = SaveStep(w)]
    /\ UNCHANGED <<row, aged, snap, cred, copy, excused>>

\* The provider issues the next generation and the worker reads it.
Mint(w) ==
    /\ Accepts(w)
    /\ live' = [live EXCEPT ![cred[w]] = @ + 1]
    /\ copy' = [copy EXCEPT ![w] = live[cred[w]] + 1]
    /\ pc' = [pc EXCEPT ![w] = SaveStep(w)]
    /\ UNCHANGED <<row, aged, snap, cred, excused>>

\* The executors ignore the error of json.Unmarshal: a 200 whose body cannot be
\* read is a success that changes no token.  Keepalive then sees no advance.
MintUnread(w) ==
    /\ "unread" \in Faults
    /\ Accepts(w)
    /\ live' = [live EXCEPT ![cred[w]] = @ + 1]
    /\ excused' = excused \cup {cred[w]}
    /\ \/ /\ w \in Keepers
          /\ NextCopy(w)
       \/ /\ w \notin Keepers
          /\ pc' = [pc EXCEPT ![w] = SaveStep(w)]
          /\ UNCHANGED <<cred, copy>>
    /\ UNCHANGED <<row, aged, snap>>

\* Mutated: Save has moved out of the `err == nil` block.
AfterErrorSaves(w) ==
    /\ pc' = [pc EXCEPT ![w] = SaveStep(w)]
    /\ UNCHANGED <<cred, copy>>

\* A refresh that failed: a request or a fetch goes on with the old copy; keepalive,
\* and a request that came here from a 401 (retryable), take the next credential.
AfterError(w) ==
    \/ /\ pc[w] = "ask1"
       /\ w \notin Keepers
       /\ pc' = [pc EXCEPT ![w] = "exec1"]
       /\ UNCHANGED <<cred, copy>>
    \/ /\ pc[w] = "ask2" \/ w \in Keepers
       /\ NextCopy(w)

\* The answer is lost (timeout, or the client hung up and cancelled the request's
\* context): the provider has moved on, the worker sees an error.
MintLost(w) ==
    /\ "lost" \in Faults
    /\ Accepts(w)
    /\ live' = [live EXCEPT ![cred[w]] = @ + 1]
    /\ excused' = excused \cup {cred[w]}
    /\ AfterError(w)
    /\ UNCHANGED <<row, aged, snap>>

\* A spent refresh token, an outage, or the bound on generations.
Refuse(w) ==
    /\ pc[w] \in Asking
    /\ \/ cred[w] \in Rotating /\ copy[w] # live[cred[w]]
       \/ live[cred[w]] = MaxGen
       \/ "refused" \in Faults
    /\ AfterError(w)
    /\ UNCHANGED <<vault, snap, excused>>

--------------------------------------------------------------------------------
(* Save and execute.                                                       *)

AfterSave(w) ==
    \/ /\ w \in Keepers
       /\ NextCopy(w)
    \/ /\ w \notin Keepers
       /\ pc' = [pc EXCEPT ![w] = IF pc[w] = "save1" THEN "exec1" ELSE "exec2"]
       /\ UNCHANGED <<cred, copy>>

\* Vault.Save is an upsert: it overwrites whatever the row holds now, and a row
\* removed in the meantime is inserted again.
Save(w) ==
    /\ pc[w] \in Saving
    /\ row' = [row EXCEPT ![cred[w]] = copy[w]]
    /\ AfterSave(w)
    /\ UNCHANGED <<live, aged, snap, excused>>

\* Save's error is dropped (`_, _ =`) or logged: the worker goes on.
SaveFails(w) ==
    /\ "unsaved" \in Faults
    /\ pc[w] \in Saving
    /\ excused' = excused \cup {cred[w]}
    /\ AfterSave(w)
    /\ UNCHANGED <<vault, snap>>

\* Success, a failure that is not retryable, or the end of a fetch.
Finish(w) ==
    /\ pc[w] \in Executing
    /\ pc' = [pc EXCEPT ![w] = "idle"]
    /\ snap' = [snap EXCEPT ![w] = [c \in Creds |-> 0]]
    /\ cred' = [cred EXCEPT ![w] = NoCred]
    /\ copy' = [copy EXCEPT ![w] = 0]
    /\ UNCHANGED <<vault, excused>>

\* Execute answered 401 for the first time: refresh the local copy.
Unauthorized(w) ==
    /\ w \in Requests
    /\ pc[w] = "exec1"
    /\ pc' = [pc EXCEPT ![w] = IF cred[w] \in Identity THEN "save2" ELSE "ask2"]
    /\ UNCHANGED <<vault, snap, cred, copy, excused>>

\* A retryable failure: the request takes its next credential.
TryNext(w) ==
    /\ w \in Requests
    /\ pc[w] \in Executing
    /\ NextCopy(w)
    /\ UNCHANGED <<vault, snap, excused>>

\* Mutated: restarting forgets the keepalive and fetch goroutines.
CrashPartial ==
    /\ "crash" \in Faults
    /\ pc' = [w \in Requests |-> "idle"]
    /\ UNCHANGED <<vault, snap, cred, copy, excused>>

\* The process dies and starts again: the table is on disk, the copies are not.
Crash ==
    /\ "crash" \in Faults
    /\ pc' = [w \in Workers |-> "idle"]
    /\ snap' = [w \in Workers |-> [c \in Creds |-> 0]]
    /\ cred' = [w \in Workers |-> NoCred]
    /\ copy' = [w \in Workers |-> 0]
    /\ excused' = excused \cup {c \in Creds : \E w \in Workers : pc[w] \in Saving /\ cred[w] = c}
    /\ UNCHANGED vault

--------------------------------------------------------------------------------
Answer(w) == Mint(w) \/ MintUnread(w) \/ MintLost(w) \/ Refuse(w)

Proceed(w) ==
    \/ \E c \in Creds : Skip(w, c) \/ Take(w, c)
    \/ WalkEnds(w)
    \/ Answer(w)
    \/ Save(w) \/ SaveFails(w)
    \/ Finish(w) \/ Unauthorized(w) \/ TryNext(w)

Step(w) == List(w) \/ Proceed(w)

Panel == \E c \in Creds : Connect(c) \/ Remove(c) \/ Age(c)

Next == Panel \/ Crash \/ \E w \in Workers : Step(w)

Spec == Init /\ [][Next]_vars

\* Every goroutine that has started runs on, keepalive's ticker fires again and again,
\* and the provider answers each refresh in the end: the token calls carry no timeout
\* of their own, so the last is an assumption about it.  Nobody has to send requests.
FairSpec ==
    /\ Spec
    /\ \A w \in Workers : WF_vars(Proceed(w))
    /\ \A w \in Keepers : WF_vars(List(w))

--------------------------------------------------------------------------------
(* Properties.                                                             *)

\* Nobody ever holds, lists or stores a generation the provider has not issued, and
\* a worker has a credential in hand exactly while it refreshes, saves or executes.
Bounded ==
    /\ \A c \in Creds : row[c] <= live[c]
    /\ \A w \in Workers : \A c \in Creds : snap[w][c] <= live[c]
    /\ \A w \in Workers : cred[w] \in Creds => copy[w] \in 1 .. live[cred[w]]
    /\ \A w \in Workers : cred[w] = NoCred <=> pc[w] \in {"idle", "walk"}

Pending(w, c) == pc[w] \in Saving /\ cred[w] = c

\* While one worker is about to save a rotated credential, it is the only one, and
\* everything else that is stored, listed or held is older than the newest token.
OneSaver ==
    \A c \in Rotating : \A w \in Workers : Pending(w, c) =>
        /\ row[c] < live[c]
        /\ row[c] <= copy[w]
        /\ \A v \in Workers :
              /\ snap[v][c] < live[c]
              /\ v # w /\ cred[v] = c => copy[v] < live[c] /\ ~Pending(v, c)

\* The newest token of a rotating credential is in the vault, or with the one worker
\* that is about to save it, unless a fault or a removal has touched the credential.
\* A spent refresh token cannot be used again, so anything else means a new login.
NoTokenLost ==
    \A c \in Rotating \ excused : live[c] # 0 =>
        \/ row[c] = live[c]
        \/ \E w \in Workers : Pending(w, c) /\ copy[w] = live[c]

\* A save never puts an older token of a rotating credential over a newer one,
\* whatever the interleaving of requests, keepalive and fetches (Vault.Save does not
\* compare), and whatever answers, saves or processes are lost on the way.
NoStaleOverwrite ==
    [][\A c \in Rotating : row'[c] # 0 => row'[c] >= row[c]]_vars

Held(c) == \E w \in Workers : cred[w] = c \/ snap[w][c] # 0

\* Save may bring a removed row back, but only as long as some goroutine has a copy it
\* listed before the removal: when none is left, nobody lists or saves it again.
Settled(c) == live[c] # 0 /\ row[c] = 0 /\ ~Held(c)
RemovalSettles == [][\A c \in Creds : Settled(c) => Settled(c)']_vars

\* Keepalive does its work: a rotating credential that is near expiry in the vault is
\* replaced by a fresh one, however requests and fetches interfere, unless a fault or a
\* removal touches it.
Freshened ==
    \A c \in Rotating :
        NearExpiry(c, row[c]) /\ row[c] # 0 ~> ~NearExpiry(c, row[c]) \/ c \in excused

HasNewest(w, c) ==
    \/ snap[w][c] = live[c]
    \/ cred[w] = c /\ copy[w] = live[c]

\* Refinement mapping: where the newest token of a rotating credential is.
Place(c) ==
    IF live[c] = 0 THEN "none"
    ELSE IF row[c] = live[c] THEN "vault"
    ELSE IF \E w \in Workers : HasNewest(w, c) THEN "hand"
    ELSE "gone"

Custody == INSTANCE TokenCustody WITH
    Creds <- Rotating,
    place <- [c \in Rotating |-> Place(c)],
    touched <- excused \cap Rotating

\* Every behaviour of the code is one of TokenCustody: the newest token moves between
\* the row and one worker's hands, a lost token never comes back, and (with the
\* goroutines scheduled) a token in somebody's hands is saved or lost in the end.
ImplementsCustody == Custody!Spec
================================================================================
