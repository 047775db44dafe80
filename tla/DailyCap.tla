------------------------------- MODULE DailyCap --------------------------------
(***************************************************************************)
(* The daily token cap of a local key: requireLocalKey and KeyStore.Verify, *)
(* the check at the top of Proxy (internal/proxy/proxy.go), the sum         *)
(* UsageStore.TodayTokensForKey it reads, and record at the end.  The check *)
(* reads what finished requests have used, long before the request itself   *)
(* adds to it, and nothing is reserved in between: requests that are under  *)
(* way are not counted.                                                    *)
(*                                                                         *)
(* A request is a slot that is used again and again, so the number of       *)
(* requests is unbounded and only their concurrency is a parameter.         *)
(***************************************************************************)
EXTENDS Integers, FiniteSets

CONSTANTS
    Keys,       \* local keys that have a daily cap
    Cap,        \* the cap of each key, in tokens
    Requests,   \* slots: how many requests are under way at once
    MaxTokens,  \* the most tokens one request uses
    NoKey       \* the slot is free

ASSUME CapAssumption ==
    /\ Cap \in [Keys -> Nat]
    /\ MaxTokens \in Nat \ {0}
    /\ NoKey \notin Keys

ASSUME SlotsAssumption == IsFiniteSet(Requests) /\ Requests # {}

VARIABLES
    revoked,  \* keys the panel has revoked
    spent,    \* spent[k]: what TodayTokensForKey sums for the key
    pc,       \* "idle", "check" (the key is verified), "run" (past the check)
    key       \* the key of the request in a slot

vars == <<revoked, spent, pc, key>>

TypeOK ==
    /\ revoked \subseteq Keys
    /\ spent \in [Keys -> Nat]
    /\ pc \in [Requests -> {"idle", "check", "run"}]
    /\ key \in [Requests -> Keys \cup {NoKey}]
    /\ \A r \in Requests : pc[r] # "idle" => key[r] \in Keys

Init ==
    /\ revoked = {}
    /\ spent = [k \in Keys |-> 0]
    /\ pc = [r \in Requests |-> "idle"]
    /\ key = [r \in Requests |-> NoKey]

Free(r) ==
    /\ pc' = [pc EXCEPT ![r] = "idle"]
    /\ key' = [key EXCEPT ![r] = NoKey]

\* A revoked key is answered 401 and leaves no trace.
Verify(r, k) ==
    /\ pc[r] = "idle"
    /\ k \notin revoked
    /\ pc' = [pc EXCEPT ![r] = "check"]
    /\ key' = [key EXCEPT ![r] = k]
    /\ UNCHANGED <<revoked, spent>>

\* Mutated: the cap itself is still let through.
AdmitAtCap(r) ==
    /\ pc[r] = "check"
    /\ spent[key[r]] <= Cap[key[r]]
    /\ pc' = [pc EXCEPT ![r] = "run"]
    /\ UNCHANGED <<revoked, spent, key>>

Admit(r) ==
    /\ pc[r] = "check"
    /\ spent[key[r]] < Cap[key[r]]
    /\ pc' = [pc EXCEPT ![r] = "run"]
    /\ UNCHANGED <<revoked, spent, key>>

\* 429, "daily token cap reached".
Refuse(r) ==
    /\ pc[r] = "check"
    /\ spent[key[r]] >= Cap[key[r]]
    /\ Free(r)
    /\ UNCHANGED <<revoked, spent>>

\* Whatever the day the request began, its tokens count for the day it ends; a
\* failed request is recorded with none.
Record(r, tokens) ==
    /\ pc[r] = "run"
    /\ spent' = [spent EXCEPT ![key[r]] = @ + tokens]
    /\ Free(r)
    /\ UNCHANGED revoked

\* The store fails, the client leaves in mid-stream, or the program stops.
Unrecorded(r) ==
    /\ pc[r] # "idle"
    /\ Free(r)
    /\ UNCHANGED <<revoked, spent>>

Revoke(k) ==
    /\ revoked' = revoked \cup {k}
    /\ UNCHANGED <<spent, pc, key>>

\* The sum starts at startOfUTCDay; requests under way stay so.
Midnight ==
    /\ spent' = [k \in Keys |-> 0]
    /\ UNCHANGED <<revoked, pc, key>>

Next ==
    \/ \E r \in Requests :
          \/ \E k \in Keys : Verify(r, k)
          \/ Admit(r)
          \/ Refuse(r)
          \/ \E tokens \in 0 .. MaxTokens : Record(r, tokens)
          \/ Unrecorded(r)
    \/ \E k \in Keys : Revoke(k)
    \/ Midnight

Spec == Init /\ [][Next]_vars

--------------------------------------------------------------------------------

UnderWay(k) == {r \in Requests : pc[r] = "run" /\ key[r] = k}

\* A day never goes further over the cap than the requests that can be under way
\* at once may use: the check is not atomic with the record, and this is all it costs.
Overshoot == \A k \in Keys : spent[k] <= Cap[k] - 1 + MaxTokens * Cardinality(Requests)

\* The strengthening that is inductive: what is under way is already paid for.
Reserved ==
    \A k \in Keys : spent[k] + MaxTokens * Cardinality(UnderWay(k))
                      <= Cap[k] - 1 + MaxTokens * Cardinality(Requests)

IInv == TypeOK /\ Reserved
================================================================================
