------------------------------- MODULE AgentURL -------------------------------
(***************************************************************************)
(* ResolveAgentURL of internal/provider/cursor/agenturl.go: the cache of     *)
(* agent origins by access token with one fetch under way per key.          *)
(***************************************************************************)
EXTENDS Integers, FiniteSets

CONSTANTS
    Callers,   \* goroutines that need the agent URL
    Tokens     \* cache keys: hashes of the access tokens

VARIABLES
    override,  \* CURSOR_AGENT_URL: "unset", "valid" or "invalid"
    resolved,  \* tokens whose origin is cached
    inflight,  \* the goroutine that fetches for a token, as the set of <<t, u>>
    at,        \* a caller: "new", "fetching", "waiting", "reading", "url", "error"
    token,     \* the token it asks with
    awaited,   \* the leader whose channel it waits for
    failed     \* leaders whose fetch failed

vars == <<override, resolved, inflight, at, token, awaited, failed>>

TypeOK ==
    /\ override \in {"unset", "valid", "invalid"}
    /\ resolved \subseteq Tokens /\ failed \subseteq Callers
    /\ inflight \subseteq Tokens \X Callers
    /\ at \in [Callers -> {"new", "fetching", "waiting", "reading", "url", "error"}]
    /\ token \in [Callers -> Tokens]
    /\ awaited \in [Callers -> Callers]

\* Nobody waits for himself: awaited[u] = u until u waits.
Init ==
    /\ override \in {"unset", "valid", "invalid"}
    /\ resolved = {} /\ inflight = {} /\ failed = {}
    /\ at = [u \in Callers |-> "new"]
    /\ token \in [Callers -> Tokens]
    /\ awaited = [u \in Callers |-> u]

Goes(u, s) == at' = [at EXCEPT ![u] = s]

Overridden(u) ==
    /\ at[u] = "new" /\ override # "unset"
    /\ Goes(u, IF override = "valid" THEN "url" ELSE "error")
    /\ UNCHANGED <<override, resolved, inflight, token, awaited, failed>>

\* The first look under the lock.
Hit(u) ==
    /\ at[u] = "new" /\ override = "unset" /\ token[u] \in resolved
    /\ Goes(u, "url")
    /\ UNCHANGED <<override, resolved, inflight, token, awaited, failed>>

Join(u) ==
    /\ at[u] = "new" /\ override = "unset" /\ token[u] \notin resolved
    /\ \E v \in Callers :
          /\ <<token[u], v>> \in inflight
          /\ awaited' = [awaited EXCEPT ![u] = v]
    /\ Goes(u, "waiting")
    /\ UNCHANGED <<override, resolved, inflight, token, failed>>

\* Mutated: a caller starts its own fetch without looking for another one.
LeadAlone(u) ==
    /\ at[u] = "new" /\ override = "unset" /\ token[u] \notin resolved
    /\ inflight' = inflight \cup {<<token[u], u>>}
    /\ Goes(u, "fetching")
    /\ UNCHANGED <<override, resolved, token, awaited, failed>>

Lead(u) ==
    /\ at[u] = "new" /\ override = "unset" /\ token[u] \notin resolved
    /\ \A v \in Callers : <<token[u], v>> \notin inflight
    /\ inflight' = inflight \cup {<<token[u], u>>}
    /\ Goes(u, "fetching")
    /\ UNCHANGED <<override, resolved, token, awaited, failed>>

\* Mutated: an error returns before the entry is deleted and the channel closed.
FetchedEarly(u) ==
    /\ at[u] = "fetching"
    /\ \/ /\ resolved' = resolved \cup {token[u]} /\ Goes(u, "url")
          /\ inflight' = inflight \ {<<token[u], u>>}
          /\ UNCHANGED failed
       \/ failed' = failed \cup {u} /\ Goes(u, "error") /\ UNCHANGED <<resolved, inflight>>
    /\ UNCHANGED <<override, token, awaited>>

\* The leader's fetch is over, in an origin or an error (its own context, the 8
\* seconds, the status, the body): one section deletes the entry, stores the
\* origin and closes the channel.
Fetched(u) ==
    /\ at[u] = "fetching"
    /\ inflight' = inflight \ {<<token[u], u>>}
    /\ \/ resolved' = resolved \cup {token[u]} /\ Goes(u, "url") /\ UNCHANGED failed
       \/ failed' = failed \cup {u} /\ Goes(u, "error") /\ UNCHANGED resolved
    /\ UNCHANGED <<override, token, awaited>>

\* A waiter is not woken by its own context, only by the channel.
Woken(u) ==
    /\ at[u] = "waiting" /\ <<token[u], awaited[u]>> \notin inflight
    /\ Goes(u, "reading")
    /\ UNCHANGED <<override, resolved, inflight, token, awaited, failed>>

Reread(u) ==
    /\ at[u] = "reading"
    /\ Goes(u, IF token[u] \in resolved THEN "url" ELSE "error")
    /\ UNCHANGED <<override, resolved, inflight, token, awaited, failed>>

Step(u) == Overridden(u) \/ Hit(u) \/ Join(u) \/ Lead(u) \/ Woken(u) \/ Reread(u)
Next == \E u \in Callers : Step(u) \/ Fetched(u)

\* Goroutines that can go on do; a fetch ends, its context has 8 seconds.
Fairness == \A u \in Callers : WF_vars(Step(u)) /\ WF_vars(Fetched(u))
Spec == Init /\ [][Next]_vars /\ Fairness

--------------------------------------------------------------------------------

\* One fetch per key at a time, and none for a key whose origin is known.
OneFetch ==
    /\ \A t \in Tokens : Cardinality({u \in Callers : <<t, u>> \in inflight}) <= 1
    /\ \A u \in Callers : at[u] = "fetching" =>
          token[u] \notin resolved /\ <<token[u], u>> \in inflight

\* A caller fails only when a fetch failed, his own or the one he waited for: a
\* result that came is not lost on the way to those who waited for it.
FailsWithLeader ==
    \A u \in Callers :
        at[u] = "error" /\ override = "unset" => u \in failed \/ awaited[u] \in failed

\* Who asks gets an answer in the end, also who waits for a leader that fails.
Pending == \E u \in Callers : at[u] \notin {"url", "error"}
================================================================================
