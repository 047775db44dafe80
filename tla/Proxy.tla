--------------------------------- MODULE Proxy ---------------------------------
(***************************************************************************)
(* internal/proxy/proxy.go: Proxy, one goroutine per request, all of them   *)
(* over one vault and one sticky map.  A request resolves its provider      *)
(* chain once, and then, hop by hop, lists the credentials of the provider  *)
(* and works down its own copy of that list, while the panel connects and   *)
(* removes credentials under it.  Every wait for a provider is a step       *)
(* boundary.  What a refresh does to the tokens is the module               *)
(* CredentialRefresh; the sum behind the daily cap is the module DailyCap.  *)
(***************************************************************************)
EXTENDS ProviderChain

CONSTANTS
    Keys,       \* local keys
    Requests,   \* requests, each made once
    KeyOf,      \* the key of each request
    Streaming,  \* the requests that ask for a stream
    Scope,      \* the providers whose hop Allows lets the key use
    Capped,     \* keys with a daily cap
    Models,     \* the model names asked for, as records of ProviderChain
    Toggles,    \* bound: the values the failover toggle takes
    Faults,     \* which faults the environment may inject
    None        \* no credential

ASSUME RequestsAssumption ==
    /\ KeyOf \in [Requests -> Keys]
    /\ Scope \in [Keys -> SUBSET Providers]
    /\ Capped \subseteq Keys
    /\ Streaming \subseteq Requests
    /\ None \notin Creds

ASSUME ModelsAssumption ==
    /\ Models \subseteq Model
    /\ \A m \in Models : /\ m.rule = "native" => m.provider \in {"claude", "codex", "grok"}
                         /\ m.rule \in {"opencode", "cursor"} => m.slug = NoSlug

ASSUME BoundsAssumption ==
    /\ Faults \subseteq {"store", "record", "crash"}
    /\ Toggles \subseteq BOOLEAN

VARIABLES
    rows,      \* the credentials table, in the order of created_at
    gone,      \* ids the panel has removed: never issued again
    failover,  \* the panel toggle that lets Grok and Cursor stand in for each other
    sticky,    \* the map `sticky`: which credential last served a key
    pc, model, \* where a request is, and what it asked for
    chain,     \* the hops still to go, the current one first
    todo,      \* the credentials still to try at this hop, the current one first
    last,      \* what `last` holds: how the last attempt went
    reply,     \* what the client was answered
    metered,   \* usage events recorded for the request
    tried,     \* history: credentials Execute has answered for
    failed,    \* history: those among them whose last answer was a failure
    owed,      \* history: credentials the chain leads to, stored ever since it was resolved
    excused    \* history: requests hit by an injected fault

panel == <<gone, failover>>
locals == <<chain, todo, last>>
requests == <<pc, model, locals, reply, metered>>
vars == <<rows, panel, sticky, requests, tried, failed, owed, excused>>

Running == {"cap", "hop", "turn", "refresh1", "exec1", "refresh2", "exec2"}
PC == {"new", "stream", "left", "done"} \cup Running

Retryable == {"401", "retry"}               \* IsRetryableStatus
Failure == Retryable \cup {"fatal"}         \* how an executed attempt can fail
Skip == {"403", "503"}                      \* how a hop is passed over
Reply == Failure \cup Skip \cup {"none", "refused", "ok", "stream", "error"}

TypeOK ==
    /\ ToSet(rows) \subseteq Creds /\ IsInjective(rows)
    /\ gone \subseteq Creds
    /\ failover \in Toggles
    /\ sticky \in [Keys -> Creds \cup {None}]
    /\ pc \in [Requests -> PC]
    /\ \A r \in Requests : pc[r] # "new" => model[r] \in Models
    /\ \A r \in Requests : ToSet(chain[r]) \subseteq Providers /\ IsInjective(chain[r])
    /\ \A r \in Requests : ToSet(todo[r]) \subseteq Creds
    /\ last \in [Requests -> Failure \cup Skip \cup {"none"}]
    /\ reply \in [Requests -> Reply]
    /\ metered \in [Requests -> Nat]
    /\ tried \in [Requests -> SUBSET Creds] /\ failed \in [Requests -> SUBSET Creds]
    /\ owed \in [Requests -> SUBSET Creds]
    /\ excused \subseteq Requests

Init ==
    /\ rows = << >> /\ gone = {} /\ failover \in Toggles
    /\ sticky = [k \in Keys |-> None]
    /\ pc = [r \in Requests |-> "new"]
    /\ model = [r \in Requests |-> None]
    /\ chain = [r \in Requests |-> << >>]
    /\ todo = [r \in Requests |-> << >>]
    /\ last = [r \in Requests |-> "none"]
    /\ reply = [r \in Requests |-> "none"]
    /\ metered = [r \in Requests |-> 0]
    /\ tried = [r \in Requests |-> {}] /\ failed = [r \in Requests |-> {}]
    /\ owed = [r \in Requests |-> {}]
    /\ excused = {}

--------------------------------------------------------------------------------
(* The panel.                                                              *)

Connect(c) ==
    /\ c \notin ToSet(rows) \cup gone
    /\ rows' = Append(rows, c)
    /\ UNCHANGED <<panel, sticky, requests, tried, failed, owed, excused>>

Disconnect(c) ==
    /\ c \in ToSet(rows)
    /\ rows' = Kept(rows, Creds \ {c})
    /\ gone' = gone \cup {c}
    /\ owed' = [r \in Requests |-> owed[r] \ {c}]
    /\ UNCHANGED <<failover, sticky, requests, tried, failed, excused>>

Toggle ==
    /\ failover' \in Toggles \ {failover}
    /\ UNCHANGED <<rows, gone, sticky, requests, tried, failed, owed, excused>>

--------------------------------------------------------------------------------
(* Ends of a request.                                                      *)

\* Proxy returns: its locals are gone.
Return(r) ==
    /\ chain' = [chain EXCEPT ![r] = << >>]
    /\ todo' = [todo EXCEPT ![r] = << >>]
    /\ last' = [last EXCEPT ![r] = "none"]

Answer(r, what) ==
    /\ pc' = [pc EXCEPT ![r] = "done"]
    /\ reply' = [reply EXCEPT ![r] = what]
    /\ Return(r)

\* record(): one row in usage_events; an insert that fails is dropped.
Record(r) ==
    \/ metered' = [metered EXCEPT ![r] = @ + 1] /\ UNCHANGED excused
    \/ "record" \in Faults /\ excused' = excused \cup {r} /\ UNCHANGED metered

\* An error of the store ends the request without a usage event.
StoreFails(r) ==
    /\ "store" \in Faults
    /\ Answer(r, "error")
    /\ excused' = excused \cup {r}
    /\ UNCHANGED metered

--------------------------------------------------------------------------------
(* The request, up to its first hop.                                       *)

\* What the chain leads to, for the key: scopes are looked at hop by hop.
LeadsTo(hops, r, m) ==
    {c \in ToSet(rows) : \E p \in ToSet(hops) \cap Scope[KeyOf[r]] : Serves(c, p, m)}

\* No model, or a model no provider of this instance serves, is refused at once.
Arrive(r, m) ==
    LET hops == ResolveChain(m, rows, failover)
    IN  /\ pc[r] = "new"
        /\ model' = [model EXCEPT ![r] = m]
        /\ owed' = [owed EXCEPT ![r] = LeadsTo(hops, r, m)]
        /\ \/ hops = << >> /\ Answer(r, "refused")
           \/ /\ hops # << >>
              /\ chain' = [chain EXCEPT ![r] = hops]
              /\ pc' = [pc EXCEPT ![r] = IF KeyOf[r] \in Capped THEN "cap" ELSE "hop"]
              /\ UNCHANGED <<todo, last, reply>>
        /\ UNCHANGED <<rows, panel, sticky, metered, tried, failed, excused>>

\* The sum of today's tokens is below the cap, or not (429), or cannot be read.
CheckCap(r) ==
    /\ pc[r] = "cap"
    /\ \/ /\ pc' = [pc EXCEPT ![r] = "hop"]
          /\ UNCHANGED <<locals, reply, metered, excused>>
       \/ Answer(r, "refused") /\ UNCHANGED <<metered, excused>>
       \/ StoreFails(r)
    /\ UNCHANGED <<rows, panel, sticky, model, tried, failed, owed>>

--------------------------------------------------------------------------------
(* The loop over the hops.                                                 *)

\* Mutated: a hop that is passed over is recorded as an error at once.
PassOverRecorded(r, why) ==
    /\ last' = [last EXCEPT ![r] = why]
    /\ chain' = [chain EXCEPT ![r] = Tail(@)]
    /\ Record(r)
    /\ UNCHANGED <<pc, todo, reply>>

PassOver(r, why) ==
    /\ last' = [last EXCEPT ![r] = why]
    /\ chain' = [chain EXCEPT ![r] = Tail(@)]
    /\ UNCHANGED <<pc, todo, reply, metered, excused>>

TryHop(r) ==
    LET p == Head(chain[r])
        creds == PickCredentials(p, model[r], rows, sticky[KeyOf[r]])
    IN  /\ pc[r] = "hop"
        /\ chain[r] # << >>
        /\ \/ p \notin Scope[KeyOf[r]] /\ PassOver(r, "403")
           \/ p \in Scope[KeyOf[r]] /\ creds = << >> /\ PassOver(r, "503")
           \/ /\ p \in Scope[KeyOf[r]]
              /\ creds # << >>
              /\ todo' = [todo EXCEPT ![r] = creds]
              /\ pc' = [pc EXCEPT ![r] = "turn"]
              /\ UNCHANGED <<chain, last, reply, metered, excused>>
           \/ p \in Scope[KeyOf[r]] /\ StoreFails(r)
        /\ UNCHANGED <<rows, panel, sticky, model, tried, failed, owed>>

\* The last hop was passed over: the request is answered with `last`.
HopsEnd(r) ==
    /\ pc[r] = "hop"
    /\ chain[r] = << >>
    /\ Record(r)
    /\ Answer(r, last[r])
    /\ UNCHANGED <<rows, panel, sticky, model, tried, failed, owed>>

--------------------------------------------------------------------------------
(* The loop over the credentials of a hop.                                 *)

\* The copy is near expiry, or not: the clock decides.
Turn(r) ==
    /\ pc[r] = "turn"
    /\ \E next \in {"refresh1", "exec1"} : pc' = [pc EXCEPT ![r] = next]
    /\ UNCHANGED <<rows, panel, sticky, model, locals, reply, metered, tried, failed, owed,
                   excused>>

\* Mutated: Save inserts whatever is there.
SaveAppends(c) == rows' = Append(rows, c)

\* Vault.Save updates the row or, when the panel has removed it, inserts it again.
SaveRow(c) == rows' = IF c \in ToSet(rows) THEN rows ELSE Append(rows, c)

Refreshed(r) ==
    /\ pc[r] \in {"refresh1", "refresh2"}
    /\ pc' = [pc EXCEPT ![r] = IF @ = "refresh1" THEN "exec1" ELSE "exec2"]
    /\ SaveRow(Head(todo[r])) \/ ("store" \in Faults /\ UNCHANGED rows)
    /\ UNCHANGED <<panel, sticky, model, locals, reply, metered, tried, failed, owed, excused>>

\* Mutated: the last credential but one ends the loop.
FailEarly(r, how) ==
    \/ /\ how \in Retryable
       /\ Len(todo[r]) > 2
       /\ last' = [last EXCEPT ![r] = how]
       /\ todo' = [todo EXCEPT ![r] = Tail(@)]
       /\ pc' = [pc EXCEPT ![r] = "turn"]
       /\ UNCHANGED <<chain, reply, metered, excused>>
    \/ /\ how \in Retryable
       /\ Len(todo[r]) <= 2
       /\ Len(chain[r]) > 1
       /\ last' = [last EXCEPT ![r] = how]
       /\ todo' = [todo EXCEPT ![r] = << >>]
       /\ chain' = [chain EXCEPT ![r] = Tail(@)]
       /\ pc' = [pc EXCEPT ![r] = "hop"]
       /\ UNCHANGED <<reply, metered, excused>>
    \/ /\ how \in Retryable => Len(todo[r]) <= 2 /\ Len(chain[r]) = 1
       /\ Record(r)
       /\ Answer(r, how)

\* Mutated: the loop tries the same credential again.
FailInPlace(r, how) ==
    \/ /\ how \in Retryable
       /\ last' = [last EXCEPT ![r] = how]
       /\ pc' = [pc EXCEPT ![r] = "turn"]
       /\ UNCHANGED <<chain, todo, reply, metered, excused>>
    \/ /\ how \notin Retryable
       /\ Record(r)
       /\ Answer(r, how)

\* An attempt failed: the next credential, the next hop, or the answer.
Fail(r, how) ==
    \/ /\ how \in Retryable
       /\ Len(todo[r]) > 1
       /\ last' = [last EXCEPT ![r] = how]
       /\ todo' = [todo EXCEPT ![r] = Tail(@)]
       /\ pc' = [pc EXCEPT ![r] = "turn"]
       /\ UNCHANGED <<chain, reply, metered, excused>>
    \/ /\ how \in Retryable
       /\ Len(todo[r]) = 1
       /\ Len(chain[r]) > 1
       /\ last' = [last EXCEPT ![r] = how]
       /\ todo' = [todo EXCEPT ![r] = << >>]
       /\ chain' = [chain EXCEPT ![r] = Tail(@)]
       /\ pc' = [pc EXCEPT ![r] = "hop"]
       /\ UNCHANGED <<reply, metered, excused>>
    \/ /\ how \in Retryable => Len(todo[r]) = 1 /\ Len(chain[r]) = 1
       /\ Record(r)
       /\ Answer(r, how)

\* Refresh failed: near expiry the old copy is tried all the same, after a 401
\* the 401 stands.
RefreshFails(r) ==
    /\ \/ /\ pc[r] = "refresh1"
          /\ pc' = [pc EXCEPT ![r] = "exec1"]
          /\ UNCHANGED <<locals, reply, metered, excused>>
       \/ pc[r] = "refresh2" /\ Fail(r, "401")
    /\ UNCHANGED <<rows, panel, sticky, model, tried, failed, owed>>

Executing(r) == pc[r] \in {"exec1", "exec2"}
Attempted(r) == tried' = [tried EXCEPT ![r] = @ \cup {Head(todo[r])}]
InVain(r) == failed' = [failed EXCEPT ![r] = @ \cup {Head(todo[r])}]

\* The first 401 of a credential asks for a refresh and one more attempt.
Unauthorized(r) ==
    /\ pc[r] = "exec1"
    /\ Attempted(r) /\ InVain(r)
    /\ pc' = [pc EXCEPT ![r] = "refresh2"]
    /\ UNCHANGED <<rows, panel, sticky, model, locals, reply, metered, owed, excused>>

Failed(r) ==
    /\ Executing(r)
    /\ Attempted(r) /\ InVain(r)
    /\ \E how \in Failure : (pc[r] = "exec1" => how # "401") /\ Fail(r, how)
    /\ UNCHANGED <<rows, panel, sticky, model, owed>>

--------------------------------------------------------------------------------
(* Success, and the stream after it.                                       *)

\* Mutated: the first credential of the list sticks, whichever of them answered.
SticksFirst(r) ==
    \E c \in failed[r] \cup {Head(todo[r])} : sticky' = [sticky EXCEPT ![KeyOf[r]] = c]

Sticks(r) == sticky' = [sticky EXCEPT ![KeyOf[r]] = Head(todo[r])]

\* sticky.Store comes first; a stream is answered before it is recorded.
Succeeded(r) ==
    /\ Executing(r)
    /\ Attempted(r)
    /\ failed' = [failed EXCEPT ![r] = @ \ {Head(todo[r])}]
    /\ Sticks(r)
    /\ \/ r \notin Streaming /\ Record(r) /\ Answer(r, "ok")
       \/ /\ r \in Streaming
          /\ reply' = [reply EXCEPT ![r] = "stream"]
          /\ pc' = [pc EXCEPT ![r] = "stream"]
          /\ Return(r)
          /\ UNCHANGED <<metered, excused>>
    /\ UNCHANGED <<rows, panel, model, owed>>

StreamEnds(r) ==
    /\ pc[r] = "stream"
    /\ pc' = [pc EXCEPT ![r] = "done"]
    /\ Record(r)
    /\ UNCHANGED <<rows, panel, sticky, model, locals, reply, tried, failed, owed>>

\* StreamSSE returns without draining the unbuffered channel, so the goroutine
\* that still has a line to send waits for ever and never records (StreamPipe).
ClientLeaves(r) ==
    /\ pc[r] = "stream"
    /\ pc' = [pc EXCEPT ![r] = "left"]
    /\ UNCHANGED <<rows, panel, sticky, model, locals, reply, metered, tried, failed, owed,
                   excused>>

\* The upstream breaks off while the goroutine has nothing to send.
LeftEnds(r) ==
    /\ pc[r] = "left"
    /\ pc' = [pc EXCEPT ![r] = "done"]
    /\ Record(r)
    /\ UNCHANGED <<rows, panel, sticky, model, locals, reply, tried, failed, owed>>

\* The process stops: what is in flight is lost, and the map sticky with it.
Crash ==
    LET cut == {r \in Requests : pc[r] \in Running \cup {"stream", "left"}}
    IN  /\ "crash" \in Faults
        /\ cut # {}
        /\ pc' = [r \in Requests |-> IF r \in cut THEN "done" ELSE pc[r]]
        /\ chain' = [r \in Requests |-> << >>]
        /\ todo' = [r \in Requests |-> << >>]
        /\ last' = [r \in Requests |-> "none"]
        /\ sticky' = [k \in Keys |-> None]
        /\ excused' = excused \cup cut
        /\ UNCHANGED <<rows, panel, model, reply, metered, tried, failed, owed>>

--------------------------------------------------------------------------------

Step(r) ==
    \/ CheckCap(r) \/ TryHop(r) \/ HopsEnd(r)
    \/ Turn(r) \/ Refreshed(r) \/ RefreshFails(r)
    \/ Unauthorized(r) \/ Failed(r) \/ Succeeded(r) \/ StreamEnds(r)

Next ==
    \/ \E c \in Creds : Connect(c) \/ Disconnect(c)
    \/ Toggle
    \/ \E r \in Requests, m \in Models : Arrive(r, m)
    \/ \E r \in Requests : Step(r) \/ ClientLeaves(r) \/ LeftEnds(r)
    \/ Crash

Spec == Init /\ [][Next]_vars

\* A goroutine that can run runs, a provider answers or its connection breaks,
\* and a stream ends: nothing is assumed of clients and of the panel.
FairSpec == Spec /\ \A r \in Requests : WF_vars(Step(r))

--------------------------------------------------------------------------------
(* Properties.                                                             *)

Working(r) == pc[r] \in {"turn", "refresh1", "exec1", "refresh2", "exec2"}

\* A request goes behind a hop only when every credential of the hops before it
\* that has been stored all along was tried: a native name reaches Cursor only
\* behind its own provider, whatever the panel and other requests do meanwhile.
HopsInOrder ==
    \A r \in Requests : Working(r) =>
        \A c \in owed[r] : ProviderOf[c] \in ToSet(chain[r]) \/ c \in tried[r]

\* A request that is told a retryable failure, or that a hop was passed over, was
\* tried on every credential its chain leads to and that was stored all along.
FailoverComplete ==
    \A r \in Requests : reply[r] \in Retryable \cup Skip => owed[r] \subseteq tried[r]

\* No credential gets a second turn: moving the sticky one to the front does not
\* leave it behind too, and no two hops share one.
TriedOnce ==
    \A r \in Requests : pc[r] \in {"turn", "refresh1", "exec1"} =>
        /\ tried[r] \cap ToSet(todo[r]) = {}
        /\ IsInjective(todo[r])

\* The sticky credential of a key has served a request of that key: it answered, as
\* its last answer in that request, and not with a failure.  One that failed earlier
\* in a request which another credential then served does not stick.
StickyServed ==
    \A k \in Keys : sticky[k] # None =>
        \E r \in Requests : /\ KeyOf[r] = k
                            /\ reply[r] \in {"ok", "stream"}
                            /\ sticky[k] \in tried[r] \ failed[r]

\* Whatever the retries and failovers, a request that was let in leaves exactly one
\* usage event when it is over, and none before; one that was refused leaves none.
\* A client that leaves in the middle of its stream leaves none while the goroutine
\* behind the stream still has a line for it.
MeteredOnce ==
    \A r \in Requests \ excused :
        metered[r] = IF pc[r] = "done" /\ reply[r] # "refused" THEN 1 ELSE 0

\* Every request is answered, its stream brought to an end or left by its client.
Answered == \A r \in Requests : pc[r] # "new" ~> pc[r] \in {"done", "left"}
================================================================================
