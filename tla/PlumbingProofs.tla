----------------------------- MODULE PlumbingProofs -----------------------------
(* Proofs about the parts that MCPlumbing puts side by side: the request timeout  *)
(* (T), the agent URL cache (U), the device logins (D) and the connection pool    *)
(* (P).  Each part has an inductive invariant of its own, in a section of its own. *)
EXTENDS MCPlumbing, FiniteSetTheorems, SequenceTheorems, TLAPS

\* The cardinality the instances mean is the one the lemmas on finite sets are about.
LEMMA SameCardinality ==
    ASSUME NEW X
    PROVE  /\ U!Cardinality(X) = Cardinality(X) /\ D!Cardinality(X) = Cardinality(X)
           /\ P!Cardinality(X) = Cardinality(X)
  BY Zenon DEF U!Cardinality, D!Cardinality, P!Cardinality, Cardinality

--------------------------------------------------------------------------------
(* The request timeout: one answer, made of all that was accepted, and none that *)
(* is thrown away, however many chunks a handler writes.                      *)

USE DEF tvars, T!vars, T!writer

\* The types the argument needs; the bound on chunks plays no part in it.
AnswerTypes ==
    /\ guard \in {"arrived", "direct", "waiting", "copying", "answered"}
    /\ handler \in {"off", "running", "header", "returned", "panicked"}
    /\ wrote \in BOOLEAN /\ flushed \in BOOLEAN
    /\ buf \in Nat /\ accepted \in Nat /\ answers \in Nat
    /\ reply \in [status: {"none", "rejected", "handler", "timeout", "torn"}, chunks: Nat]

\* Before the answer under Guard: nothing is out, and the buffer has what was accepted.
Buffering ==
    guard \in {"arrived", "waiting", "copying"} =>
        answers = 0 /\ reply = T!NoReply /\ buf = accepted

\* A direct route: the client has what was accepted, under one status line.
Streaming ==
    guard = "direct" =>
        answers = (IF wrote THEN 1 ELSE 0) /\ reply.chunks = accepted

\* Once the answer is taken nothing can be written that would miss it.
Sealed ==
    /\ guard = "arrived" => handler = "off" /\ ~wrote
    /\ guard = "copying" => flushed /\ (wrote \/ T!Closed)
    /\ guard = "answered" /\ reply.status = "handler" =>
          reply.chunks = accepted /\ (flushed \/ T!Closed)
    /\ handler = "header" => ~wrote
    /\ ~wrote => accepted = 0

AnswerInv == AnswerTypes /\ T!OneAnswer /\ Buffering /\ Streaming /\ Sealed

\* The request arrives with nothing written.
LEMMA AnswerInit == T!Init => AnswerInv
  <1> SUFFICES ASSUME T!Init PROVE AnswerInv
    OBVIOUS
  <1>1. AnswerTypes
    BY DEF T!Init, AnswerTypes, T!NoReply
  <1>2. T!OneAnswer /\ Buffering /\ Streaming /\ Sealed
    BY DEF T!Init, T!OneAnswer, Buffering, Streaming, Sealed, T!Closed
  <1> QED
    BY <1>1, <1>2 DEF AnswerInv

\* What Guard does before the select and with the deadline.
LEMMA GuardBegins ==
    ASSUME AnswerInv, T!Reject \/ T!Pass \/ T!Watch \/ T!Deadline
    PROVE  AnswerInv'
  <1> USE DEF AnswerInv, AnswerTypes, T!OneAnswer, Buffering, Streaming, Sealed, T!NoReply,
     T!Closed
  <1>1. CASE T!Reject
    BY <1>1, SMT DEF T!Reject, T!Reply
  <1>2. CASE T!Pass
    BY <1>2, SMT DEF T!Pass
  <1>3. CASE T!Watch
    BY <1>3, SMT DEF T!Watch
  <1>4. CASE T!Deadline
    BY <1>4, SMT DEF T!Deadline
  <1> QED
    BY <1>1, <1>2, <1>3, <1>4

\* The select of Guard and the flush: whoever flushes has something to send or a
\* handler that is over.
LEMMA GuardAnswers ==
    ASSUME AnswerInv, T!GuardSteps
    PROVE  AnswerInv'
  <1> USE DEF AnswerInv, AnswerTypes, T!OneAnswer, Buffering, Streaming, Sealed, T!NoReply,
     T!Closed
  <1>1. CASE T!WakeDone
    BY <1>1, SMT DEF T!WakeDone, T!BeginFlush
  <1>2. CASE T!WakeLate
    <2>1. CASE wrote /\ T!BeginFlush
      BY <1>2, <2>1 DEF T!WakeLate, T!BeginFlush
    <2>2. CASE ~wrote /\ guard' = "answered" /\ T!Reply("timeout", 0)
               /\ UNCHANGED <<handler, T!writer, accepted, late>>
      BY <1>2, <2>2 DEF T!WakeLate, T!Reply
    <2> QED
      BY <1>2, <2>1, <2>2 DEF T!WakeLate
  <1>3. CASE T!EndFlush
    BY <1>3, SMT DEF T!EndFlush, T!Reply
  <1> QED
    BY <1>1, <1>2, <1>3 DEF T!GuardSteps

\* The handler: the lock keeps it out of a flush, flushed out of a sent answer.
LEMMA HandlerActs ==
    ASSUME AnswerInv, T!HandlerSteps
    PROVE  AnswerInv'
  <1> USE DEF AnswerInv, AnswerTypes, T!OneAnswer, Buffering, Streaming, Sealed, T!NoReply,
     T!Closed
  <1>1. CASE T!TouchHeader \/ T!LeaveHeader
    BY <1>1, SMT DEF T!TouchHeader, T!LeaveHeader
  <1>2. CASE T!WriteHeader
    BY <1>2, SMT DEF T!WriteHeader, T!Unlocked
  <1>3. CASE T!Write
    BY <1>3, SMT DEF T!Write, T!Unlocked
  <1>4. CASE T!WriteDirect
    BY <1>4, SMT DEF T!WriteDirect
  <1>5. CASE T!Return
    BY <1>5, SMT DEF T!Return, T!Leave, T!Reply
  <1>6. CASE T!Panic
    BY <1>6, SMT DEF T!Panic, T!Leave, T!Reply
  <1> QED
    BY <1>1, <1>2, <1>3, <1>4, <1>5, <1>6 DEF T!HandlerSteps

\* Every step keeps the invariant.
LEMMA AnswerNext == AnswerInv /\ [T!Next]_tvars => AnswerInv'
  <1> SUFFICES ASSUME AnswerInv, [T!Next]_tvars PROVE AnswerInv'
    OBVIOUS
  <1>1. CASE UNCHANGED tvars
    BY <1>1 DEF AnswerInv, AnswerTypes, T!OneAnswer, Buffering, Streaming, Sealed, T!NoReply,
       T!Closed
  <1> QED
    BY <1>1, GuardBegins, GuardAnswers, HandlerActs DEF T!Next

\* What the answer and the chunks in it look like follows from the invariant.
LEMMA AnswerFits == AnswerInv => OneAnswer
  BY DEF AnswerInv, OneAnswer, T!OneAnswer, T!AcceptedIsSent, T!HeadersQuiet, Sealed, T!Closed

\* The step that answers sends all that was accepted: a 504 leaves nothing behind.
LEMMA AnswerIsWhole ==
    ASSUME AnswerInv, T!Next, guard # "answered", guard' = "answered"
    PROVE  reply'.chunks = accepted
  <1> USE DEF AnswerInv, AnswerTypes, Buffering, Streaming, Sealed, T!NoReply, T!Closed
  <1>1. CASE T!Reject \/ T!Pass \/ T!Watch \/ T!Deadline
    BY <1>1, SMT DEF T!Reject, T!Pass, T!Watch, T!Deadline, T!Reply
  <1>2. CASE T!GuardSteps
    BY <1>2, SMT DEF T!GuardSteps, T!WakeDone, T!WakeLate, T!BeginFlush, T!EndFlush, T!Reply
  <1>3. CASE T!TouchHeader \/ T!LeaveHeader \/ T!WriteHeader \/ T!Write \/ T!WriteDirect
    BY <1>3, SMT DEF T!TouchHeader, T!LeaveHeader, T!WriteHeader, T!Write, T!WriteDirect
  <1>4. CASE T!Return \/ T!Panic
    BY <1>4, SMT DEF T!Return, T!Panic, T!Leave, T!Reply
  <1> QED
    BY <1>1, <1>2, <1>3, <1>4 DEF T!Next, T!HandlerSteps

--------------------------------------------------------------------------------
(* ResolveAgentURL: one fetch per key, and no result is lost on its way, for any *)
(* number of callers and keys.                                                *)

USE DEF uvars, U!TypeOK

\* A leader is in inflight exactly while it fetches, with its own token, and a
\* token has one leader; an origin that is known is fetched by nobody.
Leaders ==
    /\ \A t \in Tokens, u \in Callers :
          <<t, u>> \in inflight <=> at[u] = "fetching" /\ token[u] = t
    /\ \A u, v \in Callers :
          at[u] = "fetching" /\ at[v] = "fetching" /\ token[u] = token[v] => u = v
    /\ \A u \in Callers : at[u] = "fetching" => token[u] \notin resolved

\* Who waits for a leader waits for one that still fetches, or whose origin is
\* there, or who failed.
Served ==
    \A u \in Callers : at[u] \in {"waiting", "reading"} =>
        \/ at[u] = "waiting" /\ <<token[u], awaited[u]>> \in inflight
        \/ token[u] \in resolved
        \/ awaited[u] \in failed

FetchInv == U!TypeOK /\ Leaders /\ Served /\ U!FailsWithLeader

\* Nobody fetches or waits at the start.
LEMMA FetchInit == U!Init => FetchInv
  BY DEF U!Init, FetchInv, Leaders, Served, U!FailsWithLeader

\* The steps of a caller that has no entry in inflight: it answers, joins or wakes.
LEMMA QuietSteps ==
    ASSUME FetchInv, NEW u \in Callers,
           U!Overridden(u) \/ U!Hit(u) \/ U!Join(u) \/ U!Woken(u) \/ U!Reread(u)
    PROVE  FetchInv'
  <1>1. CASE U!Overridden(u)
    <2>1. U!TypeOK'
      BY <1>1 DEF FetchInv, U!Overridden, U!Goes
    <2>2. Leaders'
      BY <1>1 DEF FetchInv, Leaders, U!Overridden, U!Goes
    <2>3. Served'
      BY <1>1 DEF FetchInv, Served, U!Overridden, U!Goes
    <2>4. U!FailsWithLeader'
      BY <1>1 DEF FetchInv, Served, U!FailsWithLeader, U!Overridden, U!Goes
    <2> QED
      BY <2>1, <2>2, <2>3, <2>4 DEF FetchInv
  <1>2. CASE U!Hit(u)
    <2>1. U!TypeOK'
      BY <1>2 DEF FetchInv, U!Hit, U!Goes
    <2>2. Leaders'
      BY <1>2 DEF FetchInv, Leaders, U!Hit, U!Goes
    <2>3. Served'
      BY <1>2 DEF FetchInv, Served, U!Hit, U!Goes
    <2>4. U!FailsWithLeader'
      BY <1>2 DEF FetchInv, Served, U!FailsWithLeader, U!Hit, U!Goes
    <2> QED
      BY <2>1, <2>2, <2>3, <2>4 DEF FetchInv
  <1>3. CASE U!Join(u)
    <2>1. U!TypeOK'
      BY <1>3 DEF FetchInv, U!Join, U!Goes
    <2>2. Leaders'
      BY <1>3 DEF FetchInv, Leaders, U!Join, U!Goes
    <2>3. Served'
      BY <1>3 DEF FetchInv, Served, U!Join, U!Goes
    <2>4. U!FailsWithLeader'
      BY <1>3 DEF FetchInv, Served, U!FailsWithLeader, U!Join, U!Goes
    <2> QED
      BY <2>1, <2>2, <2>3, <2>4 DEF FetchInv
  <1>4. CASE U!Woken(u)
    <2>1. U!TypeOK'
      BY <1>4 DEF FetchInv, U!Woken, U!Goes
    <2>2. Leaders'
      BY <1>4 DEF FetchInv, Leaders, U!Woken, U!Goes
    <2>3. Served'
      BY <1>4 DEF FetchInv, Served, U!Woken, U!Goes
    <2>4. U!FailsWithLeader'
      BY <1>4 DEF FetchInv, Served, U!FailsWithLeader, U!Woken, U!Goes
    <2> QED
      BY <2>1, <2>2, <2>3, <2>4 DEF FetchInv
  <1>5. CASE U!Reread(u)
    <2>1. U!TypeOK'
      BY <1>5 DEF FetchInv, U!Reread, U!Goes
    <2>2. Leaders'
      BY <1>5 DEF FetchInv, Leaders, U!Reread, U!Goes
    <2>3. Served'
      BY <1>5 DEF FetchInv, Served, U!Reread, U!Goes
    <2>4. U!FailsWithLeader'
      BY <1>5 DEF FetchInv, Served, U!FailsWithLeader, U!Reread, U!Goes
    <2> QED
      BY <2>1, <2>2, <2>3, <2>4 DEF FetchInv
  <1> QED
    BY <1>1, <1>2, <1>3, <1>4, <1>5

\* A caller leads only when nobody has an entry for its token.
LEMMA LeadStep ==
    ASSUME FetchInv, NEW u \in Callers, U!Lead(u)
    PROVE  FetchInv'
  <1>1. U!TypeOK'
    BY DEF FetchInv, U!Lead, U!Goes
  <1>2. Leaders'
    <2>1. \A v \in Callers : at'[v] = IF v = u THEN "fetching" ELSE at[v]
      BY DEF FetchInv, U!Lead, U!Goes
    <2>2. \A t \in Tokens, v \in Callers :
             <<t, v>> \in inflight' <=> <<t, v>> \in inflight \/ (t = token[u] /\ v = u)
      BY DEF U!Lead
    <2>3. \A t \in Tokens, v \in Callers :
             <<t, v>> \in inflight' <=> at'[v] = "fetching" /\ token'[v] = t
      BY <2>1, <2>2 DEF FetchInv, Leaders, U!Lead
    <2>4. \A v \in Callers : v # u /\ at[v] = "fetching" => token[v] # token[u]
      BY DEF FetchInv, Leaders, U!Lead
    <2>5. token' = token /\ resolved' = resolved /\ token[u] \notin resolved
      BY DEF U!Lead
    <2> QED
      BY <2>1, <2>3, <2>4, <2>5 DEF FetchInv, Leaders
  <1>3. Served'
    BY DEF FetchInv, Served, U!Lead, U!Goes
  <1>4. U!FailsWithLeader'
    BY DEF FetchInv, U!FailsWithLeader, U!Lead, U!Goes
  <1> QED
    BY <1>1, <1>2, <1>3, <1>4 DEF FetchInv

\* The end of a fetch deletes its entry and leaves an origin or a failure, which
\* is what those that wait find.
LEMMA FetchedStep ==
    ASSUME FetchInv, NEW u \in Callers, U!Fetched(u)
    PROVE  FetchInv'
  <1>1. U!TypeOK'
    BY DEF FetchInv, U!Fetched, U!Goes
  <1>2. Leaders'
    BY DEF FetchInv, Leaders, U!Fetched, U!Goes
  <1>3. Served'
    <2> SUFFICES ASSUME NEW v \in Callers, at'[v] \in {"waiting", "reading"}
                 PROVE  \/ at'[v] = "waiting" /\ <<token'[v], awaited'[v]>> \in inflight'
                        \/ token'[v] \in resolved'
                        \/ awaited'[v] \in failed'
      BY DEF Served
    <2>1. v # u /\ at'[v] = at[v] /\ token'[v] = token[v] /\ awaited'[v] = awaited[v]
      BY DEF FetchInv, U!Fetched, U!Goes
    <2>2. CASE <<token[v], awaited[v]>> = <<token[u], u>>
      BY <2>1, <2>2 DEF FetchInv, U!Fetched
    <2>3. CASE <<token[v], awaited[v]>> # <<token[u], u>>
      BY <2>1, <2>3 DEF FetchInv, Served, U!Fetched
    <2> QED
      BY <2>2, <2>3
  <1>4. U!FailsWithLeader'
    BY DEF FetchInv, U!FailsWithLeader, U!Fetched, U!Goes
  <1> QED
    BY <1>1, <1>2, <1>3, <1>4 DEF FetchInv

\* Every step keeps the invariant.
LEMMA FetchNext == FetchInv /\ [U!Next]_uvars => FetchInv'
  <1> SUFFICES ASSUME FetchInv, [U!Next]_uvars PROVE FetchInv'
    OBVIOUS
  <1>1. CASE U!Next
    <2>1. PICK u \in Callers : U!Step(u) \/ U!Fetched(u)
      BY <1>1 DEF U!Next
    <2> QED
      BY <2>1, QuietSteps, LeadStep, FetchedStep DEF U!Step
  <1>2. CASE UNCHANGED uvars
    BY <1>2 DEF FetchInv, Leaders, Served, U!FailsWithLeader
  <1> QED
    BY <1>1, <1>2

\* One leader per token means at most one element in the set of leaders.
LEMMA LeadersIsOneFetch == FetchInv => U!OneFetch
  <1> SUFFICES ASSUME FetchInv PROVE U!OneFetch
    OBVIOUS
  <1>1. ASSUME NEW t \in Tokens
        PROVE  Cardinality({u \in Callers : <<t, u>> \in inflight}) <= 1
    <2> DEFINE Leading == {u \in Callers : <<t, u>> \in inflight}
    <2>1. CASE Leading = {}
      <3>1. Cardinality(Leading) = 0
        BY <2>1, FS_EmptySet
      <3> QED
        BY <3>1
    <2>2. CASE Leading # {}
      <3>1. PICK u \in Leading : TRUE
        BY <2>2
      <3>2. Leading = {u}
        BY <3>1 DEF FetchInv, Leaders
      <3>3. Cardinality(Leading) = 1
        BY <3>2, FS_Singleton
      <3> QED
        BY <3>3
    <2> QED
      BY <2>1, <2>2
  <1>2. \A u \in Callers : at[u] = "fetching" =>
            token[u] \notin resolved /\ <<token[u], u>> \in inflight
    BY DEF FetchInv, Leaders
  <1> QED
    BY <1>1, <1>2, SameCardinality DEF U!OneFetch

--------------------------------------------------------------------------------
(* Device logins: a login is kept until it is decided and no tokens vanish, for   *)
(* any number of pages and polls and whatever the server does.                *)

HIDE DEF U!TypeOK
USE DEF dvars, D!login, D!tokens, D!Polling

\* The pages that have tokens which are not in the vault yet.
Holding == {p \in Pages : page[p] \in {"given", "saving"}}

\* The types the argument needs; the bounds on polls play no part in it.
LoginTypes ==
    /\ page \in [Pages -> D!Polling \cup {"new", "saved", "failed"}]
    /\ server \in {"asked", "approved", "refused", "spent"}
    /\ issued \in Nat /\ lost \in Nat /\ creds \in Nat

\* A page that is about to delete the login has seen the reason.
Decided ==
    /\ ~known => server \in {"refused", "spent"} \/ timedOut
    /\ \A p \in Pages :
          /\ page[p] = "given" => server = "spent"
          /\ page[p] = "refused" => server \in {"refused", "spent"}
          /\ page[p] = "late" => timedOut

\* Every answer with tokens is a credential, a loss, or in the hands of a page.
Conserved == issued = creds + lost + Cardinality(Holding)

LoginInv == LoginTypes /\ Decided /\ Conserved

\* No page has tokens at the start.
LEMMA LoginInit == D!Init => LoginInv
  <1> SUFFICES ASSUME D!Init PROVE LoginInv
    OBVIOUS
  <1>1. Holding = {}
    BY DEF D!Init, Holding
  <1>2. Cardinality(Holding) = 0
    BY <1>1, FS_EmptySet
  <1> QED
    BY <1>2 DEF D!Init, LoginInv, LoginTypes, Decided, Conserved

\* A page that goes where no tokens are held, from where none are, changes nothing
\* in what is held.
LEMMA HoldingSame ==
    ASSUME LoginTypes, NEW p \in Pages, NEW s, D!Goes(p, s),
           page[p] \notin {"given", "saving"} <=> s \notin {"given", "saving"}
    PROVE  Holding' = Holding
  BY DEF LoginTypes, D!Goes, Holding

\* The steps of a page, its server and its browser that move no tokens.
LEMMA QuietPage ==
    ASSUME LoginInv, NEW p \in Pages,
           D!Submit(p) \/ D!Wake(p) \/ D!GrokDeadline(p) \/ D!Cancelled(p) \/ D!Forget(p)
             \/ D!NotYet(p) \/ D!Refused(p) \/ D!Fails(p) \/ D!CtxDone(p)
    PROVE  LoginInv'
  <1>1. LoginTypes'
    BY DEF LoginInv, LoginTypes, D!Goes, D!Strike, D!Submit, D!Wake, D!GrokDeadline,
       D!Cancelled, D!Forget, D!NotYet,
           D!Refused, D!Fails, D!CtxDone
  <1>2. Decided'
    BY DEF LoginInv, LoginTypes, Decided, D!Goes, D!Strike, D!Submit, D!Wake, D!GrokDeadline,
       D!Cancelled, D!Forget,
           D!NotYet, D!Refused, D!Fails, D!CtxDone
  <1>3. Holding' = Holding
    <2>1. CASE D!CtxDone(p)
      BY <2>1 DEF D!CtxDone, Holding
    <2>2. CASE D!Submit(p) \/ D!Wake(p) \/ D!GrokDeadline(p) \/ D!Cancelled(p) \/ D!Forget(p)
                 \/ D!NotYet(p) \/ D!Refused(p) \/ D!Fails(p)
      BY <2>2 DEF LoginInv, LoginTypes, Holding, D!Goes, D!Strike, D!Submit, D!Wake,
         D!GrokDeadline, D!Cancelled,
                  D!Forget, D!NotYet, D!Refused, D!Fails
    <2> QED
      BY <2>1, <2>2
  <1>4. UNCHANGED D!tokens
    BY DEF D!Submit, D!Wake, D!GrokDeadline, D!Cancelled, D!Forget, D!NotYet, D!Refused,
       D!Fails, D!CtxDone
  <1>5. Conserved'
    BY <1>3, <1>4 DEF LoginInv, Conserved
  <1> QED
    BY <1>1, <1>2, <1>5 DEF LoginInv

\* The user and the clock of the server.
LEMMA ServerSteps ==
    ASSUME LoginInv, D!Decide \/ D!ServerExpires
    PROVE  LoginInv'
  <1>1. LoginTypes' /\ Decided'
    BY DEF LoginInv, LoginTypes, Decided, D!Decide, D!ServerExpires
  <1>2. Holding' = Holding /\ UNCHANGED D!tokens
    BY DEF D!Decide, D!ServerExpires, Holding
  <1>3. Conserved'
    BY <1>2 DEF LoginInv, Conserved
  <1> QED
    BY <1>1, <1>3 DEF LoginInv

\* Tokens that come reach the page or are lost; either way they are counted.
LEMMA GivenStep ==
    ASSUME IsFiniteSet(Pages), LoginInv, NEW p \in Pages, D!Given(p)
    PROVE  LoginInv'
  <1>1. LoginTypes'
    BY DEF LoginInv, LoginTypes, D!Given, D!Goes, D!Strike
  <1>2. Decided'
    BY DEF LoginInv, LoginTypes, Decided, D!Given, D!Goes, D!Strike
  <1>3. Conserved'
    <2>1. IsFiniteSet(Holding) /\ Cardinality(Holding) \in Nat
      BY FS_Subset, FS_CardinalityType DEF Holding
    <2>2. issued' = issued + 1 /\ creds' = creds
      BY DEF D!Given
    <2>3. CASE D!Goes(p, "given") /\ lost' = lost
      <3>1. Holding' = Holding \cup {p} /\ p \notin Holding
        BY <2>3 DEF LoginInv, LoginTypes, D!Given, D!Goes, Holding
      <3>2. Cardinality(Holding') = Cardinality(Holding) + 1
        BY <2>1, <3>1, FS_AddElement
      <3> QED
        BY <2>1, <2>2, <2>3, <3>2 DEF LoginInv, LoginTypes, Conserved
    <2>4. CASE lost' = lost + 1 /\ (D!Goes(p, "waiting") \/ D!Strike(p))
      <3>1. Holding' = Holding
        BY <2>4 DEF LoginInv, LoginTypes, D!Given, D!Goes, D!Strike, Holding
      <3> QED
        BY <2>1, <2>2, <2>4, <3>1 DEF LoginInv, LoginTypes, Conserved
    <2> QED
      BY <2>3, <2>4 DEF D!Given
  <1> QED
    BY <1>1, <1>2, <1>3 DEF LoginInv

\* Save puts the tokens of a page into the vault, or fails, and the page has none.
LEMMA SaveStep ==
    ASSUME IsFiniteSet(Pages), LoginInv, NEW p \in Pages, D!Save(p)
    PROVE  LoginInv'
  <1>1. LoginTypes' /\ Decided'
    BY DEF LoginInv, LoginTypes, Decided, D!Save, D!Goes
  <1>2. Conserved'
    <2>1. IsFiniteSet(Holding) /\ Cardinality(Holding) \in Nat
      BY FS_Subset, FS_CardinalityType DEF Holding
    <2>2. Holding' = Holding \ {p} /\ p \in Holding
      BY DEF LoginInv, LoginTypes, D!Save, D!Goes, Holding
    <2>3. Cardinality(Holding') = Cardinality(Holding) - 1
      BY <2>1, <2>2, FS_RemoveElement
    <2>4. issued \in Nat /\ lost \in Nat /\ creds \in Nat
      BY DEF LoginInv, LoginTypes
    <2>5. issued = creds + lost + Cardinality(Holding)
      BY DEF LoginInv, Conserved
    <2>6. issued' = issued
      BY DEF D!Save
    <2>7. CASE creds' = creds + 1 /\ lost' = lost
      BY <2>1, <2>3, <2>4, <2>5, <2>6, <2>7 DEF Conserved
    <2>8. CASE lost' = lost + 1 /\ creds' = creds
      BY <2>1, <2>3, <2>4, <2>5, <2>6, <2>8 DEF Conserved
    <2> QED
      BY <2>7, <2>8 DEF D!Save
  <1> QED
    BY <1>1, <1>2 DEF LoginInv

\* Every step keeps the invariant.
LEMMA LoginNext ==
    ASSUME IsFiniteSet(Pages), LoginInv, [D!Next]_dvars
    PROVE  LoginInv'
  <1>1. CASE D!Next
    <2>1. CASE \E p \in Pages : D!Submit(p) \/ D!Poll(p) \/ D!Answer(p) \/ D!CtxDone(p)
      <3>1. PICK p \in Pages : D!Submit(p) \/ D!Poll(p) \/ D!Answer(p) \/ D!CtxDone(p)
        BY <2>1
      <3> QED
        BY <3>1, QuietPage, GivenStep, SaveStep DEF D!Poll, D!Answer
    <2> QED
      BY <1>1, <2>1, ServerSteps DEF D!Next
  <1>2. CASE UNCHANGED dvars
    <2>1. Holding' = Holding
      BY <1>2 DEF Holding
    <2> QED
      BY <1>2, <2>1 DEF LoginInv, LoginTypes, Decided, Conserved
  <1> QED
    BY <1>1, <1>2

--------------------------------------------------------------------------------
(* The connection pool, for any round trips, connections and room in the pool. *)

\* The round trips that have a connection in hand, and those the server has not heard of.
Using == {"send", "resend", "read", "body", "put"}
Unsent == {"new", "again", "send", "resend"}

PoolTypes ==
    /\ idles \in Seq(Conns) /\ Len(idles) <= MaxIdle
    /\ expired \subseteq P!ToSet(idles)
    /\ open \subseteq dialled /\ dialled \subseteq Conns
    /\ wire \in [Conns -> Seq([of: Requests, part: {"head", "body"}])]
    /\ step \in [Requests -> Using \cup {"new", "again", "over"}]
    /\ held \in [Requests -> Conns \cup {NoConn}]
    /\ got \in [Requests -> Requests \cup {NoConn}]
    /\ keep \in [Requests -> BOOLEAN]
    /\ served \in [Requests -> Nat]

\* Every open connection is idle once or with one round trip, and no closed one is.
Owned ==
    /\ P!IsInjective(idles)
    /\ \A r \in Requests : held[r] # NoConn <=> step[r] \in Using
    /\ \A r \in Requests : held[r] \notin P!ToSet(idles)
    /\ \A r, q \in Requests : held[r] = held[q] /\ held[r] # NoConn => r = q
    /\ \A c \in Conns : c \in open <=> c \in P!ToSet(idles) \/ \E r \in Requests : held[r] = c

\* What a connection carries is the rest of the answer to the round trip that has it,
\* so an idle one, and one that was never dialled, carries nothing.
Carries(r, w) ==
    /\ step[r] \in {"send", "resend", "put"} => w = << >>
    /\ step[r] = "read" => w \in {<< >>, <<P!Start(r), P!Rest(r)>>}
    /\ step[r] = "body" => w \in {<< >>, <<P!Rest(r)>>}

Carried ==
    /\ \A c \in Conns \ dialled : wire[c] = << >>
    /\ \A r \in Requests : \A c \in Conns : held[r] = c => Carries(r, wire[c])

\* Nothing has been sent before the write that succeeds.
Counts == \A r \in Requests : step[r] \in Unsent => served[r] = 0

PoolInv ==
    /\ PoolTypes /\ Owned /\ Carried /\ Counts
    /\ P!CleanIdle /\ P!OwnResponse /\ P!SentOnce

\* take and put work at the ends of a sequence without repetitions: as sets, one
\* connection goes or comes.
LEMMA WithoutLast ==
    ASSUME NEW Elem, NEW s \in Seq(Elem), s # << >>, P!IsInjective(s)
    PROVE  /\ P!Front(s) \in Seq(Elem) /\ Len(P!Front(s)) = Len(s) - 1
           /\ P!IsInjective(P!Front(s))
           /\ P!Last(s) \in Elem /\ P!Last(s) \in P!ToSet(s)
           /\ P!ToSet(P!Front(s)) = P!ToSet(s) \ {P!Last(s)}
  <1>1. Len(s) \in Nat /\ Len(s) >= 1
    BY EmptySeq
  <1>2. P!Front(s) = SubSeq(s, 1, Len(s) - 1)
    BY DEF P!Front
  <1>3. /\ P!Front(s) \in Seq(Elem) /\ Len(P!Front(s)) = Len(s) - 1
        /\ \A i \in 1 .. Len(s) - 1 : P!Front(s)[i] = s[i]
    <2> DEFINE n == Len(s) - 1
    <2>1. n \in Nat /\ \A i \in 1 .. n : s[i] \in Elem
      BY <1>1
    <2> HIDE DEF n
    <2>2. /\ SubSeq(s, 1, n) \in Seq(Elem)
          /\ Len(SubSeq(s, 1, n)) = (IF 1 <= n THEN n - 1 + 1 ELSE 0)
          /\ \A i \in 1 .. n - 1 + 1 : SubSeq(s, 1, n)[i] = s[1 + i - 1]
      BY <2>1, SubSeqProperties
    <2>3. Len(SubSeq(s, 1, n)) = n /\ \A i \in 1 .. n : SubSeq(s, 1, n)[i] = s[i]
      BY <2>1, <2>2
    <2> QED
      BY <1>2, <2>2, <2>3 DEF n
  <1>4. P!IsInjective(P!Front(s))
    BY <1>1, <1>3 DEF P!IsInjective
  <1>5. P!Last(s) = s[Len(s)] /\ P!Last(s) \in Elem /\ P!Last(s) \in P!ToSet(s)
    BY <1>1 DEF P!Last, P!ToSet
  <1>6. ASSUME NEW x \in P!ToSet(P!Front(s)) PROVE x \in P!ToSet(s) \ {P!Last(s)}
    <2>1. PICK i \in 1 .. Len(s) - 1 : x = s[i]
      BY <1>1, <1>3 DEF P!ToSet
    <2>2. s[i] # s[Len(s)]
      BY <1>1, <2>1 DEF P!IsInjective
    <2> QED
      BY <1>1, <1>5, <2>1, <2>2 DEF P!ToSet
  <1>7. P!ToSet(s) \ {P!Last(s)} \subseteq P!ToSet(P!Front(s))
    BY <1>1, <1>3, <1>5 DEF P!ToSet
  <1> QED
    BY <1>3, <1>4, <1>5, <1>6, <1>7

LEMMA WithoutFirst ==
    ASSUME NEW Elem, NEW s \in Seq(Elem), s # << >>, P!IsInjective(s)
    PROVE  /\ Tail(s) \in Seq(Elem) /\ Len(Tail(s)) = Len(s) - 1
           /\ P!IsInjective(Tail(s))
           /\ s[1] \in Elem /\ s[1] \in P!ToSet(s)
           /\ P!ToSet(Tail(s)) = P!ToSet(s) \ {s[1]}
  <1>1. Len(s) \in Nat /\ Len(s) >= 1
    BY EmptySeq
  <1>2. /\ Tail(s) \in Seq(Elem) /\ Len(Tail(s)) = Len(s) - 1
        /\ \A i \in 1 .. Len(s) - 1 : Tail(s)[i] = s[i + 1]
    BY <1>1, HeadTailProperties
  <1>3. P!IsInjective(Tail(s))
    BY <1>1, <1>2 DEF P!IsInjective
  <1>4. s[1] \in Elem /\ s[1] \in P!ToSet(s)
    BY <1>1 DEF P!ToSet
  <1>5. P!ToSet(Tail(s)) \subseteq P!ToSet(s) \ {s[1]}
    BY <1>1, <1>2 DEF P!ToSet, P!IsInjective
  <1>6. ASSUME NEW x \in P!ToSet(s) \ {s[1]} PROVE x \in P!ToSet(Tail(s))
    <2>1. PICK i \in 1 .. Len(s) : x = s[i]
      BY <1>6 DEF P!ToSet
    <2>2. i # 1
      BY <1>6, <2>1
    <2>3. PICK j \in 1 .. Len(s) - 1 : i = j + 1
      BY <1>1, <2>1, <2>2
    <2>4. Tail(s)[j] = x
      BY <1>2, <2>1, <2>3
    <2>5. DOMAIN Tail(s) = 1 .. Len(s) - 1
      BY <1>2
    <2> QED
      BY <2>4, <2>5 DEF P!ToSet
  <1> QED
    BY <1>2, <1>3, <1>4, <1>5, <1>6

LEMMA WithOneMore ==
    ASSUME NEW Elem, NEW s \in Seq(Elem), P!IsInjective(s), NEW c \in Elem, c \notin P!ToSet(s)
    PROVE  /\ Append(s, c) \in Seq(Elem) /\ Len(Append(s, c)) = Len(s) + 1
           /\ P!IsInjective(Append(s, c))
           /\ P!ToSet(Append(s, c)) = P!ToSet(s) \cup {c}
  <1>1. Len(s) \in Nat
    OBVIOUS
  <1>2. /\ Append(s, c) \in Seq(Elem) /\ Len(Append(s, c)) = Len(s) + 1
        /\ \A i \in 1 .. Len(s) : Append(s, c)[i] = s[i]
        /\ Append(s, c)[Len(s) + 1] = c
    BY AppendProperties
  <1>3. P!IsInjective(Append(s, c))
    BY <1>1, <1>2 DEF P!IsInjective, P!ToSet
  <1>4. P!ToSet(Append(s, c)) \subseteq P!ToSet(s) \cup {c}
    BY <1>1, <1>2 DEF P!ToSet
  <1>5. P!ToSet(s) \cup {c} \subseteq P!ToSet(Append(s, c))
    BY <1>1, <1>2 DEF P!ToSet
  <1> QED
    BY <1>2, <1>3, <1>4, <1>5

LEMMA PoolInit == ASSUME MaxIdle \in Nat, NoConn \notin Conns PROVE P!Init => PoolInv
  <1> SUFFICES ASSUME P!Init PROVE PoolInv
    OBVIOUS
  <1> USE DEF P!Init
  <1>1. P!ToSet(idles) = {} /\ P!IsInjective(idles)
    BY DEF P!ToSet, P!IsInjective
  <1>2. PoolTypes
    BY <1>1 DEF PoolTypes, Using
  <1>3. Owned
    BY <1>1 DEF Owned, Using
  <1>4. Carried /\ Counts
    BY DEF Carried, Carries, Counts
  <1>5. P!CleanIdle /\ P!OwnResponse /\ P!SentOnce
    BY <1>1 DEF P!CleanIdle, P!OwnResponse, P!SentOnce
  <1> QED
    BY <1>2, <1>3, <1>4, <1>5 DEF PoolInv

\* The newest idle connection goes to the round trip, or is closed when it has expired.
LEMMA PoolTakes ==
    ASSUME NEW r \in Requests, MaxIdle \in Nat, NoConn \notin Conns, PoolInv,
           P!TakeExpired(r) \/ P!Take(r)
    PROVE  PoolInv'
  <1> DEFINE c == P!Last(idles)
  <1>1. /\ idles \in Seq(Conns) /\ idles # << >> /\ P!IsInjective(idles)
        /\ idles' = P!Front(idles) /\ P!Taking(r)
    BY DEF PoolInv, PoolTypes, Owned, P!TakeExpired, P!Take
  <1>2. /\ P!Front(idles) \in Seq(Conns) /\ Len(P!Front(idles)) = Len(idles) - 1
        /\ P!IsInjective(P!Front(idles))
        /\ c \in Conns /\ c \in P!ToSet(idles)
        /\ P!ToSet(P!Front(idles)) = P!ToSet(idles) \ {c}
    BY <1>1, WithoutLast
  <1>3. /\ idles' \in Seq(Conns) /\ Len(idles') <= MaxIdle
        /\ P!IsInjective(idles')
        /\ P!ToSet(idles)' = P!ToSet(idles) \ {c}
    <2>1. Len(idles) \in Nat /\ Len(idles) <= MaxIdle
      BY <1>1 DEF PoolInv, PoolTypes
    <2>2. P!ToSet(idles)' = P!ToSet(idles')
      BY DEF P!ToSet
    <2> QED
      BY <1>1, <1>2, <2>1, <2>2
  <1> HIDE DEF c
  <1>4. CASE P!TakeExpired(r)
    <2>1. /\ expired' = expired \ {c} /\ open' = open \ {c}
          /\ UNCHANGED <<dialled, wire, step, held, got, keep, served>>
      BY <1>4 DEF P!TakeExpired, P!Closes, P!trip, c
    <2>2. PoolTypes'
      BY <1>3, <2>1 DEF PoolInv, PoolTypes
    <2>3. \A q \in Requests : held[q] # c
      BY <1>2 DEF PoolInv, Owned
    <2>4. Owned'
      BY <1>3, <2>1, <2>3 DEF PoolInv, Owned, P!IsInjective
    <2>5. Carried' /\ Counts' /\ P!CleanIdle' /\ P!OwnResponse' /\ P!SentOnce'
      BY <1>3, <2>1 DEF PoolInv, Carried, Carries, Counts, P!CleanIdle, P!OwnResponse, P!SentOnce
    <2> QED
      BY <2>2, <2>4, <2>5 DEF PoolInv
  <1>5. CASE P!Take(r)
    <2>1. /\ held' = [held EXCEPT ![r] = c] /\ step' = [step EXCEPT ![r] = P!Sends(r)]
          /\ c \notin expired
          /\ UNCHANGED <<expired, open, dialled, wire, got, keep, served>>
      BY <1>5 DEF P!Take, P!Moves, P!net, c
    <2>2. PoolTypes'
      BY <1>2, <1>3, <2>1 DEF PoolInv, PoolTypes, P!Sends, Using
    <2>3. P!Sends(r) \in {"send", "resend"} /\ step[r] \in {"new", "again"} /\ held[r] = NoConn
      BY <1>1 DEF P!Sends, P!Taking, PoolInv, PoolTypes, Owned, Using
    <2>4. \A q \in Requests \ {r} : held'[q] = held[q] /\ step'[q] = step[q]
      BY <2>1 DEF PoolInv, PoolTypes
    <2>5. held'[r] = c /\ step'[r] = P!Sends(r)
      BY <2>1 DEF PoolInv, PoolTypes
    <2>6. Owned'
      <3>1. P!IsInjective(idles)'
        BY <1>3 DEF P!IsInjective
      <3>2. \A q \in Requests : held'[q] # NoConn <=> step'[q] \in Using
        BY <1>2, <2>3, <2>4, <2>5 DEF PoolInv, Owned, Using
      <3>3. \A q \in Requests : held'[q] \notin P!ToSet(idles)'
        BY <1>2, <1>3, <2>4, <2>5 DEF PoolInv, Owned
      <3>4. \A p, q \in Requests : held'[p] = held'[q] /\ held'[p] # NoConn => p = q
        BY <1>2, <2>4, <2>5 DEF PoolInv, Owned
      <3>5. \A d \in Conns :
               d \in open' <=> d \in P!ToSet(idles)' \/ \E q \in Requests : held'[q] = d
        BY <1>2, <1>3, <2>1, <2>3, <2>4, <2>5 DEF PoolInv, Owned
      <3> QED
        BY <3>1, <3>2, <3>3, <3>4, <3>5 DEF Owned
    <2>7. Carried'
      BY <1>2, <2>1, <2>3, <2>4, <2>5 DEF PoolInv, Carried, Carries, P!CleanIdle
    <2>8. Counts' /\ P!CleanIdle' /\ P!OwnResponse' /\ P!SentOnce'
      BY <1>3, <2>1, <2>3, <2>4
         DEF PoolInv, Counts, Unsent, P!CleanIdle, P!OwnResponse, P!SentOnce
    <2> QED
      BY <2>2, <2>6, <2>7, <2>8 DEF PoolInv
  <1> QED
    BY <1>4, <1>5

\* A new connection carries nothing; a dial that fails ends the round trip.
LEMMA PoolDials ==
    ASSUME NEW r \in Requests, MaxIdle \in Nat, NoConn \notin Conns, PoolInv, P!Dial(r)
    PROVE  PoolInv'
  <1>1. /\ step[r] \in {"new", "again"} /\ held[r] = NoConn
        /\ UNCHANGED <<idles, expired, wire, got, keep, served>>
    BY DEF P!Dial, P!Taking, P!pool, PoolInv, PoolTypes, Owned, Using
  <1>2. CASE P!Moves(r, NoConn, "over") /\ UNCHANGED <<open, dialled>>
    <2>1. held' = held /\ step' = [step EXCEPT ![r] = "over"]
      BY <1>1, <1>2 DEF P!Moves, PoolInv, PoolTypes
    <2>2. PoolTypes'
      BY <1>1, <1>2, <2>1 DEF PoolInv, PoolTypes, P!ToSet
    <2>3. Owned'
      BY <1>1, <1>2, <2>1 DEF PoolInv, PoolTypes, Owned, Using, P!ToSet, P!IsInjective
    <2>4. Carried' /\ Counts' /\ P!CleanIdle' /\ P!OwnResponse' /\ P!SentOnce'
      BY <1>1, <1>2, <2>1 DEF PoolInv, PoolTypes, Carried, Carries, Counts, Unsent, P!CleanIdle,
         P!OwnResponse, P!SentOnce, P!ToSet
    <2> QED
      BY <2>2, <2>3, <2>4 DEF PoolInv
  <1>3. CASE ~(P!Moves(r, NoConn, "over") /\ UNCHANGED <<open, dialled>>)
    <2>1. PICK c \in Conns \ dialled :
             /\ open' = open \cup {c} /\ dialled' = dialled \cup {c}
             /\ held' = [held EXCEPT ![r] = c] /\ step' = [step EXCEPT ![r] = P!Sends(r)]
      <3>1. Conns # dialled /\ dialled \subseteq Conns
        BY <1>3 DEF P!Dial, PoolInv, PoolTypes
      <3>2. \E c \in Conns : c \notin dialled
        BY <3>1
      <3>3. (CHOOSE c \in Conns : c \notin dialled) \in Conns \ dialled
        BY <3>2
      <3> QED
        BY <1>3, <3>3 DEF P!Dial, P!Moves
    <2>2. c \notin open /\ c \notin P!ToSet(idles) /\ \A q \in Requests : held[q] # c
      BY <2>1 DEF PoolInv, PoolTypes, Owned
    <2>3. P!Sends(r) \in {"send", "resend"}
      BY DEF P!Sends
    <2>4. /\ held'[r] = c /\ step'[r] = P!Sends(r)
          /\ \A q \in Requests \ {r} : held'[q] = held[q] /\ step'[q] = step[q]
      BY <2>1 DEF PoolInv, PoolTypes
    <2>5. P!ToSet(idles)' = P!ToSet(idles) /\ P!IsInjective(idles)' = P!IsInjective(idles)
      BY <1>1 DEF P!ToSet, P!IsInjective
    <2>6. PoolTypes'
      BY <1>1, <2>1, <2>3, <2>5 DEF PoolInv, PoolTypes, Using
    <2>7. Owned'
      <3>1. \A q \in Requests : held'[q] # NoConn <=> step'[q] \in Using
        BY <2>1, <2>3, <2>4 DEF PoolInv, Owned, Using
      <3>2. \A q \in Requests : held'[q] \notin P!ToSet(idles)'
        BY <2>2, <2>4, <2>5 DEF PoolInv, Owned
      <3>3. \A p, q \in Requests : held'[p] = held'[q] /\ held'[p] # NoConn => p = q
        BY <2>2, <2>4 DEF PoolInv, Owned
      <3>4. \A d \in Conns :
               d \in open' <=> d \in P!ToSet(idles)' \/ \E q \in Requests : held'[q] = d
        BY <1>1, <2>1, <2>4, <2>5 DEF PoolInv, Owned
      <3> QED
        BY <2>5, <3>1, <3>2, <3>3, <3>4 DEF PoolInv, Owned
    <2>8. Carried'
      BY <1>1, <2>1, <2>2, <2>3, <2>4 DEF PoolInv, Carried, Carries
    <2>9. Counts' /\ P!CleanIdle' /\ P!OwnResponse' /\ P!SentOnce'
      BY <1>1, <2>3, <2>4, <2>5
         DEF PoolInv, Counts, Unsent, P!CleanIdle, P!OwnResponse, P!SentOnce
    <2> QED
      BY <2>6, <2>7, <2>8, <2>9 DEF PoolInv
  <1> QED
    BY <1>2, <1>3

\* A round trip that has a connection is the only one that has it.
LEMMA InUse ==
    ASSUME NEW r \in Requests, NoConn \notin Conns, PoolInv, step[r] \in Using
    PROVE  /\ held[r] \in Conns /\ held[r] \in open /\ held[r] \in dialled
           /\ held[r] \notin P!ToSet(idles)
           /\ \A q \in Requests \ {r} : held[q] # held[r]
  BY DEF PoolInv, PoolTypes, Owned

\* Who changes what one connection in use carries leaves the idle ones clean.
LEMMA StaysClean ==
    ASSUME NEW c \in Conns, NEW w, PoolInv, c \notin P!ToSet(idles),
           wire' = [wire EXCEPT ![c] = w], P!ToSet(idles)' = P!ToSet(idles)
    PROVE  P!CleanIdle'
  <1>1. P!ToSet(idles) \subseteq Conns
    BY DEF PoolInv, PoolTypes, P!ToSet
  <1>2. \A d \in P!ToSet(idles) : wire'[d] = wire[d]
    BY <1>1 DEF PoolInv, PoolTypes
  <1> QED
    BY <1>2 DEF PoolInv, P!CleanIdle

\* A round trip that goes on with its connection changes no ownership.
LEMMA GoesOn ==
    ASSUME NEW r \in Requests, NEW s \in Using, PoolInv, step[r] \in Using,
           held' = [held EXCEPT ![r] = held[r]], step' = [step EXCEPT ![r] = s],
           UNCHANGED <<idles, expired, open, dialled>>
    PROVE  /\ Owned' /\ held' = held
           /\ P!ToSet(idles)' = P!ToSet(idles)
           /\ step'[r] = s /\ \A q \in Requests \ {r} : step'[q] = step[q]
  <1>1. held' = held /\ step'[r] = s /\ \A q \in Requests \ {r} : step'[q] = step[q]
    BY DEF PoolInv, PoolTypes
  <1>2. P!ToSet(idles)' = P!ToSet(idles) /\ P!IsInjective(idles)' = P!IsInjective(idles)
    BY DEF P!ToSet, P!IsInjective
  <1>3. Owned'
    BY <1>1, <1>2 DEF PoolInv, Owned
  <1> QED
    BY <1>1, <1>2, <1>3

\* A round trip that closes its connection lets go of it.
LEMMA LetsGo ==
    ASSUME NEW r \in Requests, NEW s \in {"again", "over"}, NoConn \notin Conns, PoolInv,
           step[r] \in Using, P!Closes({held[r]}), P!Moves(r, NoConn, s),
           UNCHANGED <<idles, expired, wire, got, keep, served>>,
           s = "again" => served[r] = 0
    PROVE  PoolInv'
  <1>1. /\ held' = [held EXCEPT ![r] = NoConn] /\ step' = [step EXCEPT ![r] = s]
        /\ open' = open \ {held[r]} /\ dialled' = dialled
    BY DEF P!Closes, P!Moves
  <1>2. /\ held'[r] = NoConn /\ step'[r] = s
        /\ \A q \in Requests \ {r} : held'[q] = held[q] /\ step'[q] = step[q]
    BY <1>1 DEF PoolInv, PoolTypes
  <1>3. P!ToSet(idles)' = P!ToSet(idles) /\ P!IsInjective(idles)' = P!IsInjective(idles)
    BY DEF P!ToSet, P!IsInjective
  <1>4. PoolTypes'
    BY <1>1, <1>3 DEF PoolInv, PoolTypes
  <1>5. Owned'
    <2>1. \A q \in Requests : held'[q] # NoConn <=> step'[q] \in Using
      BY <1>2 DEF PoolInv, Owned, Using
    <2>2. \A q \in Requests : held'[q] \notin P!ToSet(idles)'
      <3>1. P!ToSet(idles) \subseteq Conns
        BY DEF PoolInv, PoolTypes, P!ToSet
      <3> QED
        BY <1>2, <1>3, <3>1 DEF PoolInv, Owned
    <2>3. \A p, q \in Requests : held'[p] = held'[q] /\ held'[p] # NoConn => p = q
      BY <1>2 DEF PoolInv, Owned
    <2>4. ASSUME NEW d \in Conns
          PROVE  d \in open' <=> d \in P!ToSet(idles)' \/ \E q \in Requests : held'[q] = d
      <3>1. CASE d = held[r]
        BY <1>1, <1>2, <1>3, <3>1, InUse
      <3>2. CASE d # held[r]
        BY <1>1, <1>2, <1>3, <3>2 DEF PoolInv, Owned
      <3> QED
        BY <3>1, <3>2
    <2> QED
      BY <1>3, <2>1, <2>2, <2>3, <2>4 DEF PoolInv, Owned
  <1>6. Carried'
    BY <1>1, <1>2 DEF PoolInv, Carried, Carries
  <1>7. Counts' /\ P!CleanIdle' /\ P!OwnResponse' /\ P!SentOnce'
    BY <1>2, <1>3 DEF PoolInv, Counts, Unsent, P!CleanIdle, P!OwnResponse, P!SentOnce
  <1> QED
    BY <1>4, <1>5, <1>6, <1>7 DEF PoolInv

\* The request goes out on a connection that carries nothing, and at most once.
LEMMA PoolWrites ==
    ASSUME NEW r \in Requests, NoConn \notin Conns, PoolInv, P!Write(r)
    PROVE  PoolInv'
  <1>1. /\ step[r] \in {"send", "resend"} /\ step[r] \in Using
        /\ held' = [held EXCEPT ![r] = held[r]] /\ step' = [step EXCEPT ![r] = "read"]
        /\ UNCHANGED <<idles, expired, open, dialled, got, keep>>
    BY DEF P!Write, P!Sending, P!Moves, P!pool, P!net, Using
  <1>2. /\ Owned' /\ held' = held /\ P!ToSet(idles)' = P!ToSet(idles)
        /\ step'[r] = "read" /\ \A q \in Requests \ {r} : step'[q] = step[q]
    BY <1>1, GoesOn DEF Using
  <1>3. PICK c \in Conns : c = held[r] /\ c \in dialled /\ c \notin P!ToSet(idles)
                           /\ \A q \in Requests \ {r} : held[q] # c
    BY <1>1, InUse
  <1>4. wire[c] = << >> /\ served[r] = 0
    BY <1>1, <1>3 DEF PoolInv, Carried, Carries, Counts, Unsent
  <1>5. /\ wire'[c] \in {<< >>, <<P!Start(r), P!Rest(r)>>}
        /\ \A d \in Conns \ {c} : wire'[d] = wire[d]
        /\ wire' \in [Conns -> Seq([of: Requests, part: {"head", "body"}])]
    <2>1. CASE UNCHANGED wire
      BY <1>4, <2>1 DEF PoolInv, PoolTypes
    <2>2. CASE wire' = [wire EXCEPT ![held[r]] = @ \o <<P!Start(r), P!Rest(r)>>]
      <3>1. <<P!Start(r), P!Rest(r)>> \in Seq([of: Requests, part: {"head", "body"}])
        BY DEF P!Start, P!Rest
      <3>2. << >> \o <<P!Start(r), P!Rest(r)>> = <<P!Start(r), P!Rest(r)>>
        BY <3>1
      <3>3. wire' = [wire EXCEPT ![c] = <<P!Start(r), P!Rest(r)>>]
        BY <1>3, <1>4, <2>2, <3>2
      <3> QED
        BY <3>1, <3>3 DEF PoolInv, PoolTypes
    <2> QED
      BY <2>1, <2>2 DEF P!Write
  <1>6. /\ served' \in [Requests -> Nat] /\ served'[r] <= 1
        /\ \A q \in Requests \ {r} : served'[q] = served[q]
    BY <1>4 DEF P!Write, PoolInv, PoolTypes
  <1>7. PoolTypes'
    BY <1>1, <1>2, <1>5, <1>6 DEF PoolInv, PoolTypes, Using
  <1>8. Carried'
    BY <1>1, <1>2, <1>3, <1>5 DEF PoolInv, Carried, Carries
  <1>9. Counts' /\ P!CleanIdle' /\ P!OwnResponse' /\ P!SentOnce'
    <2>1. Counts' /\ P!OwnResponse' /\ P!SentOnce'
      BY <1>1, <1>2, <1>6 DEF PoolInv, Counts, Unsent, P!OwnResponse, P!SentOnce
    <2>2. P!ToSet(idles) \subseteq Conns
      BY DEF PoolInv, PoolTypes, P!ToSet
    <2>3. P!CleanIdle'
      BY <1>2, <1>3, <1>5, <2>2 DEF PoolInv, P!CleanIdle
    <2> QED
      BY <2>1, <2>3
  <1> QED
    BY <1>2, <1>7, <1>8, <1>9 DEF PoolInv

\* What is read as the head of a response is the one to the request that was written.
LEMMA PoolReads ==
    ASSUME NEW r \in Requests, NoConn \notin Conns, PoolInv, P!Read(r)
    PROVE  PoolInv'
  <1>1. /\ step[r] = "read" /\ step[r] \in Using /\ wire[held[r]] # << >>
        /\ held' = [held EXCEPT ![r] = held[r]] /\ step' = [step EXCEPT ![r] = "body"]
        /\ UNCHANGED <<idles, expired, open, dialled, served>>
    BY DEF P!Read, P!Moves, P!pool, P!net, Using
  <1>2. /\ Owned' /\ held' = held /\ P!ToSet(idles)' = P!ToSet(idles)
        /\ step'[r] = "body" /\ \A q \in Requests \ {r} : step'[q] = step[q]
    BY <1>1, GoesOn DEF Using
  <1>3. PICK c \in Conns : c = held[r] /\ c \in dialled /\ c \notin P!ToSet(idles)
                           /\ \A q \in Requests \ {r} : held[q] # c
    BY <1>1, InUse
  <1>4. wire[c] = <<P!Start(r), P!Rest(r)>>
    BY <1>1, <1>3 DEF PoolInv, Carried, Carries
  <1>5. /\ got' = [got EXCEPT ![r] = r]
        /\ wire' = [wire EXCEPT ![c] = <<P!Rest(r)>>]
    <2>1. wire[c][1].of = r /\ Tail(wire[c]) = <<P!Rest(r)>>
      BY <1>4 DEF P!Start, P!Rest
    <2> QED
      BY <1>3, <2>1 DEF P!Read
  <1>6. keep' \in [Requests -> BOOLEAN]
    BY DEF P!Read, PoolInv, PoolTypes
  <1>7. PoolTypes'
    <2>1. <<P!Rest(r)>> \in Seq([of: Requests, part: {"head", "body"}])
      BY DEF P!Rest
    <2> QED
      BY <1>1, <1>2, <1>5, <1>6, <2>1 DEF PoolInv, PoolTypes, Using
  <1>8. Carried'
    BY <1>1, <1>2, <1>3, <1>5 DEF PoolInv, PoolTypes, Carried, Carries
  <1>9. Counts' /\ P!OwnResponse' /\ P!SentOnce'
    BY <1>1, <1>2, <1>5 DEF PoolInv, PoolTypes, Counts, Unsent, P!OwnResponse, P!SentOnce
  <1>10. P!CleanIdle'
    BY <1>2, <1>3, <1>5, StaysClean
  <1> QED
    BY <1>2, <1>7, <1>8, <1>9, <1>10 DEF PoolInv

\* Nothing is left on the connection of a body that was read to its end.
LEMMA PoolDrains ==
    ASSUME NEW r \in Requests, NoConn \notin Conns, PoolInv, P!Drain(r)
    PROVE  PoolInv'
  <1>1. /\ step[r] = "body" /\ step[r] \in Using
        /\ held' = [held EXCEPT ![r] = held[r]] /\ step' = [step EXCEPT ![r] = "put"]
        /\ keep' = [keep EXCEPT ![r] = FALSE]
        /\ UNCHANGED <<idles, expired, open, dialled, got, served>>
    BY DEF P!Drain, P!Moves, P!pool, P!net, Using
  <1>2. /\ Owned' /\ held' = held /\ P!ToSet(idles)' = P!ToSet(idles)
        /\ step'[r] = "put" /\ \A q \in Requests \ {r} : step'[q] = step[q]
    BY <1>1, GoesOn DEF Using
  <1>3. PICK c \in Conns : c = held[r] /\ c \in dialled /\ c \notin P!ToSet(idles)
                           /\ \A q \in Requests \ {r} : held[q] # c
    BY <1>1, InUse
  <1>4. wire' = [wire EXCEPT ![c] = << >>]
    <2>1. wire[c] \in {<< >>, <<P!Rest(r)>>}
      BY <1>1, <1>3 DEF PoolInv, Carried, Carries
    <2>2. (IF wire[c] = << >> THEN wire[c] ELSE Tail(wire[c])) = << >>
      <3>1. Tail(<<P!Rest(r)>>) = << >>
        OBVIOUS
      <3> QED
        BY <2>1, <3>1, Zenon
    <2>3. wire' = [wire EXCEPT ![c] = IF wire[c] = << >> THEN wire[c] ELSE Tail(wire[c])]
      BY <1>3, Zenon DEF P!Drain
    <2> QED
      BY <2>2, <2>3, Zenon
  <1>5. PoolTypes'
    BY <1>1, <1>2, <1>4 DEF PoolInv, PoolTypes, Using
  <1>6. Carried'
    BY <1>1, <1>2, <1>3, <1>4 DEF PoolInv, PoolTypes, Carried, Carries
  <1>7. Counts' /\ P!OwnResponse' /\ P!SentOnce'
    BY <1>1, <1>2 DEF PoolInv, PoolTypes, Counts, Unsent, P!OwnResponse, P!SentOnce
  <1>8. P!CleanIdle'
    BY <1>2, <1>3, <1>4, StaysClean
  <1> QED
    BY <1>2, <1>5, <1>6, <1>7, <1>8 DEF PoolInv

\* A connection comes back to the pool clean; a full pool closes its oldest one.
LEMMA PoolPuts ==
    ASSUME NEW r \in Requests, MaxIdle \in Nat, NoConn \notin Conns, PoolInv, P!Put(r)
    PROVE  PoolInv'
  <1>1. /\ step[r] = "put" /\ step[r] \in Using
        /\ P!Moves(r, NoConn, "over") /\ UNCHANGED <<wire, got, keep, cut, served>>
    BY DEF P!Put, Using
  <1>2. CASE MaxIdle = 0
    BY <1>1, <1>2, LetsGo DEF P!Put, P!pool
  <1>3. CASE MaxIdle # 0
    <2> DEFINE full == Len(idles) >= MaxIdle
               kept == IF full THEN Tail(idles) ELSE idles
               out == IF full THEN {idles[1]} ELSE {}
    <2>1. PICK c \in Conns : /\ c = held[r] /\ c \in open /\ c \in dialled
                             /\ c \notin P!ToSet(idles)
                             /\ \A q \in Requests \ {r} : held[q] # c
      BY <1>1, InUse
    <2>2. /\ idles' = Append(kept, c) /\ expired' = expired \ out
          /\ open' = open \ out /\ dialled' = dialled
      BY <1>3, <2>1 DEF P!Put, P!Closes
    <2>3. /\ idles \in Seq(Conns) /\ Len(idles) \in Nat /\ Len(idles) <= MaxIdle
          /\ P!IsInjective(idles)
      BY DEF PoolInv, PoolTypes, Owned
    <2>4. /\ kept \in Seq(Conns) /\ Len(kept) < MaxIdle /\ P!IsInjective(kept)
          /\ P!ToSet(kept) = P!ToSet(idles) \ out /\ out \subseteq P!ToSet(idles)
      <3>1. CASE full
        <4>1. idles # << >>
          BY <1>3, <2>3, <3>1
        <4>2. /\ Tail(idles) \in Seq(Conns) /\ Len(Tail(idles)) = Len(idles) - 1
              /\ P!IsInjective(Tail(idles)) /\ idles[1] \in P!ToSet(idles)
              /\ P!ToSet(Tail(idles)) = P!ToSet(idles) \ {idles[1]}
          BY <2>3, <4>1, WithoutFirst
        <4> QED
          BY <2>3, <3>1, <4>2
      <3>2. CASE ~full
        BY <2>3, <3>2
      <3> QED
        BY <3>1, <3>2
    <2> HIDE DEF full, kept, out
    <2>5. /\ Append(kept, c) \in Seq(Conns) /\ Len(Append(kept, c)) = Len(kept) + 1
          /\ P!IsInjective(Append(kept, c))
          /\ P!ToSet(Append(kept, c)) = P!ToSet(kept) \cup {c}
      BY <2>1, <2>4, WithOneMore
    <2>6. /\ idles' \in Seq(Conns) /\ Len(idles') <= MaxIdle
          /\ P!IsInjective(idles)'
          /\ P!ToSet(idles)' = (P!ToSet(idles) \ out) \cup {c}
      <3>1. Len(kept) \in Nat
        BY <2>4
      <3>2. P!ToSet(idles)' = P!ToSet(idles') /\ P!IsInjective(idles)' = P!IsInjective(idles')
        BY DEF P!ToSet, P!IsInjective
      <3> QED
        BY <2>2, <2>4, <2>5, <3>1, <3>2
    <2>7. /\ held' = [held EXCEPT ![r] = NoConn] /\ step' = [step EXCEPT ![r] = "over"]
          /\ held'[r] = NoConn /\ step'[r] = "over"
          /\ \A q \in Requests \ {r} : held'[q] = held[q] /\ step'[q] = step[q]
      BY <1>1 DEF P!Moves, PoolInv, PoolTypes
    <2>8. PoolTypes'
      BY <1>1, <2>2, <2>6, <2>7 DEF PoolInv, PoolTypes
    <2>9. Owned'
      <3>1. \A q \in Requests : held'[q] # NoConn <=> step'[q] \in Using
        BY <2>7 DEF PoolInv, Owned, Using
      <3>2. \A q \in Requests : held'[q] \notin P!ToSet(idles)'
        <4>1. P!ToSet(idles) \subseteq Conns
          BY DEF PoolInv, PoolTypes, P!ToSet
        <4> QED
          BY <2>1, <2>6, <2>7, <4>1 DEF PoolInv, Owned
      <3>3. \A p, q \in Requests : held'[p] = held'[q] /\ held'[p] # NoConn => p = q
        BY <2>7 DEF PoolInv, Owned
      <3>4. ASSUME NEW d \in Conns
            PROVE  d \in open' <=> d \in P!ToSet(idles)' \/ \E q \in Requests : held'[q] = d
        <4>1. CASE d = c
          BY <2>1, <2>2, <2>4, <2>6, <4>1
        <4>2. CASE d # c
          <5>1. (\E q \in Requests : held'[q] = d) <=> (\E q \in Requests : held[q] = d)
            BY <2>1, <2>7, <4>2
          <5>2. d \in open <=> d \in P!ToSet(idles) \/ \E q \in Requests : held[q] = d
            BY DEF PoolInv, Owned
          <5>3. d \in out => ~\E q \in Requests : held[q] = d
            BY <2>4 DEF PoolInv, Owned
          <5> QED
            BY <2>2, <2>6, <4>2, <5>1, <5>2, <5>3
        <4> QED
          BY <4>1, <4>2
      <3> QED
        BY <2>6, <3>1, <3>2, <3>3, <3>4 DEF Owned
    <2>10. Carried'
      BY <1>1, <2>2, <2>7 DEF PoolInv, Carried, Carries
    <2>11. P!CleanIdle'
      <3>1. wire[c] = << >>
        BY <1>1, <2>1 DEF PoolInv, Carried, Carries
      <3> QED
        BY <1>1, <2>6, <3>1 DEF PoolInv, P!CleanIdle
    <2>12. Counts' /\ P!OwnResponse' /\ P!SentOnce'
      BY <1>1, <2>7 DEF PoolInv, Counts, Unsent, P!OwnResponse, P!SentOnce
    <2> QED
      BY <2>8, <2>9, <2>10, <2>11, <2>12 DEF PoolInv
  <1> QED
    BY <1>2, <1>3

\* Time and the server: what is under way may get lost.
LEMMA PoolOutside ==
    ASSUME NEW c \in Conns, PoolInv, P!Expire(c) \/ P!HangUp(c)
    PROVE  PoolInv'
  <1>1. /\ UNCHANGED <<idles, open, dialled, step, held, got, keep, served>>
        /\ expired' \subseteq P!ToSet(idles)
        /\ wire' \in {wire, [wire EXCEPT ![c] = << >>]}
    BY DEF P!Expire, P!HangUp, P!net, P!trip, P!pool, PoolInv, PoolTypes
  <1>2. P!ToSet(idles)' = P!ToSet(idles) /\ P!IsInjective(idles)' = P!IsInjective(idles)
    BY <1>1 DEF P!ToSet, P!IsInjective
  <1>3. PoolTypes'
    <2>1. << >> \in Seq([of: Requests, part: {"head", "body"}])
      OBVIOUS
    <2>2. wire' \in [Conns -> Seq([of: Requests, part: {"head", "body"}])]
      BY <1>1, <2>1 DEF PoolInv, PoolTypes
    <2> QED
      BY <1>1, <1>2, <2>2 DEF PoolInv, PoolTypes
  <1>4. Owned'
    BY <1>1, <1>2 DEF PoolInv, Owned
  <1>5. \A d \in Conns : wire'[d] \in {wire[d], << >>}
    BY <1>1 DEF PoolInv, PoolTypes
  <1>6. Carried'
    BY <1>1, <1>5 DEF PoolInv, Carried, Carries
  <1>7. Counts' /\ P!OwnResponse' /\ P!SentOnce'
    BY <1>1 DEF PoolInv, Counts, P!OwnResponse, P!SentOnce
  <1>8. P!CleanIdle'
    <2>1. P!ToSet(idles) \subseteq Conns
      BY DEF PoolInv, PoolTypes, P!ToSet
    <2> QED
      BY <1>2, <1>5, <2>1 DEF PoolInv, P!CleanIdle
  <1> QED
    BY <1>3, <1>4, <1>6, <1>7, <1>8 DEF PoolInv

LEMMA PoolNext ==
    ASSUME MaxIdle \in Nat, NoConn \notin Conns, PoolInv, [P!Next]_pvars
    PROVE  PoolInv'
  <1>1. CASE UNCHANGED pvars
    <2>1. P!ToSet(idles)' = P!ToSet(idles) /\ P!IsInjective(idles)' = P!IsInjective(idles)
      BY <1>1 DEF pvars, P!ToSet, P!IsInjective
    <2>2. PoolTypes' /\ Owned'
      BY <1>1, <2>1 DEF pvars, PoolInv, PoolTypes, Owned
    <2>3. Carried' /\ Counts' /\ P!CleanIdle' /\ P!OwnResponse' /\ P!SentOnce'
      BY <1>1, <2>1
         DEF pvars, PoolInv, Carried, Carries, Counts, P!CleanIdle, P!OwnResponse, P!SentOnce
    <2> QED
      BY <2>2, <2>3 DEF PoolInv
  <1>2. ASSUME NEW r \in Requests, P!WriteFails(r) PROVE PoolInv'
    <2> DEFINE s == IF step[r] = "send" THEN "again" ELSE "over"
    <2>1. /\ step[r] \in {"send", "resend"} /\ P!Closes({held[r]}) /\ P!Moves(r, NoConn, s)
          /\ UNCHANGED <<idles, expired, wire, got, keep, served>>
      BY <1>2 DEF P!WriteFails, P!Sending, P!pool
    <2>2. s \in {"again", "over"} /\ step[r] \in Using /\ served[r] = 0
      BY <2>1 DEF Using, Unsent, PoolInv, Counts
    <2> HIDE DEF s
    <2> QED
      BY <2>1, <2>2, LetsGo
  <1>3. ASSUME NEW r \in Requests, P!ReadFails(r) \/ P!Discard(r) PROVE PoolInv'
    BY <1>3, LetsGo DEF P!ReadFails, P!Discard, P!pool, Using
  <1> QED
    BY <1>1, <1>2, <1>3, PoolTakes, PoolDials, PoolWrites, PoolReads, PoolDrains, PoolPuts,
       PoolOutside DEF P!Next, P!RoundTrip

\* One owner each means as many round trips and places as NoLeak counts.
LEMMA OwnedIsNoLeak == ASSUME NoConn \notin Conns, PoolInv PROVE P!NoLeak
  <1>1. ASSUME NEW c \in Conns
        PROVE  P!Cardinality({r \in Requests : held[r] = c})
                 + (IF c \in P!ToSet(idles) THEN 1 ELSE 0) = (IF c \in open THEN 1 ELSE 0)
    <2> DEFINE H == {r \in Requests : held[r] = c}
    <2>1. CASE H = {}
      <3>1. P!Cardinality(H) = 0
        BY <2>1, FS_EmptySet, SameCardinality
      <3>2. c \in open <=> c \in P!ToSet(idles)
        BY <2>1 DEF PoolInv, Owned
      <3> QED
        BY <3>1, <3>2
    <2>2. ASSUME NEW r \in Requests, held[r] = c
          PROVE  P!Cardinality(H) = 1 /\ c \in open /\ c \notin P!ToSet(idles)
      <3>1. H = {r}
        BY <2>2 DEF PoolInv, Owned
      <3>2. P!Cardinality(H) = 1
        BY <3>1, FS_Singleton, SameCardinality
      <3> QED
        BY <2>2, <3>2 DEF PoolInv, Owned
    <2> QED
      BY <2>1, <2>2
  <1> QED
    BY <1>1 DEF PoolInv, Owned, P!NoLeak

--------------------------------------------------------------------------------
(* The parts side by side.                                                 *)

\* The part that takes a step leaves the others alone.
LEMMA OnePartSteps ==
    ASSUME [Next]_vars
    PROVE  /\ [T!Next]_tvars /\ [D!Next]_dvars /\ [P!Next]_pvars
           /\ part' = part
           /\ IF part = "url" THEN [U!Next]_uvars ELSE UNCHANGED uvars
  BY DEF Next, vars

\* Without callers nothing is fetched.
Fetching ==
    IF part = "url" THEN FetchInv
    ELSE inflight = {} /\ at = [u \in Callers |-> "url"]

\* Guard gives one answer; one made of the handler's output holds all it accepted,
\* and the header map is not copied while the handler changes it.
THEOREM OneAnswerAlways == Spec => []OneAnswer
  <1>1. Init => AnswerInv
    BY AnswerInit DEF Init
  <1>2. AnswerInv /\ [Next]_vars => AnswerInv'
    BY OnePartSteps, AnswerNext
  <1> QED
    BY <1>1, <1>2, AnswerFits, PTL DEF Spec

\* No answer a handler started is thrown away for a 504, for any handler.
THEOREM NothingDiscardedAlways == Spec => NothingDiscarded
  <1>1. Init => AnswerInv
    BY AnswerInit DEF Init
  <1>2. AnswerInv /\ [Next]_vars => AnswerInv'
    BY OnePartSteps, AnswerNext
  <1>3. AnswerInv /\ [Next]_vars =>
          [guard # "answered" /\ guard' = "answered" => reply'.chunks = accepted]_(T!vars)
    BY OnePartSteps, AnswerIsWhole
  <1> QED
    BY <1>1, <1>2, <1>3, PTL DEF Spec, NothingDiscarded, T!NothingDiscarded

\* ResolveAgentURL has one fetch under way per token, for any callers and tokens,
\* and a caller fails only with a fetch that failed, its own or the one it joined.
THEOREM OneFetchAlways == Spec => []OneFetch
  <1>1. Init => Fetching
    BY FetchInit DEF Init, NoCallers, Fetching
  <1>2. Fetching /\ [Next]_vars => Fetching'
    BY OnePartSteps, FetchNext DEF Fetching
  <1>3. Fetching => OneFetch
    <2>1. CASE part = "url"
      BY <2>1, LeadersIsOneFetch DEF Fetching, FetchInv, OneFetch
    <2>2. ASSUME Fetching, part # "url" PROVE OneFetch
      <3>1. \A t \in Tokens : {u \in Callers : <<t, u>> \in inflight} = {}
        BY <2>2 DEF Fetching
      <3>2. U!OneFetch
        <4>1. \A t \in Tokens : U!Cardinality({u \in Callers : <<t, u>> \in inflight}) <= 1
          <5> SUFFICES ASSUME NEW t \in Tokens
                       PROVE  U!Cardinality({u \in Callers : <<t, u>> \in inflight}) <= 1
            OBVIOUS
          <5>1. {u \in Callers : <<t, u>> \in inflight} = {}
            BY <3>1
          <5>2. U!Cardinality({}) = 0
            BY FS_EmptySet, SameCardinality
          <5>3. U!Cardinality({u \in Callers : <<t, u>> \in inflight}) = 0
            BY <5>1, <5>2, Zenon
          <5> QED
            BY <5>3
        <4>2. \A u \in Callers : at[u] # "fetching"
          BY <2>2 DEF Fetching
        <4> QED
          BY <4>1, <4>2 DEF U!OneFetch
      <3>3. U!FailsWithLeader
        BY <2>2 DEF Fetching, U!FailsWithLeader
      <3> QED
        BY <3>2, <3>3 DEF OneFetch
    <2> QED
      BY <2>1, <2>2
  <1> QED
    BY <1>1, <1>2, <1>3, PTL DEF Spec

\* A device login stays in the map until tokens came, the server refused it or 15
\* minutes passed, and of every answer with tokens the vault gets one credential
\* unless a fault loses it, for any finite number of pages.
THEOREM LoginKeptAlways ==
    ASSUME IsFiniteSet(Pages)
    PROVE  Spec => []LoginKept
  <1>1. Init => LoginInv
    BY LoginInit DEF Init
  <1>2. LoginInv /\ [Next]_vars => LoginInv'
    BY OnePartSteps, LoginNext
  <1>3. LoginInv => LoginKept
    BY SameCardinality DEF LoginInv, Decided, Conserved, LoginKept, D!LoginKept, Holding
  <1> QED
    BY <1>1, <1>2, <1>3, PTL DEF Spec

\* No connection of the pool is leaked or shared, an idle one carries nothing, no round
\* trip reads the answer to another one and none is sent twice, for any number of round
\* trips and connections and any room in the pool.
THEOREM PoolSoundAlways ==
    ASSUME MaxIdle \in Nat, NoConn \notin Conns
    PROVE  Spec => []PoolSound
  <1>1. Init => PoolInv
    BY PoolInit DEF Init
  <1>2. PoolInv /\ [Next]_vars => PoolInv'
    BY OnePartSteps, PoolNext
  <1>3. PoolInv => PoolSound
    BY OwnedIsNoLeak DEF PoolInv, PoolSound
  <1> QED
    BY <1>1, <1>2, <1>3, PTL DEF Spec
================================================================================
