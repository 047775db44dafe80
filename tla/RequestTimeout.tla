---------------------------- MODULE RequestTimeout ----------------------------
(***************************************************************************)
(* Guard of internal/httpx/server.go: one request, its handler's goroutine, *)
(* the timeoutWriter between them and the deadline of 30 seconds.           *)
(***************************************************************************)
EXTENDS Integers

CONSTANT MaxChunks  \* bound: Write calls of a handler

VARIABLES
    guard,     \* Guard: "arrived", "direct", "waiting", "copying", "answered"
    handler,   \* the handler: "off", "running", "header", "returned", "panicked"
    wrote, flushed, buf,  \* the timeoutWriter; buf counts the chunks in it
    accepted,  \* chunks whose Write returned no error
    late,      \* ctx is done: the deadline passed, or the client left
    reply,     \* what the client got: status "none", "rejected", "handler",
               \* "timeout" or "torn" (net/http cut the connection), and chunks
    answers    \* calls of WriteHeader on the client's ResponseWriter

writer == <<wrote, flushed, buf>>
vars == <<guard, handler, writer, accepted, late, reply, answers>>

NoReply == [status |-> "none", chunks |-> 0]

TypeOK ==
    /\ guard \in {"arrived", "direct", "waiting", "copying", "answered"}
    /\ handler \in {"off", "running", "header", "returned", "panicked"}
    /\ wrote \in BOOLEAN /\ flushed \in BOOLEAN /\ late \in BOOLEAN
    /\ buf \in 0 .. MaxChunks /\ accepted \in 0 .. MaxChunks
    /\ reply \in [status: {"none", "rejected", "handler", "timeout", "torn"},
                  chunks: 0 .. MaxChunks]
    /\ answers \in Nat

Init ==
    /\ guard = "arrived" /\ handler = "off"
    /\ wrote = FALSE /\ flushed = FALSE /\ buf = 0
    /\ accepted = 0 /\ late = FALSE /\ reply = NoReply /\ answers = 0

Reply(status, chunks) ==
    /\ reply' = [status |-> status, chunks |-> chunks]
    /\ answers' = answers + 1

--------------------------------------------------------------------------------
(* Guard.                                                                  *)

\* A method override is refused before anything else.
Reject ==
    /\ guard = "arrived"
    /\ guard' = "answered"
    /\ Reply("rejected", 0)
    /\ UNCHANGED <<handler, writer, accepted, late>>

\* noTimeout: streams and slow routes write to the client themselves.
Pass ==
    /\ guard = "arrived"
    /\ guard' = "direct" /\ handler' = "running"
    /\ UNCHANGED <<writer, accepted, late, reply, answers>>

Watch ==
    /\ guard = "arrived"
    /\ guard' = "waiting" /\ handler' = "running"
    /\ UNCHANGED <<writer, accepted, late, reply, answers>>

Deadline ==
    /\ guard = "waiting" /\ ~late
    /\ late' = TRUE
    /\ UNCHANGED <<guard, handler, writer, accepted, reply, answers>>

Closed == handler \in {"returned", "panicked"}

\* flushTo takes the lock and copies the headers without one of their own.
BeginFlush ==
    /\ guard' = "copying" /\ flushed' = TRUE
    /\ UNCHANGED <<handler, wrote, buf, accepted, late, reply, answers>>

\* The select of Guard; when both channels are ready it takes either.
WakeDone == guard = "waiting" /\ Closed /\ BeginFlush

\* Mutated: the deadline flushes without asking started().
WakeLateUnasked == guard = "waiting" /\ late /\ BeginFlush

\* Mutated: the deadline answers 504 whatever the handler wrote.
WakeLateBlind ==
    /\ guard = "waiting" /\ late
    /\ guard' = "answered"
    /\ Reply("timeout", 0)
    /\ UNCHANGED <<handler, writer, accepted, late>>

WakeLate ==
    /\ guard = "waiting" /\ late
    /\ \/ wrote /\ BeginFlush
       \/ /\ ~wrote
          /\ guard' = "answered"
          /\ Reply("timeout", 0)
          /\ UNCHANGED <<handler, writer, accepted, late>>

EndFlush ==
    /\ guard = "copying"
    /\ guard' = "answered"
    /\ Reply("handler", buf)
    /\ UNCHANGED <<handler, writer, accepted, late>>

--------------------------------------------------------------------------------
(* The handler.  The handlers of this program set headers before they write *)
(* and never after.  The lock keeps them out of the writer during a flush.  *)

Unlocked == guard # "copying"

TouchHeader ==
    /\ handler = "running" /\ ~wrote
    /\ handler' = "header"
    /\ UNCHANGED <<guard, writer, accepted, late, reply, answers>>

LeaveHeader ==
    /\ handler = "header"
    /\ handler' = "running"
    /\ UNCHANGED <<guard, writer, accepted, late, reply, answers>>

WriteHeader ==
    /\ handler = "running" /\ guard # "direct" /\ Unlocked
    /\ wrote' = (wrote \/ ~flushed)
    /\ UNCHANGED <<guard, handler, flushed, buf, accepted, late, reply, answers>>

\* timeoutWriter.Write: an error once the answer is out.
Write ==
    /\ handler = "running" /\ guard # "direct" /\ Unlocked
    /\ ~flushed /\ buf < MaxChunks
    /\ wrote' = TRUE /\ buf' = buf + 1 /\ accepted' = accepted + 1
    /\ UNCHANGED <<guard, handler, flushed, late, reply, answers>>

\* On a route without timeout every chunk goes out at once.
WriteDirect ==
    /\ handler = "running" /\ guard = "direct" /\ accepted < MaxChunks
    /\ accepted' = accepted + 1 /\ wrote' = TRUE
    /\ reply' = [status |-> "handler", chunks |-> accepted']
    /\ answers' = IF wrote THEN answers ELSE answers + 1
    /\ UNCHANGED <<guard, handler, flushed, buf, late>>

\* done is closed on the way out, of a panic too, which recover() swallows.
\* On a direct route net/http answers an empty 200, or tears the connection.
Leave(how) ==
    /\ handler = "running"
    /\ handler' = how
    /\ IF guard # "direct"
         THEN UNCHANGED <<guard, reply, answers>>
         ELSE /\ guard' = "answered"
              /\ IF how = "panicked"
                   THEN reply' = [reply EXCEPT !.status = "torn"] /\ UNCHANGED answers
                   ELSE IF wrote THEN UNCHANGED <<reply, answers>> ELSE Reply("handler", 0)
    /\ UNCHANGED <<writer, accepted, late>>

Return == Leave("returned")
Panic == Leave("panicked")

--------------------------------------------------------------------------------

GuardSteps == WakeDone \/ WakeLate \/ EndFlush
HandlerSteps == TouchHeader \/ LeaveHeader \/ WriteHeader \/ Write \/ WriteDirect
                  \/ Return \/ Panic

Next == Reject \/ Pass \/ Watch \/ Deadline \/ GuardSteps \/ HandlerSteps

\* The deadline is a timer, and Guard's goroutine runs when it can; nothing is
\* assumed of the handler.
Fairness == WF_vars(GuardSteps) /\ WF_vars(Deadline)
Spec == Init /\ [][Next]_vars /\ Fairness

--------------------------------------------------------------------------------

\* The client of Guard gets one answer: a 504, or what the handler wrote, and
\* never a second status line when deadline, return and panic come together.
OneAnswer == answers <= 1

\* An answer made of the handler's output holds every chunk whose Write
\* succeeded: no handler is told that bytes went out which the client never
\* sees, also when the deadline cuts it off half way.
AcceptedIsSent ==
    guard = "answered" /\ reply.status = "handler" => reply.chunks = accepted

\* Whatever Guard answers, the client gets all the handler was told it had
\* written by then: no 504 throws a started answer away, though return and
\* deadline may be ready together.
NothingDiscarded ==
    [][guard # "answered" /\ guard' = "answered" => reply'.chunks = accepted]_vars

\* Guard reads the header map only while no handler changes it: a map write that
\* meets the copy would end the process.
HeadersQuiet == ~(guard = "copying" /\ handler = "header")

\* A request under the timeout that Guard has not answered yet.  It does in the end,
\* whether or not the handler ends.
Pending == guard \in {"waiting", "copying"}
================================================================================
