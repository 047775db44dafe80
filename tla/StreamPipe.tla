------------------------------- MODULE StreamPipe -------------------------------
(***************************************************************************)
(* One streamed answer on its way from the provider to the client:          *)
(*                                                                         *)
(*   body -> ParseSSE -> ch(16) -> [relay -> out(16)] -> the goroutine that *)
(*   Proxy starts -> out, unbuffered -> StreamSSE -> client                 *)
(*                                                                         *)
(* (internal/provider/httpjson.go, internal/provider/claude/executor.go,    *)
(* internal/proxy/proxy.go, internal/httpx/stream.go).  The goroutine in    *)
(* the middle ("pump" below) translates, and it alone writes the usage      *)
(* event, behind the last line.                                            *)
(*                                                                         *)
(* An upstream event is its number in the sequence `said`, where its kind   *)
(* is what the translators ask about it: "final" (a finish_reason,          *)
(* message_stop, response.completed), "failed" (the finish_reason "error")  *)
(* or "content".  A line is the number of the event it was made from, Done  *)
(* for "data: [DONE]".                                                     *)
(***************************************************************************)
EXTENDS Integers, Sequences, SequencesExt

CONSTANTS
    Routes,     \* pairs of inbound and upstream format, see Route
    MaxEvents,  \* bound: events of the provider
    MaxLines,   \* bound: lines one event is translated to
    Capacity    \* slots of a buffered channel

\* "chat": OpenAI chat clients, with a [DONE] line.  "direct": Claude and Responses
\* clients.  "identity": a Claude client of Claude, whose events are passed through
\* by claudeStreamIdentity.  Claude's executor puts the relay in between.
Route == [form : {"chat", "direct", "identity"}, relayed : BOOLEAN]

ASSUME StreamAssumption ==
    /\ Routes \subseteq Route
    /\ \A r \in Routes : r.form = "identity" => r.relayed
    /\ MaxEvents \in Nat /\ MaxLines \in Nat \ {0} /\ Capacity \in Nat \ {0}

Done == 0
Kind == {"content", "final", "failed"}
Line == 0 .. MaxEvents

VARIABLES
    route,              \* the formats of this stream
    body,               \* the response body: "open" or "ended"
    said,               \* the kinds of the events the provider has sent
    parsed, relayed,    \* the buffered channels, the first and the last of them
    pump,               \* "range", "send", "tail", "record" or "closed"
    lines,              \* lines the pump still has to send
    finished, failed,   \* StreamState: Finished, Error
    sentDone,
    made,               \* history: the lines the pump has made
    handler, line,      \* StreamSSE: "select", "write" or "returned"; the line in hand
    client, delivered,  \* the client, and what was written to it
    metered             \* status of the usage event, "none" before it

upstream == <<route, body, said>>
channels == <<parsed, relayed>>
state == <<finished, failed, sentDone>>
pumping == <<pump, lines, state, made, metered>>
serving == <<handler, line, client, delivered>>
vars == <<upstream, channels, pumping, serving>>

TypeOK ==
    /\ route \in Routes
    /\ body \in {"open", "ended"}
    /\ said \in Seq(Kind) /\ Len(said) <= MaxEvents
    /\ \A ch \in {parsed, relayed} : ch \in Seq(1 .. Len(said)) /\ Len(ch) <= Capacity
    /\ pump \in {"range", "send", "tail", "record", "closed"}
    /\ lines \in Seq(Line) /\ made \in Seq(Line) /\ delivered \in Seq(Line)
    /\ finished \in BOOLEAN /\ failed \in BOOLEAN /\ sentDone \in BOOLEAN
    /\ handler \in {"select", "write", "returned"} /\ line \in Seq(Line)
    /\ client \in {"reading", "gone"}
    /\ metered \in {"none", "ok", "error"}

Init ==
    /\ route \in Routes
    /\ body = "open" /\ said = << >>
    /\ parsed = << >> /\ relayed = << >>
    /\ pump = "range" /\ lines = << >> /\ made = << >>
    /\ finished = FALSE /\ failed = FALSE /\ sentDone = FALSE
    /\ handler = "select" /\ line = << >>
    /\ client = "reading" /\ delivered = << >>
    /\ metered = "none"

--------------------------------------------------------------------------------
(* The provider and ParseSSE.                                              *)

\* Mutated: a full channel grows.
ParseUnbounded(kind) ==
    /\ body = "open"
    /\ Len(said) < MaxEvents
    /\ said' = Append(said, kind)
    /\ parsed' = Append(parsed, Len(said'))
    /\ UNCHANGED <<route, body, relayed, pumping, serving>>

\* ParseSSE reads an event and sends it: a full channel stops the reading.
Parse(kind) ==
    /\ body = "open"
    /\ Len(said) < MaxEvents
    /\ Len(parsed) < Capacity
    /\ said' = Append(said, kind)
    /\ parsed' = Append(parsed, Len(said'))
    /\ UNCHANGED <<route, body, relayed, pumping, serving>>

\* The end of the body, a broken connection, a line over the scanner's limit, or the
\* cancelled context of a client that has gone: ParseSSE closes its channel.
BodyEnds ==
    /\ body = "open"
    /\ body' = "ended"
    /\ UNCHANGED <<route, said, channels, pumping, serving>>

\* The goroutine that restores tool names in a Claude stream, event by event.
Relay ==
    /\ route.relayed
    /\ parsed # << >>
    /\ Len(relayed) < Capacity
    /\ relayed' = Append(relayed, Head(parsed))
    /\ parsed' = Tail(parsed)
    /\ UNCHANGED <<upstream, pumping, serving>>

--------------------------------------------------------------------------------
(* The pump: `for chunk := range result.Stream`.                           *)

Incoming == IF route.relayed THEN relayed ELSE parsed

\* Mutated: every final event is followed by [DONE].
TranslateEach(e, k) ==
    LET own == [i \in 1 .. k |-> e]
        ends == said[e] = "final" /\ route.form # "identity"
    IN  /\ route.form = "identity" => k = 1
        /\ lines' = IF route.form = "chat" /\ ends THEN Append(own, Done) ELSE own
        /\ finished' = (finished \/ ends)
        /\ failed' = (failed \/ (said[e] = "failed" /\ route.form # "identity"))
        /\ sentDone' = (sentDone \/ Done \in ToSet(lines'))

\* TranslateStream: up to MaxLines lines, and behind the first final event of a chat
\* [DONE].  The identity looks neither at the kind of an event nor at the state.
Translate(e, k) ==
    LET own == [i \in 1 .. k |-> e]
        ends == said[e] = "final" /\ route.form # "identity"
    IN  /\ route.form = "identity" => k = 1
        /\ lines' = IF route.form = "chat" /\ ends /\ ~finished THEN Append(own, Done) ELSE own
        /\ finished' = (finished \/ ends)
        /\ failed' = (failed \/ (said[e] = "failed" /\ route.form # "identity"))
        /\ sentDone' = (sentDone \/ Done \in ToSet(lines'))

Receive(k) ==
    /\ pump = "range"
    /\ Incoming # << >>
    /\ Translate(Head(Incoming), k)
    /\ made' = made \o lines'
    /\ pump' = "send"
    /\ IF route.relayed THEN relayed' = Tail(relayed) /\ UNCHANGED parsed
                        ELSE parsed' = Tail(parsed) /\ UNCHANGED relayed
    /\ UNCHANGED <<upstream, metered, serving>>

\* The send on the unbuffered channel: StreamSSE takes the line in its select.
Send ==
    /\ pump \in {"send", "tail"}
    /\ lines # << >>
    /\ handler = "select"
    /\ line' = <<Head(lines)>>
    /\ handler' = "write"
    /\ lines' = Tail(lines)
    /\ UNCHANGED <<upstream, channels, pump, state, made, client, delivered, metered>>

NextEvent ==
    /\ pump = "send"
    /\ lines = << >>
    /\ pump' = "range"
    /\ UNCHANGED <<upstream, channels, lines, state, made, metered, serving>>

\* The range ends with the channel: a chat client that has not seen [DONE] gets it.
RangeEnds ==
    /\ pump = "range"
    /\ body = "ended" /\ parsed = << >> /\ relayed = << >>
    /\ pump' = "tail"
    /\ lines' = IF route.form = "chat" /\ ~sentDone THEN <<Done>> ELSE << >>
    /\ made' = made \o lines'
    /\ UNCHANGED <<upstream, channels, state, metered, serving>>

\* Mutated: only an error that was reported makes the status "error".
RecordUnlessFailed ==
    /\ pump = "tail"
    /\ lines = << >>
    /\ metered' = IF failed THEN "error" ELSE "ok"
    /\ pump' = "record"
    /\ UNCHANGED <<upstream, channels, lines, state, made, serving>>

Record ==
    /\ pump = "tail"
    /\ lines = << >>
    /\ metered' = IF failed \/ ~finished THEN "error" ELSE "ok"
    /\ pump' = "record"
    /\ UNCHANGED <<upstream, channels, lines, state, made, serving>>

\* The deferred close(out).
Close ==
    /\ pump = "record"
    /\ pump' = "closed"
    /\ UNCHANGED <<upstream, channels, lines, state, made, metered, serving>>

--------------------------------------------------------------------------------
(* StreamSSE and the client.                                               *)

\* Mutated: a line the client is slow to take is dropped.
WriteOrDrop ==
    /\ handler = "write"
    /\ delivered' \in {delivered, delivered \o line}
    /\ line' = << >>
    /\ handler' = "select"
    /\ UNCHANGED <<upstream, channels, pumping, client>>

\* Mutated: StreamSSE takes [DONE] for the end.
WriteUntilDone ==
    /\ handler = "write"
    /\ line' = << >>
    /\ delivered' = delivered \o line
    /\ handler' = IF line = <<Done>> THEN "returned" ELSE "select"
    /\ UNCHANGED <<upstream, channels, pumping, client>>

\* A write succeeds, or fails once the client has gone, and then StreamSSE returns.
Write ==
    /\ handler = "write"
    /\ line' = << >>
    /\ \/ delivered' = delivered \o line /\ handler' = "select"
       \/ client = "gone" /\ handler' = "returned" /\ UNCHANGED delivered
    /\ UNCHANGED <<upstream, channels, pumping, client>>

\* The closed channel, or the request's context, ends the loop; lines that are still
\* on their way are not drained.
Return ==
    /\ handler = "select"
    /\ pump = "closed" \/ client = "gone"
    /\ handler' = "returned"
    /\ UNCHANGED <<upstream, channels, pumping, line, client, delivered>>

ClientLeaves ==
    /\ client = "reading"
    /\ handler # "returned"
    /\ client' = "gone"
    /\ UNCHANGED <<upstream, channels, pumping, handler, line, delivered>>

Pump == (\E k \in 0 .. MaxLines : Receive(k)) \/ NextEvent \/ RangeEnds \/ Record \/ Close

Serve == Send \/ Write \/ Return

Next ==
    \/ \E kind \in {"content", "final", "failed"} : Parse(kind)
    \/ BodyEnds \/ Relay \/ Pump \/ Serve
    \/ ClientLeaves

Spec == Init /\ [][Next]_vars

\* Goroutines that can run run, and the provider ends its answer in the end: for that
\* the code has no timeout of its own once the headers have come.
FairSpec == Spec /\ WF_vars(BodyEnds) /\ WF_vars(Relay) /\ WF_vars(Pump) /\ WF_vars(Serve)

--------------------------------------------------------------------------------
(* Properties.                                                             *)

\* As long as the client reads, every line that was made is delivered or on its way,
\* in the order it was made, however the goroutines are scheduled.
NothingLost == client = "reading" => made = delivered \o line \o lines

\* A client that has read to the end of its answer has all of it, and its usage event
\* was written before: only a client that goes away leaves the pump alone.
EndsMetered == handler = "returned" /\ client = "reading" => metered # "none" /\ delivered = made

\* A chat that ran to its end carries exactly one [DONE], whether the translator or the
\* end of the range has written it; no other stream carries any.
OneDone ==
    /\ \A i, j \in DOMAIN made : made[i] = Done /\ made[j] = Done => i = j
    /\ metered # "none" => (Done \in ToSet(made) <=> route.form = "chat")

\* "ok" in the usage table means the provider came to its end: nothing it said is left
\* in a channel, one of its events was final and none reported an error.
OkIsComplete ==
    metered = "ok" =>
        /\ parsed = << >> /\ relayed = << >> /\ lines = << >>
        /\ Contains(said, "final") /\ ~Contains(said, "failed")

\* The converse.  What Proxy does otherwise is to log "stream ended before the provider
\* finished" (logIncompleteStream).
CompleteIsOk ==
    metered # "none" /\ Contains(said, "final") /\ ~Contains(said, "failed") => metered = "ok"

\* A stream whose client stays is metered in the end: nothing waits for ever for
\* anything but a client.
Completes == <>(metered # "none" \/ client = "gone")
================================================================================
