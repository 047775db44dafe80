----------------------------- MODULE OrderedH1Pool -----------------------------
(***************************************************************************)
(* The HTTP/1.1 transport of the Claude clients, orderedH1Tripper of        *)
(* internal/provider/orderedh1.go: round trips of one host over connections *)
(* that are kept, expire, are evicted and are closed by the server.  The    *)
(* server of the other side is external: it answers each request it has     *)
(* read as a whole, may hang up at any time, and picks the encoding.        *)
(***************************************************************************)
EXTENDS Integers, FiniteSets, Sequences, SequencesExt

CONSTANTS
    Requests,  \* round trips, each of its own goroutine
    Conns,     \* connections that may be dialled
    MaxIdle,   \* maxIdle
    NoConn     \* no connection

VARIABLES
    idles,    \* idles[addr], newest last
    open,     \* connections dialled and not closed by this side
    dialled,  \* connections that were ever dialled
    hungup,   \* connections the server has closed
    expired,  \* idle connections older than idleTimeout
    wire,     \* wire[c]: what c still carries for this side, in order
    step,     \* a round trip: "new", "send", "again" (to take a second time),
              \* "resend", "read", "body", "put", "over"
    held,     \* the connection it has
    got,      \* what it read as its response head: a request, or NoConn
    keep,     \* `reuse` of its connBody
    cut,      \* connections whose last body ended before its framing did
    served    \* how often the server has read a request as a whole

pool == <<idles, expired>>
net == <<open, dialled, hungup>>
trip == <<step, held, got, keep>>
vars == <<pool, net, wire, trip, cut, served>>

Start(r) == [of |-> r, part |-> "head"]
Rest(r) == [of |-> r, part |-> "body"]

TypeOK ==
    /\ ToSet(idles) \subseteq Conns /\ Len(idles) <= MaxIdle
    /\ open \subseteq dialled /\ hungup \subseteq dialled /\ dialled \subseteq Conns
    /\ expired \subseteq ToSet(idles) /\ cut \subseteq Conns
    /\ wire \in [Conns -> Seq([of: Requests, part: {"head", "body"}])]
    /\ step \in [Requests -> {"new", "send", "again", "resend", "read", "body", "put", "over"}]
    /\ held \in [Requests -> Conns \cup {NoConn}]
    /\ got \in [Requests -> Requests \cup {NoConn}]
    /\ keep \in [Requests -> BOOLEAN]
    /\ served \in [Requests -> Nat]

Init ==
    /\ idles = << >> /\ expired = {}
    /\ open = {} /\ dialled = {} /\ hungup = {} /\ cut = {}
    /\ wire = [c \in Conns |-> << >>]
    /\ step = [r \in Requests |-> "new"]
    /\ held = [r \in Requests |-> NoConn]
    /\ got = [r \in Requests |-> NoConn]
    /\ keep = [r \in Requests |-> FALSE]
    /\ served = [r \in Requests |-> 0]

--------------------------------------------------------------------------------

Moves(r, c, s) ==
    /\ held' = [held EXCEPT ![r] = c]
    /\ step' = [step EXCEPT ![r] = s]

\* persistConn.close.
Closes(C) == open' = open \ C /\ UNCHANGED <<dialled, hungup>>

(* take: the newest idle connection, or a new one.                         *)

Taking(r) == step[r] \in {"new", "again"}
Sends(r) == IF step[r] = "new" THEN "send" ELSE "resend"

\* An expired connection is closed, and the loop looks again.
TakeExpired(r) ==
    /\ Taking(r) /\ idles # << >> /\ Last(idles) \in expired
    /\ idles' = Front(idles) /\ expired' = expired \ {Last(idles)}
    /\ Closes({Last(idles)})
    /\ UNCHANGED <<wire, trip, cut, served>>

Take(r) ==
    /\ Taking(r) /\ idles # << >> /\ Last(idles) \notin expired
    /\ idles' = Front(idles)
    /\ Moves(r, Last(idles), Sends(r))
    /\ UNCHANGED <<expired, net, wire, got, keep, cut, served>>

\* Which of the unused names a new connection gets makes no difference.
Dial(r) ==
    /\ Taking(r) /\ idles = << >>
    /\ \/ /\ Conns # dialled
          /\ LET c == CHOOSE c \in Conns : c \notin dialled
             IN  /\ open' = open \cup {c} /\ dialled' = dialled \cup {c}
                 /\ Moves(r, c, Sends(r))
       \/ Moves(r, NoConn, "over") /\ UNCHANGED <<open, dialled>>
    /\ UNCHANGED <<pool, hungup, wire, got, keep, cut, served>>

--------------------------------------------------------------------------------
(* RoundTrip.                                                              *)

Sending(r) == step[r] \in {"send", "resend"}

\* The whole request is handed over.  The server reads and answers it, unless it
\* has hung up: then the bytes go nowhere.
Write(r) ==
    /\ Sending(r)
    /\ Moves(r, held[r], "read")
    /\ IF held[r] \in hungup
         THEN UNCHANGED <<wire, served>>
         ELSE /\ wire' = [wire EXCEPT ![held[r]] = @ \o <<Start(r), Rest(r)>>]
              /\ served' = [served EXCEPT ![r] = @ + 1]
    /\ UNCHANGED <<pool, net, got, keep, cut>>

\* A write that fails closes the connection; the first time, and only then,
\* another one is taken.
WriteFails(r) ==
    /\ Sending(r) /\ held[r] \in hungup
    /\ Closes({held[r]})
    /\ Moves(r, NoConn, IF step[r] = "send" THEN "again" ELSE "over")
    /\ UNCHANGED <<pool, wire, got, keep, cut, served>>

\* ReadResponse.  Whatever is not the head of a response is malformed.
Read(r) ==
    LET c == held[r] IN
    /\ step[r] = "read" /\ c \notin cut /\ wire[c] # << >>
    /\ wire[c][1].part = "head"
    /\ got' = [got EXCEPT ![r] = wire[c][1].of]
    /\ wire' = [wire EXCEPT ![c] = Tail(@)]
    /\ \E again \in BOOLEAN : keep' = [keep EXCEPT ![r] = again]
    /\ Moves(r, c, "body")
    /\ UNCHANGED <<pool, net, cut, served>>

Unreadable(c) ==
    \/ c \in cut
    \/ wire[c] = << >> /\ c \in hungup
    \/ wire[c] # << >> /\ wire[c][1].part # "head"

\* Mutated: a failed read is tried again on another connection.
ReadFailsRetry(r) ==
    /\ step[r] = "read" /\ Unreadable(held[r])
    /\ Closes({held[r]})
    /\ Moves(r, NoConn, "again")
    /\ UNCHANGED <<pool, wire, got, keep, cut, served>>

\* A read that fails closes the connection and is not tried again.
ReadFails(r) ==
    /\ step[r] = "read" /\ Unreadable(held[r])
    /\ Closes({held[r]})
    /\ Moves(r, NoConn, "over")
    /\ UNCHANGED <<pool, wire, got, keep, cut, served>>

--------------------------------------------------------------------------------
(* connBody.Close: the caller is done with the response.                    *)

\* io.Copy reads what is left of the body.  A decoder (flate, brotli) may stop at
\* the end of its own data, before the end of the framing; errors are ignored.
Drain(r) ==
    LET c == held[r] IN
    /\ step[r] = "body" /\ keep[r]
    /\ wire' = [wire EXCEPT ![c] = IF @ = << >> THEN @ ELSE Tail(@)]
    /\ cut' \in {cut, cut \cup {c}}
    /\ keep' = [keep EXCEPT ![r] = FALSE]
    /\ Moves(r, c, "put")
    /\ UNCHANGED <<pool, net, got, served>>

Discard(r) ==
    /\ step[r] = "body" /\ ~keep[r]
    /\ Closes({held[r]})
    /\ Moves(r, NoConn, "over")
    /\ UNCHANGED <<pool, wire, got, keep, cut, served>>

\* Mutated: the connection that makes room is not closed.
PutLeaks(r) ==
    /\ step[r] = "put"
    /\ IF MaxIdle = 0
         THEN Closes({held[r]}) /\ UNCHANGED pool
         ELSE LET full == Len(idles) >= MaxIdle
              IN  /\ idles' = Append(IF full THEN Tail(idles) ELSE idles, held[r])
                  /\ expired' = expired \cap ToSet(idles')
                  /\ UNCHANGED net
    /\ Moves(r, NoConn, "over")
    /\ UNCHANGED <<wire, got, keep, cut, served>>

\* Mutated: a full pool takes one more.
PutUnbounded(r) ==
    /\ step[r] = "put"
    /\ idles' = Append(idles, held[r])
    /\ Moves(r, NoConn, "over")
    /\ UNCHANGED <<expired, net, wire, got, keep, cut, served>>

\* put: a full pool closes its oldest connection; without a pool none is kept.
Put(r) ==
    /\ step[r] = "put"
    /\ IF MaxIdle = 0
         THEN Closes({held[r]}) /\ UNCHANGED pool
         ELSE LET full == Len(idles) >= MaxIdle
                  out == IF full THEN {idles[1]} ELSE {}
              IN  /\ idles' = Append(IF full THEN Tail(idles) ELSE idles, held[r])
                  /\ expired' = expired \ out
                  /\ Closes(out)
    /\ Moves(r, NoConn, "over")
    /\ UNCHANGED <<wire, got, keep, cut, served>>

--------------------------------------------------------------------------------
(* Time and the server.                                                    *)

Expire(c) ==
    /\ c \in ToSet(idles) \ expired
    /\ expired' = expired \cup {c}
    /\ UNCHANGED <<idles, net, wire, trip, cut, served>>

\* The server closes its side; what is under way arrives or is lost.
HangUp(c) ==
    /\ c \in open \ hungup
    /\ hungup' = hungup \cup {c}
    /\ wire' \in {wire, [wire EXCEPT ![c] = << >>]}
    /\ UNCHANGED <<pool, open, dialled, trip, cut, served>>

--------------------------------------------------------------------------------

RoundTrip(r) ==
    \/ TakeExpired(r) \/ Take(r) \/ Dial(r)
    \/ Write(r) \/ WriteFails(r) \/ Read(r) \/ ReadFails(r)
    \/ Drain(r) \/ Discard(r) \/ Put(r)

Next ==
    \/ \E r \in Requests : RoundTrip(r)
    \/ \E c \in Conns : Expire(c) \/ HangUp(c)

Spec == Init /\ [][Next]_vars

--------------------------------------------------------------------------------

\* No round trip is given the response of another one, whatever was kept, cut
\* short or closed before it on the same connection.
OwnResponse == \A r \in Requests : got[r] \in {r, NoConn}

\* A connection is in one place: idle once, or in the hands of one round trip.
\* One that is in neither is closed: pooling, eviction, expiry and errors leak none.
NoLeak ==
    /\ IsInjective(idles)
    /\ \A c \in Conns :
          Cardinality({r \in Requests : held[r] = c})
              + (IF c \in ToSet(idles) THEN 1 ELSE 0) = (IF c \in open THEN 1 ELSE 0)

\* A request is read by the server once at most: the retry follows only a write
\* that failed, never an answer that did not come.  An inference that is sent
\* twice is paid for twice.
SentOnce == \A r \in Requests : served[r] <= 1

\* The next round trip finds no byte of an earlier response on an idle connection,
\* unless a decoder stopped early.
CleanIdle == \A c \in ToSet(idles) : wire[c] = << >>
================================================================================
