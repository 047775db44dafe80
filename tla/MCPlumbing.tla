------------------------------ MODULE MCPlumbing ------------------------------
(***************************************************************************)
(* The request timeout, the connection pool, the agent URL cache, the        *)
(* translators of streams and of bodies, the thinking filter and the device  *)
(* logins in one instance.  They share no state, so a behaviour follows one  *)
(* of them; Init picks it.                                                   *)
(***************************************************************************)
EXTENDS Integers

CONSTANTS
    MaxChunks, Requests, Conns, MaxIdle, NoConn, Callers, Tokens,
    MaxEvents, Pages, MaxPolls, MaxStrikes, MaxText, MaxPiece, MaxTagLen,
    MaxParts

VARIABLES
    part,
    guard, handler, wrote, flushed, buf, accepted, late, reply, answers,
    idles, expired, open, dialled, hungup, wire, step, held, got, keep, cut, served,
    override, resolved, inflight, at, token, awaited, failed,
    source, client, phase, used, said, state, heard,
    provider, known, server, timedOut, page, ctxDone, polls, strikes, issued, lost, creds,
    began, given, buffer, inThinking, content, reasoning,
    inbound, history, answer, by

T == INSTANCE RequestTimeout
P == INSTANCE OrderedH1Pool
U == INSTANCE AgentURL
S == INSTANCE StreamTranslate
D == INSTANCE DeviceLogin
F == INSTANCE ThinkFilter
B == INSTANCE BodyTranslate

tvars == <<guard, handler, wrote, flushed, buf, accepted, late, reply, answers>>
pvars == <<idles, expired, open, dialled, hungup, wire, step, held, got, keep, cut, served>>
uvars == <<override, resolved, inflight, at, token, awaited, failed>>
svars == <<source, client, phase, used, said, state, heard>>
dvars == <<provider, known, server, timedOut, page, ctxDone, polls, strikes, issued, lost, creds>>
fvars == <<began, given, buffer, inThinking, content, reasoning>>
bvars == <<inbound, history, answer, by>>
vars == <<part, tvars, pvars, uvars, svars, dvars, fvars, bvars>>

\* Enough for two tool calls with arguments, and the end, in each format.
Streams == [claude |-> 10, responses |-> 9, chat |-> 6]

\* No caller of ResolveAgentURL.
NoCallers ==
    /\ override = "unset" /\ resolved = {} /\ inflight = {} /\ failed = {}
    /\ at = [u \in Callers |-> "url"] /\ awaited = [u \in Callers |-> u]
    /\ token = [u \in Callers |-> CHOOSE t \in Tokens : TRUE]

Init ==
    /\ part \in {"timeout", "pool", "url", "translate", "device", "think", "bodies"}
    /\ T!Init /\ P!Init /\ S!Init /\ D!Init /\ F!Init /\ B!Init
    /\ part = "translate" \/ (source = "chat" /\ client = "chat")
    /\ part = "device" \/ provider = "grok"
    /\ part = "bodies" \/ (inbound = "chat" /\ history.messages = << >>)
    /\ IF part = "url" THEN U!Init ELSE NoCallers

Next ==
    /\ UNCHANGED part
    /\ \/ part = "timeout" /\ T!Next /\ UNCHANGED <<pvars, uvars, svars, dvars, fvars, bvars>>
       \/ part = "pool" /\ P!Next /\ UNCHANGED <<tvars, uvars, svars, dvars, fvars, bvars>>
       \/ part = "url" /\ U!Next /\ UNCHANGED <<tvars, pvars, svars, dvars, fvars, bvars>>
       \/ part = "translate" /\ S!Next /\ UNCHANGED <<tvars, pvars, uvars, dvars, fvars, bvars>>
       \/ part = "device" /\ D!Next /\ UNCHANGED <<tvars, pvars, uvars, svars, fvars, bvars>>
       \/ part = "think" /\ F!Next /\ UNCHANGED <<tvars, pvars, uvars, svars, dvars, bvars>>
       \/ part = "bodies" /\ B!Next /\ UNCHANGED <<tvars, pvars, uvars, svars, dvars, fvars>>

Spec == Init /\ [][Next]_vars /\ T!Fairness /\ U!Fairness /\ D!Fairness

TypeOK == T!TypeOK /\ P!TypeOK /\ U!TypeOK /\ S!TypeOK /\ D!TypeOK /\ F!TypeOK /\ B!TypeOK

\* Guard gives one answer, made of all the handler was told it had written, and
\* reads no header map that is being written.
OneAnswer == T!OneAnswer /\ T!AcceptedIsSent /\ T!HeadersQuiet
\* No started answer is thrown away for a 504.
NothingDiscarded == T!NothingDiscarded

\* Connections are not leaked, shared or reused dirty, no round trip reads another
\* one's response, and no request is sent twice.
PoolSound == P!OwnResponse /\ P!NoLeak /\ P!CleanIdle /\ P!SentOnce

\* One fetch per key, none for a known one, and a waiter fails only with the fetch
\* it waited for.
OneFetch == U!OneFetch /\ U!FailsWithLeader

\* Client and provider hear each other in their own formats: streams, whole answers and
\* requests lose nothing but what is named, Cursor is asked the right turn, and what it
\* says is parted into text and thoughts wherever its pieces are cut.
SameAnswer ==
    S!SameAnswer /\ F!SplitAgnostic /\ B!SameConversation /\ B!SameReply /\ B!RightTurn

\* A device login stays until it is decided, and its tokens are not dropped.
LoginKept == D!LoginKept

\* A request under the timeout is answered, and so are everybody who asks for the
\* agent URL and every page of a device login.
AllAnswered == []<>~(T!Pending \/ U!Pending \/ D!Pending)
================================================================================
