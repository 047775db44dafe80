----------------------------- MODULE CursorSession -----------------------------
(***************************************************************************)
(* The requests of one conversation with Cursor: RunChat, runStream and     *)
(* resumeTools of internal/provider/cursor/protocol.go, over bridges        *)
(* (HTTP/2 streams) as h2.go makes them.                                    *)
(*                                                                         *)
(* A request is known by its name, and so are the stream it answers with    *)
(* (its turn) and the bridge it opens.  Goroutines run programs: sequences  *)
(* of the steps between which others may come, a send on the stream, a      *)
(* section under sessionMu, the close of a channel.  The frames of the      *)
(* server are external; so are the client and the transport below h2.go.    *)
(***************************************************************************)
EXTENDS Integers, Sequences, FiniteSets, SequencesExt

CONSTANTS
    MaxRequests,  \* requests with the same bridgeKey and convKey
    MaxExecs,     \* bound: tool calls of the server on a bridge
    Capacity,     \* slots of `out`
    Limits,       \* bounds to choose from: [requests, bridges, frames, kinds, streamed,
                  \* faults, stalls], how many requests, bridges and frames on each
                  \* bridge, which kinds each frame may have, which values of `stream`,
                  \* which of "close", "leave", "dead" and "evict" may happen, and on
                  \* which bridges the server may stop reading
    None

\* In the order in which they come.
Requests == 1 .. MaxRequests

VARIABLES
    limit,     \* the bounds of this behaviour
    lock,      \* who holds sessionMu over several steps
    current,   \* conversationStates[convKey], by the request that made the entry
    entry,     \* the entries, also the ones dropped from the map: conversation
               \* ID, the bridge its checkpoint came from and the blobs it refers
               \* to, whether a resumed turn stored it, resumeRequestHash, blobStore
    active,    \* activeBridges[bridgeKey], by the exec that made the struct
    pending,   \* activeBridge.pending of a struct
    life,      \* a bridge: "none", "alive", "dead" (alive is false)
    ended,     \* bridges whose End was called
    heart,     \* a bridge's heartbeat goroutine: "off", "on", "stopped"
    onData, onClose,       \* the turns whose callbacks a bridge has
    frames, asked, said, sent,  \* frames and execs of a bridge so far, whether the
                           \* turn "ended" or "failed"; results sent for an exec
    blobs,     \* the blobStore of a bridge's payload
    pc, ask, stored, taken,  \* RunChat: where it is, the results it brings, its
                           \* entry, the struct it took
    turn,      \* the streams
    watching,  \* turns whose watcher goroutine waits
    todo,      \* programs of the goroutines
    gone,      \* requests whose client has left
    known,     \* execs a client was told of, with the finish_reason "tool_calls"
    panicked,  \* "no", or on a closed channel a "send" or a "close": Go ends the process
    stopped, before, used, stray, displaced  \* history, see the properties

sessions == <<lock, current, entry, active, pending>>
bridges == <<life, ended, heart, onData, onClose>>
server == <<frames, asked, said, sent, blobs>>
requests == <<pc, ask, stored, taken>>
clients == <<gone, known>>
history == <<stopped, before, used, stray, displaced>>
vars == <<limit, sessions, bridges, server, requests, turn, watching, todo, clients, panicked, history>>

Execs == Requests \X (1 .. MaxExecs)
BridgeOf(x) == x[1]
Procs == {"main", "reader", "closer", "watcher"} \X Requests
Kinds == {"text", "ended", "blob", "checkpoint", "exec", "unsupported", "failed"}
Codes == {"eof", "err"}  \* closeIdle takes the way of closeErr

ASSUME SessionAssumption ==
    /\ MaxRequests \in Nat /\ MaxExecs \in Nat /\ Capacity \in Nat
    /\ \A l \in Limits : l.frames \in [Requests -> Nat] /\ l.streamed \subseteq BOOLEAN
    /\ None \notin Requests \cup Execs \cup Procs
    /\ \A results \in SUBSET Execs : results # None

NoEntry == [id |-> None, checkpoint |-> None, refs |-> {}, resumed |-> FALSE, hash |-> None,
            blobs |-> {}]
NewTurn ==
    [bridge |-> None, stream |-> FALSE, out |-> << >>, state |-> "open", by |-> None,
     emitMu |-> None, calls |-> {}, turnEnded |-> FALSE, terminal |-> FALSE,
     cancelled |-> FALSE, latest |-> {}, ends |-> 0]

TypeOK ==
    /\ lock \in Requests \cup {None} /\ current \in Requests \cup {None}
    /\ \A o \in Requests :
          /\ entry[o].id \in Requests \cup {None}
          /\ entry[o].checkpoint \in Requests \cup {None}
          /\ entry[o].blobs \cup blobs[o] \subseteq Requests \X Nat
    /\ active \in Execs \cup {None} /\ pending \in [Execs -> SUBSET Execs]
    /\ life \in [Requests -> {"none", "alive", "dead"}]
    /\ ended \subseteq Requests /\ heart \in [Requests -> {"off", "on", "stopped"}]
    /\ \A b \in Requests : asked[b] <= MaxExecs /\ frames[b] <= limit.frames[b]
    /\ \A x \in Execs : BridgeOf(x) \in Requests /\ sent[x] \in Nat
    /\ \A t \in Requests :
          /\ turn[t].state \in {"open", "closing", "closed"}
          /\ turn[t].stream => Len(turn[t].out) <= Capacity
          /\ turn[t].emitMu \in Procs \cup {None}
    /\ watching \subseteq Requests /\ gone \subseteq Requests /\ known \subseteq Execs
    /\ panicked \in {"no", "send", "close"}

Init ==
    /\ limit \in Limits
    /\ lock = None /\ current = None /\ entry = [o \in Requests |-> NoEntry]
    /\ active = None /\ pending = [x \in Execs |-> {}]
    /\ life = [b \in Requests |-> "none"] /\ ended = {}
    /\ heart = [b \in Requests |-> "off"]
    /\ onData = [b \in Requests |-> None] /\ onClose = [b \in Requests |-> None]
    /\ frames = [b \in Requests |-> 0] /\ asked = [b \in Requests |-> 0]
    /\ said = [b \in Requests |-> "nothing"] /\ sent = [x \in Execs |-> 0]
    /\ blobs = [b \in Requests |-> {}]
    /\ pc = [r \in Requests |-> "new"] /\ ask = [r \in Requests |-> {}]
    /\ stored = [r \in Requests |-> None] /\ taken = [r \in Requests |-> None]
    /\ turn = [t \in Requests |-> NewTurn] /\ watching = {}
    /\ todo = [p \in Procs |-> << >>]
    /\ gone = {} /\ known = {} /\ panicked = "no"
    /\ stopped = {} /\ before = [r \in Requests |-> {}]
    /\ used = [r \in Requests |-> NoEntry] /\ stray = {} /\ displaced = {}

--------------------------------------------------------------------------------
(* Programs.                                                               *)

Emit(t, k, x) == [do |-> "emit", turn |-> t, chunk |-> [kind |-> k, exec |-> x]]
Do(what, t) == [do |-> what, turn |-> t, chunk |-> None]
Register(t, x) == [do |-> "register", turn |-> t, chunk |-> x]

Terminal == {"calls", "stop", "error"}
Opened(t) == turn[t].bridge = t  \* the turn's callbacks are those of runStream

\* cleanupActive of the bridge of turn t.
Cleanup(t) == <<Do("cleanup", t)>>

\* The marker that tells the stream apart from its end.
Marker(t) == IF turn[t].stream THEN <<Emit(t, "done", None)>> ELSE << >>

\* Mutated: the tool call is announced and over before its bridge can be found.
FirstCallLate(t, x) ==
    <<Emit(t, "call", x), Emit(t, "calls", x)>> \o Marker(t) \o <<Do("finish", t), Register(t, x)>>

\* Mutated: the turn goes on behind its tool calls.
FirstCallOpen(t, x) ==
    <<Emit(t, "call", x), Register(t, x), Emit(t, "calls", x)>> \o Marker(t)

\* The tool call: announced, registered under sessionMu, then the turn is over.
FirstCall(t, x) ==
    <<Emit(t, "call", x), Register(t, x), Emit(t, "calls", x)>> \o Marker(t) \o <<Do("finish", t)>>

\* What a turn's callbacks do with a frame: onText, onMcp, onCheckpoint,
\* onProtocolError and the end of the Connect stream.
OnFrame(t, kind, x) ==
    CASE kind = "text" -> <<Emit(t, "text", None)>>
      [] kind = "ended" -> <<Do("ended", t)>>
      [] kind = "blob" -> << >>
      [] kind = "checkpoint" -> <<Do("checkpoint", t)>>
      [] kind = "exec" /\ Opened(t) ->
            FirstCall(t, x)
      [] kind = "exec" /\ ~Opened(t) ->
            <<Register(t, x), Emit(t, "calls", x), Do("finish", t)>>
      [] kind = "unsupported" /\ Opened(t) ->
            IF turn[t].cancelled THEN << >>
            ELSE <<Emit(t, "error", None), Emit(t, "usage", None), Do("finish", t)>>
      [] kind = "failed" /\ Opened(t) ->
            <<Do("drop", t), Emit(t, "error", None), Emit(t, "usage", None), Do("finish", t)>>
      [] kind \in {"unsupported", "failed"} /\ ~Opened(t) ->
            <<Emit(t, "error", None), Do("finish", t)>>

\* Mutated: the heartbeat is left to cleanupActive.
OnClosedBeating(t, code) == <<Do("keep", t), [do |-> "final", turn |-> t, chunk |-> code]>>

\* What they do when the stream is closed with a code.
OnClosedFirst(t, code) ==
    <<Do("heart", t), Do("keep", t), [do |-> "final", turn |-> t, chunk |-> code]>>

OnClosed(t, code) ==
    IF Opened(t) THEN OnClosedFirst(t, code)
    ELSE <<Emit(t, IF turn[t].turnEnded \/ code = "eof" THEN "stop" ELSE "error", None),
           Do("finish", t)>>

--------------------------------------------------------------------------------
(* The steps of the programs.                                              *)

Pop(p) == todo' = [todo EXCEPT ![p] = Tail(@)]
Then(p, program) == todo' = [todo EXCEPT ![p] = program \o Tail(@)]
SetTurn(t, field, v) == turn' = [turn EXCEPT ![t] = [@ EXCEPT ![field] = v]]

\* Mutated: a send never waits.
RoomAlways(t) == TRUE

Room(t) == ~turn[t].stream \/ Len(turn[t].out) < Capacity

\* emit: under emitMu, nothing once `done` is closed, else a send, which may wait for
\* a slot with the mutex in hand.
EmitSkip(p, t) ==
    /\ turn[t].emitMu = None /\ turn[t].state # "open"
    /\ Pop(p)
    /\ UNCHANGED <<sessions, bridges, server, requests, turn, watching, clients, panicked, history>>

EmitWait(p, t) ==
    /\ turn[t].emitMu = None /\ turn[t].state = "open" /\ ~Room(t)
    /\ SetTurn(t, "emitMu", p)
    /\ UNCHANGED <<sessions, bridges, server, requests, watching, todo, clients, panicked, history>>

EmitSend(p, t, chunk) ==
    /\ turn[t].emitMu = p \/ (turn[t].emitMu = None /\ turn[t].state = "open")
    /\ Room(t)
    /\ Pop(p)
    /\ turn' = [turn EXCEPT ![t] = [@ EXCEPT
          !.out = Append(turn[t].out, chunk), !.emitMu = None,
          !.ends = IF chunk.kind \in Terminal THEN turn[t].ends + 1 ELSE turn[t].ends]]
    /\ panicked' = IF turn[t].state = "closed" THEN "send" ELSE panicked
    /\ stopped' = IF chunk.kind = "stop" /\ Opened(t) THEN stopped \cup {t} ELSE stopped
    /\ UNCHANGED <<sessions, bridges, server, requests, watching, clients, before, used, stray, displaced>>

\* finish: once, close(done), then close(out) under emitMu; one step when it is free.
FinishBegin(p, t) ==
    /\ turn[t].state = "open"
    /\ IF turn[t].emitMu = None
         THEN SetTurn(t, "state", "closed") /\ Pop(p)
         ELSE /\ turn' = [turn EXCEPT ![t] = [@ EXCEPT !.state = "closing", !.by = p]]
              /\ UNCHANGED todo
    /\ UNCHANGED <<sessions, bridges, server, requests, watching, clients, panicked, history>>

\* Mutated: out is closed without emitMu.
FinishEndBare(p, t) ==
    /\ turn[t].state = "closing" /\ turn[t].by = p
    /\ SetTurn(t, "state", "closed") /\ Pop(p)
    /\ UNCHANGED <<sessions, bridges, server, requests, watching, clients, panicked, history>>

FinishEnd(p, t) ==
    /\ turn[t].state = "closing" /\ turn[t].by = p /\ turn[t].emitMu = None
    /\ SetTurn(t, "state", "closed") /\ Pop(p)
    /\ UNCHANGED <<sessions, bridges, server, requests, watching, clients, panicked, history>>

FinishAgain(p, t) ==
    /\ turn[t].state = "closed" /\ Pop(p)
    /\ UNCHANGED <<sessions, bridges, server, requests, turn, watching, clients, panicked, history>>

\* The heartbeat is stopped behind a select with default: a look, then a close.
\* cleanupActive goes on to cancel and end a bridge that is alive.
EndsBridge(b, cancel) == IF cancel /\ life[b] = "alive" THEN ended \cup {b} ELSE ended

Heart(p, b, cancel) ==
    /\ IF heart[b] = "on"
         THEN /\ Then(p, <<Do(IF cancel THEN "cleanupClose" ELSE "heartClose", b)>>)
              /\ UNCHANGED ended
         ELSE Pop(p) /\ ended' = EndsBridge(b, cancel)
    /\ UNCHANGED <<sessions, life, heart, onData, onClose, server, requests, turn, watching,
                   clients, panicked, history>>

CloseHeart(p, b, cancel) ==
    /\ heart' = [heart EXCEPT ![b] = "stopped"] /\ Pop(p)
    /\ panicked' = IF heart[b] = "stopped" THEN "close" ELSE panicked
    /\ ended' = EndsBridge(b, cancel)
    /\ UNCHANGED <<sessions, life, onData, onClose, server, requests, turn, watching,
                   clients, history>>

Drop(p) ==
    /\ lock = None /\ current' = None /\ Pop(p)
    /\ UNCHANGED <<lock, entry, active, pending, bridges, server, requests, turn, watching,
                   clients, panicked, history>>

\* Mutated: the checkpoint of a turn that ended is kept for its request.
ResumableEver(t) == ask[t]

\* resumeRequestHash: a turn that ended leaves none.
Resumable(t) == IF turn[t].turnEnded THEN None ELSE ask[t]

\* A checkpoint for the entry of the key, with what the bridge has stored by now.
Stored(e, t) ==
    [e EXCEPT !.checkpoint = turn[t].bridge, !.refs = blobs[turn[t].bridge],
              !.resumed = ~Opened(t)]

\* And with the blobs themselves.
WithBlobs(e, b) == [e EXCEPT !.blobs = @ \cup blobs[b]]

\* Mutated: the blobs of a checkpoint are left to OnClose.
CheckpointBare(p, t) ==
    /\ lock = None /\ Pop(p)
    /\ turn' = [turn EXCEPT ![t] = [@ EXCEPT
          !.latest = IF Opened(t) THEN {blobs[t]} ELSE turn[t].latest,
          !.terminal = turn[t].terminal \/ (Opened(t) /\ turn[t].turnEnded)]]
    /\ entry' = IF current = None THEN entry
                ELSE [entry EXCEPT ![current] =
                        IF Opened(t) THEN [Stored(@, t) EXCEPT !.hash = Resumable(t)]
                        ELSE Stored(@, t)]
    /\ UNCHANGED <<lock, current, active, pending, bridges, server, requests, watching, clients,
                   panicked, history>>

\* onCheckpoint.  That of a resumed turn leaves the hash alone and the blobs.
Checkpoint(p, t) ==
    /\ lock = None /\ Pop(p)
    /\ turn' = [turn EXCEPT ![t] = [@ EXCEPT
          !.latest = IF Opened(t) THEN {blobs[t]} ELSE turn[t].latest,
          !.terminal = turn[t].terminal \/ (Opened(t) /\ turn[t].turnEnded)]]
    /\ entry' = IF current = None THEN entry
                ELSE [entry EXCEPT ![current] =
                        IF Opened(t)
                          THEN [WithBlobs(Stored(@, t), t) EXCEPT !.hash = Resumable(t)]
                          ELSE Stored(@, t)]
    /\ UNCHANGED <<lock, current, active, pending, bridges, server, requests, watching, clients,
                   panicked, history>>

\* The section of runStream's OnClose, for whatever entry the key has by now.
Keep(p, t) ==
    /\ lock = None /\ Pop(p)
    /\ entry' = IF current = None THEN entry
                ELSE [entry EXCEPT ![current] =
                        IF turn[t].cancelled \/ turn[t].latest = {} THEN WithBlobs(@, t)
                        ELSE [WithBlobs(Stored(@, t), t) EXCEPT
                                 !.refs = UNION turn[t].latest, !.hash = Resumable(t)]]
    /\ UNCHANGED <<lock, current, active, pending, bridges, server, requests, turn, watching,
                   clients, panicked, history>>

\* The rest of runStream's OnClose.
Final(p, t, code) ==
    LET T == turn[t]
        bad == ~T.turnEnded \/ (code # "eof" /\ ~T.terminal)
        failure == <<Emit(t, "error", None), Emit(t, "usage", None)>>
        end ==
            CASE T.state # "open" -> << >>
              [] T.state = "open" /\ (T.cancelled \/ T.calls # {}) ->
                    IF T.calls # {} /\ code # "eof" THEN failure ELSE << >>
              [] OTHER ->
                    IF bad THEN <<Do("drop", t)>> \o failure
                    ELSE <<Emit(t, "stop", None), Emit(t, "usage", None)>>
    IN  /\ Then(p, end \o <<Do("finish", t)>>)
        /\ UNCHANGED <<sessions, bridges, server, requests, turn, watching, clients, panicked, history>>

TurnEnded(p, t) ==
    /\ SetTurn(t, "turnEnded", TRUE) /\ Pop(p)
    /\ UNCHANGED <<sessions, bridges, server, requests, watching, clients, panicked, history>>

\* The bridge whose place in activeBridges another one takes.
Displaces(box) == {BridgeOf(a) : a \in {active} \ {None}} \ {BridgeOf(box)}

\* The bridge waits in activeBridges: runStream makes a new struct per call,
\* resumeTools changes and puts back the one it took.
RegisterCall(p, t, x) ==
    LET box == IF Opened(t) THEN x ELSE taken[t]
        others == turn[t].calls \ {x}
        late == \/ \E y \in others : active = None \/ y \notin pending[active]
                \/ pc[t] \in {"swap", "sending"}
    IN  /\ lock = None /\ Pop(p)
        /\ pending' = [pending EXCEPT ![box] = turn[t].calls]
        /\ active' = box
        /\ stray' = IF late THEN stray \cup {BridgeOf(x)} ELSE stray
        /\ displaced' = displaced \cup Displaces(box)
        /\ UNCHANGED <<lock, current, entry, bridges, server, requests, turn, watching, clients,
                       panicked, stopped, before, used>>

Step(p) ==
    /\ todo[p] # << >>
    /\ LET o == todo[p][1]
           t == o.turn
           b == turn[t].bridge
       IN  \/ o.do = "emit" /\ (EmitSkip(p, t) \/ EmitWait(p, t) \/ EmitSend(p, t, o.chunk))
           \/ o.do = "finish" /\ (FinishBegin(p, t) \/ FinishEnd(p, t) \/ FinishAgain(p, t))
           \/ o.do = "heart" /\ Heart(p, b, FALSE)
           \/ o.do = "cleanup" /\ Heart(p, b, TRUE)
           \/ o.do = "heartClose" /\ CloseHeart(p, t, FALSE)
           \/ o.do = "cleanupClose" /\ CloseHeart(p, t, TRUE)
           \/ o.do = "drop" /\ Drop(p)
           \/ o.do = "checkpoint" /\ Checkpoint(p, t)
           \/ o.do = "keep" /\ Keep(p, t)
           \/ o.do = "final" /\ Final(p, t, o.chunk)
           \/ o.do = "ended" /\ TurnEnded(p, t)
           \/ o.do = "register" /\ RegisterCall(p, t, o.chunk)

--------------------------------------------------------------------------------
(* RunChat.                                                                *)

main(r) == <<"main", r>>
Goes(r, where) == pc' = [pc EXCEPT ![r] = where]

\* The stored conversation of the key, or a new one.
Store(r) ==
    /\ stored' = [stored EXCEPT ![r] = IF current = None THEN r ELSE current]
    /\ current' = IF current = None THEN r ELSE current

\* Mutated: the bridge that is taken stays in the map.
EnterKeeps(r) ==
    /\ pc[r] = "new" /\ lock = None
    /\ r <= limit.requests /\ \A q \in 1 .. r - 1 : pc[q] # "new"
    /\ \E results \in SUBSET known :
        /\ ask' = [ask EXCEPT ![r] = results]
        /\ \/ /\ active # None /\ results # {}
              /\ taken' = [taken EXCEPT ![r] = active]
              /\ Goes(r, "taken")
              /\ UNCHANGED <<lock, current, active, stored, todo>>
           \/ /\ active # None /\ results = {}
              /\ lock' = r /\ todo' = [todo EXCEPT ![main(r)] = Cleanup(BridgeOf(active))]
              /\ Goes(r, "cleaning")
              /\ UNCHANGED <<current, active, stored, taken>>
           \/ /\ active = None
              /\ Store(r) /\ Goes(r, "prepare")
              /\ UNCHANGED <<lock, active, taken, todo>>
    /\ before' = [before EXCEPT ![r] = stopped]
    /\ UNCHANGED <<entry, pending, bridges, server, turn, watching, clients, panicked, stopped, used, stray, displaced>>

\* The first section.  A request with tool results takes the bridge that waits; one
\* without cancels it, with sessionMu in hand.
Enter(r) ==
    /\ pc[r] = "new" /\ lock = None
    /\ r <= limit.requests /\ \A q \in 1 .. r - 1 : pc[q] # "new"
    /\ \E results \in SUBSET known :
        /\ ask' = [ask EXCEPT ![r] = results]
        /\ \/ /\ active # None /\ results # {}
              /\ taken' = [taken EXCEPT ![r] = active] /\ active' = None
              /\ Goes(r, "taken")
              /\ UNCHANGED <<lock, current, stored, todo>>
           \/ /\ active # None /\ results = {}
              /\ lock' = r /\ todo' = [todo EXCEPT ![main(r)] = Cleanup(BridgeOf(active))]
              /\ Goes(r, "cleaning")
              /\ UNCHANGED <<current, active, stored, taken>>
           \/ /\ active = None
              /\ Store(r) /\ Goes(r, "prepare")
              /\ UNCHANGED <<lock, active, taken, todo>>
    /\ before' = [before EXCEPT ![r] = stopped]
    /\ UNCHANGED <<entry, pending, bridges, server, turn, watching, clients, panicked, stopped, used, stray, displaced>>

Cleaned(r) ==
    /\ pc[r] = "cleaning" /\ todo[main(r)] = << >>
    /\ lock' = None /\ active' = None
    /\ Store(r) /\ Goes(r, "prepare")
    /\ UNCHANGED <<entry, pending, bridges, server, ask, taken, turn, watching, todo, clients, panicked, history>>

\* Outside the lock: a dead bridge is cleaned up and the request starts over.
Taken(r) ==
    /\ pc[r] = "taken"
    /\ IF life[BridgeOf(taken[r])] = "alive"
         THEN Goes(r, "resume") /\ UNCHANGED todo
         ELSE Goes(r, "relock") /\ todo' = [todo EXCEPT ![main(r)] = Cleanup(BridgeOf(taken[r]))]
    /\ UNCHANGED <<sessions, bridges, server, ask, stored, taken, turn, watching, clients, panicked, history>>

Relock(r) ==
    /\ pc[r] = "relock" /\ todo[main(r)] = << >> /\ lock = None
    /\ Store(r) /\ Goes(r, "prepare")
    /\ UNCHANGED <<lock, entry, active, pending, bridges, server, ask, taken, turn, watching, todo,
                   clients, panicked, history>>

\* Without the lock: a checkpoint of the same request is resumed, else the entry
\* starts a conversation of its own.
Prepare(r) ==
    LET e == entry[stored[r]]
        resume == e.checkpoint # None /\ e.hash = ask[r]
    IN  /\ pc[r] = "prepare"
        /\ entry' = IF resume THEN entry
                    ELSE [entry EXCEPT ![stored[r]] = [NoEntry EXCEPT !.id = r]]
        /\ Goes(r, "build")
        /\ UNCHANGED <<lock, current, active, pending, bridges, server, ask, stored, taken, turn,
                       watching, todo, clients, panicked, history>>

\* buildCursorRequest copies what the entry has by then; a checkpoint goes along
\* whether or not it was to be resumed.
Build(r) ==
    /\ pc[r] = "build"
    /\ used' = [used EXCEPT ![r] = entry[stored[r]]]
    /\ blobs' = [blobs EXCEPT ![r] = entry[stored[r]].blobs]
    /\ Goes(r, "open")
    /\ UNCHANGED <<sessions, bridges, frames, asked, said, sent, ask, stored, taken, turn,
                   watching, todo, clients, panicked, stopped, before, stray, displaced>>

\* runStream: no agent URL, a bridge, or a bridge that is dead before it has its
\* callbacks, and then calls OnClose from a goroutine of its own.
Open(r) ==
    /\ pc[r] = "open"
    /\ \/ Goes(r, "over") /\ UNCHANGED <<bridges, turn, watching, todo>>
       \/ \E l \in {"alive", "dead"} \cap ({"alive"} \cup limit.faults), streamed \in limit.streamed :
            /\ Cardinality({b \in Requests : life[b] # "none"}) < limit.bridges
            /\ life' = [life EXCEPT ![r] = l]
            /\ heart' = [heart EXCEPT ![r] = "on"]
            /\ onData' = [onData EXCEPT ![r] = r] /\ onClose' = [onClose EXCEPT ![r] = r]
            /\ turn' = [turn EXCEPT ![r] = [NewTurn EXCEPT !.bridge = r, !.stream = streamed]]
            /\ todo' = IF l = "dead"
                        THEN [todo EXCEPT ![<<"closer", r>>] = OnClosedFirst(r, "err")] ELSE todo
            /\ watching' = watching \cup {r}
            /\ Goes(r, "running")
            /\ UNCHANGED ended
    /\ UNCHANGED <<sessions, server, ask, stored, taken, clients, panicked, history>>

--------------------------------------------------------------------------------
(* resumeTools.                                                            *)

\* Calls without a result: the struct goes back, the request is told of them.
StillPending(r) ==
    LET rest == pending[taken[r]] \ ask[r] IN
    /\ pc[r] = "resume" /\ rest # {} /\ lock = None
    /\ active' = taken[r]
    /\ displaced' = displaced \cup Displaces(taken[r])
    /\ known' = known \cup rest
    /\ Goes(r, "over")
    /\ UNCHANGED <<lock, current, entry, pending, bridges, server, ask, stored, taken, turn,
                   watching, todo, gone, panicked, stopped, before, used, stray>>

SwapData(r) ==
    LET b == BridgeOf(taken[r]) IN
    /\ pc[r] = "resume" /\ pending[taken[r]] \subseteq ask[r]
    /\ \E streamed \in limit.streamed :
          turn' = [turn EXCEPT ![r] = [NewTurn EXCEPT !.bridge = b, !.stream = streamed]]
    /\ onData' = [onData EXCEPT ![b] = r]
    /\ Goes(r, "swap")
    /\ UNCHANGED <<sessions, life, ended, heart, onClose, server, ask, stored, taken, watching, todo,
                   clients, panicked, history>>

\* Mutated: a bridge that died meanwhile calls nobody.
SwapCloseDeaf(r) ==
    LET b == BridgeOf(taken[r]) IN
    /\ pc[r] = "swap"
    /\ onClose' = [onClose EXCEPT ![b] = r] /\ watching' = watching \cup {r}
    /\ Goes(r, "sending")
    /\ UNCHANGED <<sessions, life, ended, heart, onData, server, ask, stored, taken, turn, todo,
                   clients, panicked, history>>

SwapClose(r) ==
    LET b == BridgeOf(taken[r]) IN
    /\ pc[r] = "swap"
    /\ onClose' = [onClose EXCEPT ![b] = r] /\ watching' = watching \cup {r}
    /\ todo' = IF life[b] = "dead"
                THEN [todo EXCEPT ![<<"closer", r>>] = OnClosed(r, "err")] ELSE todo
    /\ Goes(r, "sending")
    /\ UNCHANGED <<sessions, life, ended, heart, onData, server, ask, stored, taken, turn,
                   clients, panicked, history>>

SendResults(r) ==
    /\ pc[r] = "sending"
    /\ sent' = [x \in Execs |->
                  IF x \in pending[taken[r]] \cap ask[r] THEN sent[x] + 1 ELSE sent[x]]
    /\ Goes(r, "running")
    /\ UNCHANGED <<sessions, bridges, frames, asked, said, blobs, ask, stored, taken, turn,
                   watching, todo, clients, panicked, history>>

--------------------------------------------------------------------------------
(* The watcher goroutines, the bridges' readers, the clients, time.         *)

\* The context of a request ends with its client, or with its handler.
CtxDone(t) == t \in gone \/ pc[t] = "over"

\* select: with both channels ready it takes either.
WatchDone(t) ==
    /\ t \in watching /\ turn[t].state # "open"
    /\ watching' = watching \ {t}
    /\ UNCHANGED <<sessions, bridges, server, requests, turn, todo, clients, panicked, history>>

WatchCtx(t) ==
    /\ t \in watching /\ CtxDone(t)
    /\ watching' = watching \ {t}
    /\ turn' = IF Opened(t) THEN [turn EXCEPT ![t] = [@ EXCEPT !.cancelled = TRUE]] ELSE turn
    /\ todo' = [todo EXCEPT ![<<"watcher", t>>] =
                  (IF Opened(t) THEN <<Do("drop", t)>> ELSE << >>) \o Cleanup(t) \o <<Do("finish", t)>>]
    /\ UNCHANGED <<sessions, bridges, server, requests, clients, panicked, history>>

Idle(b) == life[b] = "alive" /\ todo[<<"reader", b>>] = << >>

\* The reader takes the callback that is set when the frame comes.
Deliver(b, kind) ==
    LET t == onData[b]
        x == <<b, asked[b] + 1>>
    IN  /\ Idle(b) /\ frames[b] < limit.frames[b] /\ kind \in limit.kinds[frames[b] + 1]
        /\ kind = "exec" => asked[b] < MaxExecs
        /\ said[b] # "failed" /\ (said[b] = "ended" => kind = "checkpoint")
        /\ frames' = [frames EXCEPT ![b] = @ + 1]
        /\ asked' = IF kind = "exec" THEN [asked EXCEPT ![b] = @ + 1] ELSE asked
        /\ said' = IF kind \in {"ended", "failed"} THEN [said EXCEPT ![b] = kind] ELSE said
        /\ blobs' = IF kind = "blob" THEN [blobs EXCEPT ![b] = @ \cup {<<b, frames'[b]>>}] ELSE blobs
        /\ turn' = IF kind = "exec" THEN [turn EXCEPT ![t] = [@ EXCEPT !.calls = turn[t].calls \cup {x}]] ELSE turn
        /\ todo' = [todo EXCEPT ![<<"reader", b>>] = OnFrame(t, kind, x)]
        /\ UNCHANGED <<sessions, bridges, sent, requests, watching, clients, panicked, history>>

\* deliverClose: once, with the callback that is set.
Close(b, code) ==
    /\ Idle(b) /\ "close" \in limit.faults
    /\ life' = [life EXCEPT ![b] = "dead"]
    /\ todo' = [todo EXCEPT ![<<"reader", b>>] = OnClosed(onClose[b], code)]
    /\ UNCHANGED <<sessions, ended, heart, onData, onClose, server, requests, turn, watching,
                   clients, panicked, history>>

Told(chunks) == {c.exec : c \in {d \in ToSet(chunks) : d.kind = "calls"}}

Receive(t) ==
    /\ pc[t] = "running" /\ t \notin gone /\ turn[t].stream /\ turn[t].out # << >>
    /\ SetTurn(t, "out", Tail(turn[t].out))
    /\ known' = known \cup Told(<<turn[t].out[1]>>)
    /\ UNCHANGED <<sessions, bridges, server, requests, watching, todo, gone, panicked, history>>

\* The handler returns behind the last chunk, or, without a stream, when done is closed.
Answer(t) ==
    /\ pc[t] = "running" /\ turn[t].state # "open"
    /\ turn[t].stream => t \notin gone /\ turn[t].state = "closed" /\ turn[t].out = << >>
    /\ known' = IF turn[t].stream \/ t \in gone THEN known ELSE known \cup Told(turn[t].out)
    /\ Goes(t, "over")
    /\ UNCHANGED <<sessions, bridges, server, ask, stored, taken, turn, watching, todo, gone, panicked, history>>

Leave(t) ==
    /\ pc[t] = "running" /\ t \notin gone /\ "leave" \in limit.faults
    /\ gone' = gone \cup {t}
    /\ UNCHANGED <<sessions, bridges, server, requests, turn, watching, todo, known, panicked, history>>

\* evictStale, called for another key 30 minutes after the last access.
Evict ==
    /\ lock = None /\ current # None /\ "evict" \in limit.faults
    /\ current' = None
    /\ UNCHANGED <<lock, entry, active, pending, bridges, server, requests, turn, watching, todo,
                   clients, panicked, history>>

--------------------------------------------------------------------------------

RunChat(r) ==
    \/ Cleaned(r) \/ Taken(r) \/ Relock(r) \/ Prepare(r) \/ Build(r) \/ Open(r)
    \/ StillPending(r) \/ SwapData(r) \/ SwapClose(r) \/ SendResults(r)

Goroutines ==
    \/ \E p \in Procs : Step(p)
    \/ \E r \in Requests : RunChat(r) \/ WatchDone(r) \/ WatchCtx(r) \/ Receive(r) \/ Answer(r)

Environment ==
    \/ \E r \in Requests : Enter(r) \/ Leave(r)
    \/ \E b \in Requests, kind \in Kinds : Deliver(b, kind)
    \/ \E b \in Requests, code \in Codes : Close(b, code)
    \/ Evict

\* A panic ends the process.
Next == panicked = "no" /\ UNCHANGED limit /\ (Goroutines \/ Environment)

Spec == Init /\ [][Next]_vars

\* Bridge.Write is a write to a pipe: it returns when the transport has taken the
\* bytes, or when it gives the request up, at the latest behind the callbacks of a
\* bridge that died.  Where the server may stop reading it may wait till then.
Stalls(b) == b \in limit.stalls /\ (life[b] = "alive" \/ todo[<<"reader", b>>] # << >>)

\* cleanupActive writes the cancel frame.
Cancelling(p) ==
    LET o == todo[p][1]
        b == turn[o.turn].bridge
    IN  \/ o.do = "cleanup" /\ heart[b] # "on" /\ Stalls(b)
        \/ o.do = "cleanupClose" /\ Stalls(o.turn)

\* resumeTools writes the results.
SendingResults(r) == pc[r] = "sending" /\ Stalls(BridgeOf(taken[r]))

\* runStream writes the request before it starts the watcher and hands out the stream.
SendingRequest(r) == Opened(r) /\ Stalls(r)

\* What no write holds up.
Unhindered ==
    \/ \E p \in Procs : Step(p) /\ ~Cancelling(p)
    \/ \E r \in Requests :
          \/ RunChat(r) /\ ~SendingResults(r)
          \/ (WatchDone(r) \/ WatchCtx(r) \/ Receive(r) \/ Answer(r)) /\ ~SendingRequest(r)

\* Goroutines that can go on do, and clients that stay read.  Nothing turns in a
\* circle, so fairness of all of them is fairness of each.
FairSpec == Spec /\ WF_vars(panicked = "no" /\ UNCHANGED limit /\ Unhindered)

--------------------------------------------------------------------------------

\* The reader, the watcher and the late closer of a bridge end the same stream: none
\* of them ever sends on the channel another one has closed.
NoSendOnClosed == panicked # "send"

\* A stream that was not cancelled ends with one finish_reason: tool calls, stop or
\* error, and never with a second one when the bridge closes behind it.
OneEnding ==
    \A t \in Requests :
        /\ turn[t].ends <= 1
        /\ turn[t].state = "closed" /\ pc[t] = "running" /\ t \notin gone => turn[t].ends = 1

\* A tool result is sent to Cursor once, whoever asks again, except on a bridge
\* where a call came in while another request had taken it already.
ResultOnce == \A x \in Execs : sent[x] <= 1 \/ BridgeOf(x) \in stray

Held(x, r) == pc[r] \in {"taken", "resume", "swap", "sending"} /\ x \in pending[taken[r]]

\* A client that was told to run a tool finds the bridge that waits for the result, as
\* long as it is alive and nobody has cancelled it or put another one in its place.
CallsKept ==
    \A x \in known :
        LET b == BridgeOf(x) IN
        \/ sent[x] > 0 \/ life[b] = "dead" \/ b \in ended \/ b \in stray \cup displaced
        \/ \E r \in Requests : Held(x, r)
        \/ active # None /\ x \in pending[active]

\* A prompt that was answered with stop starts over when it is sent again: the
\* checkpoint of the finished turn is not resumed.  And a checkpoint that is resumed
\* is whole, every blob it refers to is there, unless a resumed turn stored it.
ResumesWhole ==
    \A r \in Requests :
        /\ used[r].checkpoint \notin before[r]
        /\ used[r].resumed \/ used[r].refs \subseteq used[r].blobs

Running(t) == pc[t] = "running" /\ turn[t].state = "open"

\* Two streams that run at a time have conversations of their own.
OverlapOwnID ==
    \A r, q \in Requests : r # q /\ Running(r) /\ Running(q) /\ Opened(r) /\ Opened(q)
        => used[r].id # used[q].id

\* A stream ends once its bridge is dead or its client has left, unless the client
\* left it with a full channel: then emit keeps the mutex for ever.  Or a write waits for
\* a server that stopped reading: the cancel frame comes before finish in the watcher,
\* the request before the watcher and before anybody reads the stream, and RunChat
\* cancels a bridge with sessionMu in hand, which holds up the whole program.  What is
\* dead, left and over stays so, hence one []<> for all streams.
Abandoned(t) == t \in gone /\ turn[t].emitMu # None
HeldUp(t) == turn[t].bridge \in limit.stalls /\ (life[turn[t].bridge] = "alive" \/ turn[t].emitMu # None)
LockHeld == lock # None /\ Stalls(BridgeOf(active))
Over(t) == turn[t].state = "closed" \/ panicked # "no"
TurnEnds ==
    []<>(\A t \in Requests :
            turn[t].bridge # None /\ (life[turn[t].bridge] = "dead" \/ t \in gone)
                => Over(t) \/ Abandoned(t) \/ HeldUp(t) \/ LockHeld)

\* The heartbeat of a bridge that closes under its first turn stops.
HeartStops ==
    []<>(\A b \in Requests :
            life[b] = "dead" /\ onClose[b] = b => heart[b] = "stopped" \/ panicked # "no")
================================================================================
