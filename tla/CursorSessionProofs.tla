-------------------------- MODULE CursorSessionProofs --------------------------
(* Proofs about CursorSession: nothing is sent on a closed stream and a stream  *)
(* ends once, for any number of requests, bridges, frames and tool calls, and   *)
(* however goroutines, clients and the server interleave.                       *)
EXTENDS CursorSession, SequenceTheorems, TLAPS

\* A chunk of a stream, and a step of a program.
Chunk == [kind: {"call", "calls"}, exec: Execs]
           \cup [kind: {"text", "done", "stop", "usage", "error"}, exec: {None}]
OfHeart == {"heartClose", "cleanupClose"}
Bare == {"finish", "heart", "cleanup", "drop", "checkpoint", "keep", "ended"} \cup OfHeart
Instr == [do: {"emit"}, turn: Requests, chunk: Chunk]
           \cup [do: {"register"}, turn: Requests, chunk: Execs]
           \cup [do: {"final"}, turn: Requests, chunk: Codes]
           \cup [do: Bare, turn: Requests, chunk: {None}]

Blobs == Requests \X Nat
Entry == [id: Requests \cup {None}, checkpoint: Requests \cup {None}, refs: SUBSET Blobs,
          resumed: BOOLEAN, hash: (SUBSET Execs) \cup {None}, blobs: SUBSET Blobs]
Turn == [bridge: Requests \cup {None}, stream: BOOLEAN, out: Seq(Chunk),
         state: {"open", "closing", "closed"}, by: Procs \cup {None},
         emitMu: Procs \cup {None}, calls: SUBSET Execs, turnEnded: BOOLEAN, terminal: BOOLEAN,
         cancelled: BOOLEAN, latest: SUBSET (SUBSET Blobs), ends: Nat]
Early == {"new", "cleaning", "taken", "relock", "prepare", "build", "open", "resume"}
Stages == Early \cup {"swap", "sending", "running", "over"}

SessionTypes ==
    /\ limit \in Limits
    /\ lock \in Requests \cup {None} /\ current \in Requests \cup {None}
    /\ entry \in [Requests -> Entry]
    /\ active \in Execs \cup {None} /\ pending \in [Execs -> SUBSET Execs]
    /\ stored \in [Requests -> Requests \cup {None}]
    /\ blobs \in [Requests -> SUBSET Blobs]
    /\ known \subseteq Execs /\ sent \in [Execs -> Nat]

BridgeTypes ==
    /\ life \in [Requests -> {"none", "alive", "dead"}] /\ ended \subseteq Requests
    /\ heart \in [Requests -> {"off", "on", "stopped"}]
    /\ onData \in [Requests -> Requests \cup {None}]
    /\ onClose \in [Requests -> Requests \cup {None}]
    /\ frames \in [Requests -> Nat] /\ asked \in [Requests -> 0 .. MaxExecs]
    /\ \A b \in Requests : frames[b] <= limit.frames[b]

TurnTypes ==
    /\ pc \in [Requests -> Stages] /\ ask \in [Requests -> SUBSET Execs]
    /\ taken \in [Requests -> Execs \cup {None}]
    /\ turn \in [Requests -> Turn] /\ watching \subseteq Requests
    /\ todo \in [Procs -> Seq(Instr)]
    /\ gone \subseteq Requests
    /\ \A t \in Requests : turn[t].stream => Len(turn[t].out) <= Capacity

Types == SessionTypes /\ BridgeTypes /\ TurnTypes
            /\ panicked \in {"no", "close"}

reader(b) == <<"reader", b>>
closer(t) == <<"closer", t>>
watcher(t) == <<"watcher", t>>

\* What a program s says.
IsTerminal(o) == o.do = "emit" /\ o.chunk.kind \in Terminal
LastOf(s) == s[Len(s)]
EndsWith(s, t) == s # << >> /\ LastOf(s).do = "finish" /\ LastOf(s).turn = t
NoTerminal(s) == \A i \in DOMAIN s : ~IsTerminal(s[i])
OnlyFinish(s, t) == EndsWith(s, t) /\ NoTerminal(s)
Tells(s, t) == \E i \in DOMAIN s : s[i].turn = t /\ s[i].do \in {"emit", "final", "finish"}
About(s, T) == \A i \in DOMAIN s : s[i].turn \in T
HeartOnly(s) == \A i \in DOMAIN s : s[i].do \in OfHeart \cup {"cleanup"}
Mute(s) == \A i \in DOMAIN s : s[i].do \notin {"emit", "final", "register", "keep"}

\* A program is about one turn, which it ends at most once and at its end.
Program(s, t, b) ==
    /\ \A i \in DOMAIN s :
          /\ s[i].do \notin OfHeart => s[i].turn = t
          /\ s[i].do \in {"final", "finish"} => i = Len(s)
          /\ IsTerminal(s[i]) \/ s[i].do = "register" => LastOf(s).do = "finish"
          /\ s[i].do = "register" => BridgeOf(s[i].chunk) = b
    /\ \A i, j \in DOMAIN s : IsTerminal(s[i]) /\ IsTerminal(s[j]) => i = j

\* The turns that run, or ran, on a bridge.
Based == {t \in Requests : turn[t].bridge # None}

\* Where RunChat is goes with what it has.
PlacedAt(r) ==
    /\ pc[r] \in Early => turn[r].bridge = None /\ life[r] = "none"
    /\ turn[r].bridge = None =>
          /\ turn[r].state = "open" /\ turn[r].emitMu = None /\ turn[r].ends = 0
          /\ turn[r].calls = {} /\ ~turn[r].cancelled /\ ~turn[r].stream
    /\ pc[r] \in Early \cup {"swap"} \/ turn[r].bridge = None =>
          r \notin watching /\ todo[closer(r)] = << >> /\ todo[watcher(r)] = << >>
    /\ pc[r] \in {"taken", "relock", "resume", "swap", "sending"} => taken[r] # None
    /\ taken[r] # None => life[BridgeOf(taken[r])] # "none"
    /\ pc[r] = "swap" => turn[r].bridge = BridgeOf(taken[r])
    /\ pc[r] \in {"prepare", "build"} => stored[r] # None
    /\ r \in watching => todo[watcher(r)] = << >>
    /\ turn[r].bridge \notin {None, r} => taken[r] # None /\ turn[r].bridge = BridgeOf(taken[r])

Placed == \A r \in Requests : PlacedAt(r)

\* A bridge that was opened has callbacks, of turns that run on it.
Wired ==
    /\ \A b \in Requests :
          /\ life[b] # "none" =>
                /\ turn[b].bridge = b
                /\ onData[b] # None /\ turn[onData[b]].bridge = b
                /\ onClose[b] # None /\ turn[onClose[b]].bridge = b
                /\ pc[onClose[b]] \notin Early \cup {"swap"}
          /\ life[b] = "none" => todo[reader(b)] = << >>
    /\ \A t \in Requests : turn[t].bridge # None => life[turn[t].bridge] # "none"
    /\ active # None => life[BridgeOf(active)] # "none"

Programs ==
    /\ \A p \in Procs : About(todo[p], Based)
    /\ \A r \in Requests : HeartOnly(todo[main(r)])
    /\ \A b \in Requests : todo[reader(b)] # << >> =>
          \E t \in Requests : turn[t].bridge = b /\ Program(todo[reader(b)], t, b)
    /\ \A t \in Requests : Program(todo[closer(t)], t, turn[t].bridge)
    /\ \A t \in Requests : todo[closer(t)] # << >> =>
          life[turn[t].bridge] = "dead" /\ ~Tells(todo[reader(turn[t].bridge)], t)
    /\ \A t \in Requests : todo[watcher(t)] # << >> =>
          CtxDone(t) /\ Program(todo[watcher(t)], t, turn[t].bridge) /\ Mute(todo[watcher(t)])
    /\ \A b, t \in Requests : life[b] = "dead" /\ Tells(todo[reader(b)], t) =>
          pc[t] \notin Early \cup {"swap"}

\* Who holds emitMu waits for room in a channel that is not closed under him.
LockedAt(t) ==
    turn[t].emitMu # None =>
        LET s == todo[turn[t].emitMu] IN
        /\ turn[t].state # "closed"
        /\ s # << >> /\ s[1].do = "emit" /\ s[1].turn = t

Locked == \A t \in Requests : LockedAt(t)

\* The stream still takes a chunk.
Live(t) == turn[t].state = "open" \/ turn[t].emitMu # None

\* A stream that has had its finish_reason has but its end to come, one that is over has
\* had it or nobody waits for it, and a tool call has its end to come.
EndsAt(t) ==
    /\ turn[t].ends <= 1
    /\ turn[t].ends = 1 /\ Live(t) =>
          \/ OnlyFinish(todo[closer(t)], t)
          \/ turn[t].bridge # None /\ OnlyFinish(todo[reader(turn[t].bridge)], t)
    /\ turn[t].state # "open" => turn[t].ends = 1 \/ CtxDone(t)
    /\ \A p \in Procs : OnlyFinish(todo[p], t) =>
          turn[t].ends = 1 \/ CtxDone(t) \/ turn[t].state # "open"
    /\ turn[t].cancelled => CtxDone(t)
    /\ turn[t].calls # {} /\ turn[t].state = "open" => EndsWith(todo[reader(turn[t].bridge)], t)

Endings == \A t \in Requests : EndsAt(t)

IInv == Types /\ Placed /\ Wired /\ Programs /\ Locked /\ Endings

--------------------------------------------------------------------------------
(* Programs as sequences.                                                      *)

\* Program q takes the place of s, and keeps all that is said of it.
Follows(s, q) ==
    /\ q \in Seq(Instr)
    /\ \A t, b : Program(s, t, b) => Program(q, t, b)
    /\ \A t : Tells(q, t) => Tells(s, t)
    /\ HeartOnly(s) => HeartOnly(q)
    /\ Mute(s) => Mute(q)

\* A program of one step.
LEMMA OneStep ==
    ASSUME NEW S, NEW e \in S
    PROVE  <<e>> \in Seq(S) /\ Len(<<e>>) = 1 /\ <<e>>[1] = e
  OBVIOUS

\* A sequence is empty when its length is 0.
LEMMA EmptyLen ==
    ASSUME NEW S, NEW s \in Seq(S)
    PROVE  Len(s) \in Nat /\ (s = << >> <=> Len(s) = 0)
  BY EmptySeq, LenProperties

\* The head and the tail of a program.
LEMMA Parts ==
    ASSUME NEW Q, NEW s \in Seq(Q), s # << >>
    PROVE  /\ Len(s) \in Nat /\ Len(s) >= 1 /\ DOMAIN s = 1 .. Len(s) /\ s[1] \in Q
           /\ Tail(s) \in Seq(Q) /\ Len(Tail(s)) = Len(s) - 1
           /\ DOMAIN Tail(s) = 1 .. Len(s) - 1
           /\ \A i \in 1 .. Len(s) - 1 : Tail(s)[i] = s[i + 1]
           /\ Len(s) = 1 => Tail(s) = << >>
           /\ Len(s) > 1 => Tail(s) # << >> /\ LastOf(Tail(s)) = LastOf(s)
  <1>1. Len(s) \in Nat /\ Len(s) >= 1 /\ DOMAIN s = 1 .. Len(s) /\ s[1] \in Q
    BY EmptyLen, LenProperties
  <1>2. /\ Tail(s) \in Seq(Q) /\ Len(Tail(s)) = Len(s) - 1
        /\ \A i \in 1 .. Len(s) - 1 : Tail(s)[i] = s[i + 1]
    BY HeadTailProperties
  <1>3. DOMAIN Tail(s) = 1 .. Len(s) - 1
    BY <1>2, LenProperties
  <1>4. Len(s) = 1 => Tail(s) = << >>
    <2>1. Len(s) = 1 => Len(Tail(s)) = 0
      BY <1>2
    <2>2. Len(Tail(s)) = 0 => Tail(s) = << >>
      BY <1>2, EmptyLen
    <2> QED
      BY <2>1, <2>2
  <1>5. ASSUME Len(s) > 1 PROVE Tail(s) # << >> /\ LastOf(Tail(s)) = LastOf(s)
    <2>1. Len(Tail(s)) # 0 /\ Len(s) - 1 \in 1 .. Len(s) - 1 /\ (Len(s) - 1) + 1 = Len(s)
      BY <1>1, <1>2, <1>5
    <2> QED
      BY <1>2, <2>1, EmptyLen DEF LastOf
  <1> QED
    BY <1>1, <1>2, <1>3, <1>4, <1>5

\* A program that is not empty has a last step.
LEMMA LastIn ==
    ASSUME NEW Q, NEW s \in Seq(Q), s # << >>
    PROVE  Len(s) \in DOMAIN s
  <1>1. Len(s) \in Nat /\ Len(s) >= 1 /\ DOMAIN s = 1 .. Len(s)
    BY Parts
  <1> QED
    BY <1>1

\* One step more at the front.
LEMMA InFront ==
    ASSUME NEW Q, NEW h \in Q, NEW s \in Seq(Q)
    PROVE  /\ <<h>> \o s \in Seq(Q) /\ <<h>> \o s # << >>
           /\ Len(<<h>> \o s) = Len(s) + 1 /\ Len(s) \in Nat
           /\ DOMAIN (<<h>> \o s) = 1 .. Len(s) + 1
           /\ (<<h>> \o s)[1] = h
           /\ \A i \in 2 .. Len(s) + 1 : (<<h>> \o s)[i] = s[i - 1]
  <1>1. <<h>> \in Seq(Q) /\ Len(<<h>>) = 1 /\ <<h>>[1] = h
    BY OneStep
  <1>2. /\ <<h>> \o s \in Seq(Q) /\ Len(<<h>> \o s) = 1 + Len(s)
        /\ \A i \in 1 .. 1 + Len(s) : (<<h>> \o s)[i] = IF i <= 1 THEN <<h>>[i] ELSE s[i - 1]
    BY <1>1, ConcatProperties
  <1>3. Len(s) \in Nat
    BY EmptyLen
  <1>4. DOMAIN (<<h>> \o s) = 1 .. Len(<<h>> \o s)
    BY <1>2, LenProperties
  <1>5. <<h>> \o s # << >>
    BY <1>2, <1>3, EmptyLen
  <1> QED
    BY <1>1, <1>2, <1>3, <1>4, <1>5

\* A program that has done a step.
LEMMA TailFollows ==
    ASSUME NEW s \in Seq(Instr), s # << >>
    PROVE  /\ Follows(s, Tail(s))
           /\ \A T : About(s, T) => About(Tail(s), T)
           /\ \A t : EndsWith(Tail(s), t) => EndsWith(s, t)
           /\ NoTerminal(s) => NoTerminal(Tail(s))
           /\ \A t : EndsWith(s, t) =>
                 EndsWith(Tail(s), t) \/ (s[1].do = "finish" /\ s[1].turn = t /\ Tail(s) = << >>)
           /\ NoTerminal(Tail(s)) => NoTerminal(s) \/ IsTerminal(s[1])
  <1> DEFINE q == Tail(s)
  <1>1. /\ Len(s) \in Nat /\ Len(s) >= 1 /\ DOMAIN s = 1 .. Len(s)
        /\ q \in Seq(Instr) /\ Len(q) = Len(s) - 1 /\ DOMAIN q = 1 .. Len(s) - 1
        /\ \A i \in 1 .. Len(s) - 1 : q[i] = s[i + 1]
        /\ Len(s) = 1 => q = << >>
        /\ Len(s) > 1 => q # << >> /\ LastOf(q) = LastOf(s)
    BY Parts
  <1> HIDE DEF q
  <1>2. \A i \in DOMAIN q : i + 1 \in DOMAIN s /\ q[i] = s[i + 1] /\ Len(s) > 1
    BY <1>1
  <1>3. ASSUME NEW t, NEW b, Program(s, t, b) PROVE Program(q, t, b)
    <2>1. ASSUME NEW i \in DOMAIN q
          PROVE  /\ q[i].do \notin OfHeart => q[i].turn = t
                 /\ q[i].do \in {"final", "finish"} => i = Len(q)
                 /\ IsTerminal(q[i]) \/ q[i].do = "register" => LastOf(q).do = "finish"
                 /\ q[i].do = "register" => BridgeOf(q[i].chunk) = b
      BY <1>1, <1>2, <1>3 DEF Program
    <2>2. ASSUME NEW i \in DOMAIN q, NEW j \in DOMAIN q, IsTerminal(q[i]), IsTerminal(q[j])
          PROVE  i = j
      <3>1. i + 1 = j + 1
        BY <1>2, <1>3, <2>2 DEF Program
      <3> QED
        BY <3>1, <1>1
    <2> QED
      BY <2>1, <2>2 DEF Program
  <1>4. \A t : Tells(q, t) => Tells(s, t)
    BY <1>2 DEF Tells
  <1>5. \A t : EndsWith(q, t) => EndsWith(s, t)
    <2>1. q # << >> => Len(s) > 1
      BY <1>1
    <2> QED
      BY <1>1, <2>1 DEF EndsWith
  <1>6. /\ HeartOnly(s) => HeartOnly(q)
        /\ Mute(s) => Mute(q)
        /\ NoTerminal(s) => NoTerminal(q)
        /\ \A T : About(s, T) => About(q, T)
    BY <1>2 DEF HeartOnly, Mute, NoTerminal, About
  <1>7. ASSUME NEW t, EndsWith(s, t)
        PROVE  EndsWith(q, t) \/ (s[1].do = "finish" /\ s[1].turn = t /\ q = << >>)
    <2>1. CASE Len(s) = 1
      BY <1>1, <1>7, <2>1 DEF EndsWith, LastOf
    <2>2. CASE Len(s) > 1
      BY <1>1, <1>7, <2>2 DEF EndsWith
    <2> QED
      BY <1>1, <2>1, <2>2
  <1>8. ASSUME NoTerminal(q), ~IsTerminal(s[1]) PROVE NoTerminal(s)
    <2>1. \A i \in DOMAIN s : i = 1 \/ (i - 1 \in DOMAIN q /\ q[i - 1] = s[i])
      BY <1>1
    <2> QED
      BY <1>8, <2>1 DEF NoTerminal
  <1> QED
    BY <1>1, <1>3, <1>4, <1>5, <1>6, <1>7, <1>8 DEF Follows, q

\* cleanupActive has looked at the heartbeat and is about to close it.
LEMMA HeartFollows ==
    ASSUME NEW s \in Seq(Instr), s # << >>, s[1].do \in {"heart", "cleanup"},
           NEW h \in Instr, h.do \in OfHeart
    PROVE  LET q == <<h>> \o Tail(s) IN
           /\ Follows(s, q)
           /\ \A T : About(s, T) /\ h.turn \in T => About(q, T)
           /\ \A t : EndsWith(s, t) <=> EndsWith(q, t)
           /\ NoTerminal(s) <=> NoTerminal(q)
  <1> DEFINE q == <<h>> \o Tail(s)
  <1>1. /\ Len(s) \in Nat /\ Len(s) >= 1 /\ DOMAIN s = 1 .. Len(s)
        /\ Tail(s) \in Seq(Instr) /\ Len(Tail(s)) = Len(s) - 1
        /\ \A i \in 1 .. Len(s) - 1 : Tail(s)[i] = s[i + 1]
    BY Parts
  <1>2. Len(Tail(s)) + 1 = Len(s)
    BY <1>1
  <1>3. /\ q \in Seq(Instr) /\ q # << >> /\ Len(q) = Len(Tail(s)) + 1
        /\ DOMAIN q = 1 .. Len(Tail(s)) + 1 /\ q[1] = h
        /\ \A i \in 2 .. Len(Tail(s)) + 1 : q[i] = Tail(s)[i - 1]
    BY <1>1, InFront
  <1> HIDE DEF q
  <1>4. /\ q \in Seq(Instr) /\ Len(q) = Len(s) /\ q[1] = h
        /\ DOMAIN q = 1 .. Len(s) /\ q # << >>
        /\ \A i \in 2 .. Len(s) : q[i] = Tail(s)[i - 1]
    BY <1>2, <1>3
  <1>5. \A i \in 2 .. Len(s) : q[i] = s[i]
    <2> SUFFICES ASSUME NEW i \in 2 .. Len(s) PROVE q[i] = s[i]
      OBVIOUS
    <2>1. i - 1 \in 1 .. Len(s) - 1 /\ (i - 1) + 1 = i
      BY <1>1
    <2> QED
      BY <1>1, <1>4, <2>1
  <1>6. \A i \in DOMAIN q : q[i] = s[i] \/ (i = 1 /\ q[i] = h)
    BY <1>1, <1>4, <1>5
  <1>7. h.do \notin {"emit", "final", "finish", "register", "keep"}
    BY DEF OfHeart
  <1>8. s[1].do \notin {"emit", "final", "finish", "register", "keep"}
    OBVIOUS
  <1>9. LastOf(q).do = "finish" \/ LastOf(s).do = "finish" => LastOf(q) = LastOf(s)
    <2>1. CASE Len(s) = 1
      BY <1>4, <1>7, <1>8, <2>1 DEF LastOf
    <2>2. CASE Len(s) \in 2 .. Len(s)
      BY <1>4, <1>5, <2>2 DEF LastOf
    <2> QED
      BY <1>1, <2>1, <2>2
  <1>10. ASSUME NEW t, NEW b, Program(s, t, b) PROVE Program(q, t, b)
    <2>1. ASSUME NEW i \in DOMAIN q
          PROVE  /\ q[i].do \notin OfHeart => q[i].turn = t
                 /\ q[i].do \in {"final", "finish"} => i = Len(q)
                 /\ IsTerminal(q[i]) \/ q[i].do = "register" => LastOf(q).do = "finish"
                 /\ q[i].do = "register" => BridgeOf(q[i].chunk) = b
      BY <1>1, <1>4, <1>5, <1>6, <1>7, <1>9, <1>10 DEF Program, IsTerminal
    <2>2. ASSUME NEW i \in DOMAIN q, NEW j \in DOMAIN q, IsTerminal(q[i]), IsTerminal(q[j])
          PROVE  i = j
      BY <1>1, <1>4, <1>6, <1>7, <1>10, <2>2 DEF Program, IsTerminal
    <2> QED
      BY <2>1, <2>2 DEF Program
  <1>11. \A t : Tells(q, t) => Tells(s, t)
    BY <1>1, <1>4, <1>6, <1>7 DEF Tells
  <1>12. /\ \A t : EndsWith(q, t) <=> EndsWith(s, t)
    BY <1>4, <1>9 DEF EndsWith
  <1>13. /\ HeartOnly(s) => HeartOnly(q)
         /\ Mute(s) => Mute(q)
         /\ NoTerminal(s) <=> NoTerminal(q)
    <2>1. \A i \in DOMAIN s : q[i] = s[i] \/ (i = 1 /\ q[i] = h)
      BY <1>1, <1>4, <1>6
    <2> QED
      BY <1>1, <1>4, <1>6, <1>7, <1>8, <2>1 DEF HeartOnly, Mute, NoTerminal, IsTerminal
  <1>14. \A T : About(s, T) /\ h.turn \in T => About(q, T)
    BY <1>1, <1>4, <1>6 DEF About
  <1> QED
    BY <1>4, <1>10, <1>11, <1>12, <1>13, <1>14 DEF Follows, q
--------------------------------------------------------------------------------
(* The programs that are written down.                                         *)

\* The beginning of a program about turn t.
Lead(s, t, b) ==
    /\ \A i \in DOMAIN s :
          /\ s[i].turn = t
          /\ s[i].do \notin {"final", "finish"}
          /\ s[i].do = "register" => BridgeOf(s[i].chunk) = b
    /\ \A i, j \in DOMAIN s : IsTerminal(s[i]) /\ IsTerminal(s[j]) => i = j

\* One sequence behind another, by their places.
LEMMA Joined ==
    ASSUME NEW Q, NEW s \in Seq(Q), NEW q \in Seq(Q)
    PROVE  /\ s \o q \in Seq(Q) /\ Len(s \o q) = Len(s) + Len(q)
           /\ Len(s) \in Nat /\ Len(q) \in Nat
           /\ DOMAIN (s \o q) = 1 .. Len(s) + Len(q)
           /\ DOMAIN s = 1 .. Len(s) /\ DOMAIN q = 1 .. Len(q)
           /\ \A i \in DOMAIN s : (s \o q)[i] = s[i]
           /\ \A i \in DOMAIN q : (s \o q)[Len(s) + i] = q[i]
           /\ \A i \in DOMAIN (s \o q) : i \in DOMAIN s \/ i - Len(s) \in DOMAIN q
  <1>1. /\ s \o q \in Seq(Q) /\ Len(s \o q) = Len(s) + Len(q)
        /\ \A i \in 1 .. Len(s) + Len(q) :
              (s \o q)[i] = IF i <= Len(s) THEN s[i] ELSE q[i - Len(s)]
    BY ConcatProperties
  <1>2. Len(s) \in Nat /\ Len(q) \in Nat /\ DOMAIN s = 1 .. Len(s) /\ DOMAIN q = 1 .. Len(q)
    BY LenProperties
  <1>3. DOMAIN (s \o q) = 1 .. Len(s) + Len(q)
    <2>1. DOMAIN (s \o q) = 1 .. Len(s \o q)
      BY <1>1, LenProperties
    <2> QED
      BY <1>1, <2>1
  <1> DEFINE sq == s \o q
  <1> HIDE DEF sq
  <1>4. \A i \in 1 .. Len(s) + Len(q) : sq[i] = IF i <= Len(s) THEN s[i] ELSE q[i - Len(s)]
    BY <1>1 DEF sq
  <1>5. ASSUME NEW i \in 1 .. Len(s) PROVE sq[i] = s[i]
    <2>1. i \in 1 .. Len(s) + Len(q) /\ i <= Len(s)
      BY <1>2
    <2> QED
      BY <1>4, <2>1
  <1>6. ASSUME NEW i \in 1 .. Len(q) PROVE sq[Len(s) + i] = q[i]
    <2>1. /\ Len(s) + i \in 1 .. Len(s) + Len(q) /\ ~(Len(s) + i <= Len(s))
          /\ (Len(s) + i) - Len(s) = i
      BY <1>2
    <2> QED
      BY <1>4, <2>1
  <1>7. ASSUME NEW i \in 1 .. Len(s) + Len(q) PROVE i \in 1 .. Len(s) \/ i - Len(s) \in 1 .. Len(q)
    BY <1>2
  <1> QED
    BY <1>1, <1>2, <1>3, <1>5, <1>6, <1>7 DEF sq

\* Two beginnings, one of which ends nothing.
LEMMA LeadJoin ==
    ASSUME NEW s \in Seq(Instr), NEW q \in Seq(Instr), NEW t, NEW b,
           Lead(s, t, b), Lead(q, t, b), NoTerminal(s) \/ NoTerminal(q)
    PROVE  /\ s \o q \in Seq(Instr) /\ Lead(s \o q, t, b)
           /\ NoTerminal(s \o q) <=> NoTerminal(s) /\ NoTerminal(q)
  <1> DEFINE sq == s \o q
             n == Len(s)
  <1>1. /\ sq \in Seq(Instr) /\ n \in Nat
        /\ \A i \in DOMAIN s : i \in DOMAIN sq /\ sq[i] = s[i]
        /\ \A i \in DOMAIN q : n + i \in DOMAIN sq /\ sq[n + i] = q[i]
        /\ \A i \in DOMAIN sq : i \in DOMAIN s \/ i - n \in DOMAIN q
        /\ \A i \in DOMAIN s : i <= n
        /\ \A i \in DOMAIN q : i >= 1
        /\ \A i \in DOMAIN sq : i \in Nat
    <2>1. /\ sq \in Seq(Instr) /\ n \in Nat /\ Len(q) \in Nat
          /\ DOMAIN sq = 1 .. n + Len(q) /\ DOMAIN s = 1 .. n /\ DOMAIN q = 1 .. Len(q)
          /\ \A i \in DOMAIN s : sq[i] = s[i]
          /\ \A i \in DOMAIN q : sq[n + i] = q[i]
          /\ \A i \in DOMAIN sq : i \in DOMAIN s \/ i - n \in DOMAIN q
      BY Joined
    <2> QED
      BY <2>1
  <1> HIDE DEF sq, n
  <1>2. \A i \in DOMAIN sq : \/ i \in DOMAIN s /\ sq[i] = s[i]
                             \/ i - n \in DOMAIN q /\ sq[i] = q[i - n]
    <2> SUFFICES ASSUME NEW i \in DOMAIN sq, i - n \in DOMAIN q PROVE sq[i] = q[i - n]
      BY <1>1
    <2>1. n + (i - n) = i
      BY <1>1
    <2> QED
      BY <1>1, <2>1
  <1>3. ASSUME NEW i \in DOMAIN sq, NEW j \in DOMAIN sq, IsTerminal(sq[i]), IsTerminal(sq[j])
        PROVE  i = j
    <2>1. CASE i \in DOMAIN s /\ sq[i] = s[i] /\ j \in DOMAIN s /\ sq[j] = s[j]
      BY <1>3, <2>1 DEF Lead
    <2>2. CASE i - n \in DOMAIN q /\ sq[i] = q[i - n] /\ j - n \in DOMAIN q /\ sq[j] = q[j - n]
      <3>1. i - n = j - n
        BY <1>3, <2>2 DEF Lead
      <3> QED
        BY <1>1, <3>1
    <2>3. CASE i \in DOMAIN s /\ sq[i] = s[i] /\ j - n \in DOMAIN q /\ sq[j] = q[j - n]
      BY <1>3, <2>3 DEF NoTerminal
    <2>4. CASE j \in DOMAIN s /\ sq[j] = s[j] /\ i - n \in DOMAIN q /\ sq[i] = q[i - n]
      BY <1>3, <2>4 DEF NoTerminal
    <2> QED
      BY <1>2, <2>1, <2>2, <2>3, <2>4
  <1>4. Lead(sq, t, b)
    BY <1>2, <1>3 DEF Lead
  <1>5. NoTerminal(sq) <=> NoTerminal(s) /\ NoTerminal(q)
    BY <1>1, <1>2 DEF NoTerminal
  <1> QED
    BY <1>1, <1>4, <1>5 DEF sq

\* Two beginnings that say nothing.
LEMMA MuteJoin ==
    ASSUME NEW s \in Seq(Instr), NEW q \in Seq(Instr), Mute(s), Mute(q)
    PROVE  Mute(s \o q)
  <1> DEFINE sq == s \o q
             n == Len(s)
  <1>1. /\ n \in Nat /\ Len(q) \in Nat
        /\ \A i \in DOMAIN s : sq[i] = s[i]
        /\ \A i \in DOMAIN q : sq[n + i] = q[i]
        /\ DOMAIN sq = 1 .. n + Len(q) /\ DOMAIN q = 1 .. Len(q)
        /\ \A i \in DOMAIN sq : i \in DOMAIN s \/ i - n \in DOMAIN q
    BY Joined
  <1> HIDE DEF sq, n
  <1>2. ASSUME NEW i \in DOMAIN sq PROVE sq[i].do \notin {"emit", "final", "register", "keep"}
    <2>1. CASE i \in DOMAIN s
      BY <1>1, <2>1 DEF Mute
    <2>2. CASE i - n \in DOMAIN q
      <3>1. n + (i - n) = i
        BY <1>1
      <3> QED
        BY <1>1, <2>2, <3>1 DEF Mute
    <2> QED
      BY <1>1, <2>1, <2>2
  <1> QED
    BY <1>2 DEF Mute, sq

\* A beginning with finish behind it.
LEMMA LeadFinish ==
    ASSUME NEW s \in Seq(Instr), NEW t \in Requests, NEW b, Lead(s, t, b)
    PROVE  LET q == s \o <<Do("finish", t)>> IN
           /\ q \in Seq(Instr) /\ Program(q, t, b) /\ EndsWith(q, t)
           /\ NoTerminal(q) <=> NoTerminal(s)
           /\ \A T : t \in T => About(q, T)
           /\ Mute(s) => Mute(q)
  <1> DEFINE f == Do("finish", t)
             q == s \o <<f>>
             n == Len(s)
  <1>1. f \in Instr /\ f.do = "finish" /\ f.turn = t
    BY DEF Do, Instr, Bare
  <1> HIDE DEF f
  <1>2. <<f>> \in Seq(Instr) /\ Len(<<f>>) = 1 /\ <<f>>[1] = f /\ DOMAIN <<f>> = 1 .. 1
    BY <1>1, OneStep
  <1>3. /\ q \in Seq(Instr) /\ Len(q) = n + 1 /\ n \in Nat
        /\ DOMAIN q = 1 .. n + 1 /\ DOMAIN s = 1 .. n
        /\ \A i \in DOMAIN s : q[i] = s[i]
        /\ \A i \in DOMAIN <<f>> : q[n + i] = <<f>>[i]
    BY <1>2, Joined
  <1> HIDE DEF q, n
  <1>4. q[n + 1] = f
    BY <1>2, <1>3
  <1>5. \A i \in DOMAIN q : (i \in DOMAIN s /\ q[i] = s[i]) \/ (i = n + 1 /\ q[i] = f)
    BY <1>3, <1>4
  <1>6. q # << >> /\ LastOf(q) = f
    BY <1>3, <1>4, EmptyLen DEF LastOf
  <1>7. ~IsTerminal(f)
    BY <1>1 DEF IsTerminal
  <1>8. Program(q, t, b)
    BY <1>1, <1>3, <1>5, <1>6, <1>7 DEF Program, Lead
  <1>9. EndsWith(q, t)
    BY <1>1, <1>6 DEF EndsWith
  <1>10. NoTerminal(q) <=> NoTerminal(s)
    <2>1. \A i \in DOMAIN s : i \in DOMAIN q /\ q[i] = s[i]
      BY <1>3
    <2> QED
      BY <1>5, <1>7, <2>1 DEF NoTerminal
  <1>11. ASSUME NEW T, t \in T PROVE About(q, T)
    BY <1>1, <1>5, <1>11 DEF About, Lead
  <1>12. Mute(s) => Mute(q)
    BY <1>1, <1>5 DEF Mute
  <1> QED
    BY <1>3, <1>8, <1>9, <1>10, <1>11, <1>12 DEF q, f
\* The steps that are written down.
LEMMA Steps ==
    ASSUME NEW t \in Requests
    PROVE  /\ \A x \in Execs : /\ Register(t, x) \in Instr
                               /\ Emit(t, "call", x) \in Instr /\ Emit(t, "calls", x) \in Instr
           /\ \A k \in {"text", "done", "stop", "usage", "error"} : Emit(t, k, None) \in Instr
           /\ \A what \in Bare : Do(what, t) \in Instr
           /\ \A code \in Codes : [do |-> "final", turn |-> t, chunk |-> code] \in Instr
  <1>1. \A x \in Execs : /\ Register(t, x) \in Instr
                         /\ Emit(t, "call", x) \in Instr /\ Emit(t, "calls", x) \in Instr
    BY DEF Register, Emit, Instr, Chunk
  <1>2. \A k \in {"text", "done", "stop", "usage", "error"} : Emit(t, k, None) \in Instr
    BY DEF Emit, Instr, Chunk
  <1>3. \A what \in Bare : Do(what, t) \in Instr
    BY DEF Do, Instr
  <1>4. \A code \in Codes : [do |-> "final", turn |-> t, chunk |-> code] \in Instr
    BY DEF Instr
  <1> QED
    BY <1>1, <1>2, <1>3, <1>4

\* What a program says that has nothing to do.
LEMMA NothingToDo ==
    /\ << >> \in Seq(Instr) /\ \A t, b : Program(<< >>, t, b) /\ Lead(<< >>, t, b)
    /\ \A t : ~EndsWith(<< >>, t) /\ ~OnlyFinish(<< >>, t) /\ ~Tells(<< >>, t)
    /\ \A T : About(<< >>, T)
    /\ HeartOnly(<< >>) /\ Mute(<< >>) /\ NoTerminal(<< >>)
  <1>1. DOMAIN << >> = {}
    OBVIOUS
  <1>2. << >> \in Seq(Instr)
    BY EmptySeq
  <1> QED
    BY <1>1, <1>2 DEF Program, Lead, EndsWith, OnlyFinish, Tells, About, HeartOnly, Mute,
       NoTerminal

\* A program of a step or two that ends nothing.
LEMMA QuietStep ==
    ASSUME NEW t \in Requests, NEW b, NEW o \in Instr, o.turn = t,
           o.do \notin {"final", "finish", "register"}, ~IsTerminal(o)
    PROVE  /\ <<o>> \in Seq(Instr) /\ Lead(<<o>>, t, b) /\ Program(<<o>>, t, b)
           /\ NoTerminal(<<o>>)
           /\ \A u : ~EndsWith(<<o>>, u)
           /\ \A T : t \in T => About(<<o>>, T)
  <1>1. <<o>> \in Seq(Instr) /\ Len(<<o>>) = 1 /\ <<o>>[1] = o /\ DOMAIN <<o>> = {1}
    OBVIOUS
  <1> DEFINE s == <<o>>
  <1> HIDE DEF s
  <1>2. s \in Seq(Instr) /\ Len(s) = 1 /\ s[1] = o /\ DOMAIN s = {1}
    BY <1>1 DEF s
  <1>3. Lead(s, t, b) /\ Program(s, t, b) /\ NoTerminal(s) /\ \A T : t \in T => About(s, T)
    BY <1>2 DEF Lead, Program, NoTerminal, About
  <1>4. \A u : ~EndsWith(s, u)
    BY <1>2 DEF EndsWith, LastOf
  <1> QED
    BY <1>2, <1>3, <1>4 DEF s

\* A chunk that ends the turn, and what may be said behind it.
LEMMA EndingStep ==
    ASSUME NEW t \in Requests, NEW b, NEW k \in {"stop", "error"}
    PROVE  LET s == <<Emit(t, k, None)>>
               q == <<Emit(t, k, None), Emit(t, "usage", None)>>
           IN  /\ s \in Seq(Instr) /\ Lead(s, t, b) /\ ~NoTerminal(s)
               /\ q \in Seq(Instr) /\ Lead(q, t, b) /\ ~NoTerminal(q)
  <1> DEFINE o == Emit(t, k, None)
             v == Emit(t, "usage", None)
  <1>1. /\ o \in Instr /\ v \in Instr /\ o.turn = t /\ v.turn = t /\ o.do = "emit" /\ v.do = "emit"
        /\ IsTerminal(o) /\ ~IsTerminal(v)
    BY Steps DEF Emit, IsTerminal, Terminal
  <1> HIDE DEF o, v
  <1>2. <<o>> \in Seq(Instr) /\ DOMAIN <<o>> = {1} /\ <<o>>[1] = o
    BY <1>1
  <1>3. /\ <<o, v>> \in Seq(Instr) /\ DOMAIN <<o, v>> = {1, 2}
        /\ <<o, v>>[1] = o /\ <<o, v>>[2] = v
    BY <1>1
  <1> DEFINE s == <<o>>
             q == <<o, v>>
  <1> HIDE DEF s, q
  <1>4. Lead(s, t, b) /\ ~NoTerminal(s)
    BY <1>1, <1>2 DEF Lead, NoTerminal, s
  <1>5. Lead(q, t, b) /\ ~NoTerminal(q)
    BY <1>1, <1>3 DEF Lead, NoTerminal, q
  <1> QED
    BY <1>2, <1>3, <1>4, <1>5 DEF s, q, o, v

\* Tool calls end a turn behind the registration of their bridge.
LEMMA CallSteps ==
    ASSUME NEW t \in Requests, NEW x \in Execs
    PROVE  LET s == <<Register(t, x), Emit(t, "calls", x)>>
               q == <<Emit(t, "call", x), Register(t, x), Emit(t, "calls", x)>>
           IN  /\ s \in Seq(Instr) /\ Lead(s, t, BridgeOf(x)) /\ ~NoTerminal(s)
               /\ q \in Seq(Instr) /\ Lead(q, t, BridgeOf(x)) /\ ~NoTerminal(q)
  <1> DEFINE a == Emit(t, "call", x)
             r == Register(t, x)
             c == Emit(t, "calls", x)
  <1>1. /\ a \in Instr /\ r \in Instr /\ c \in Instr /\ a.turn = t /\ r.turn = t /\ c.turn = t
        /\ a.do = "emit" /\ r.do = "register" /\ r.chunk = x /\ c.do = "emit"
        /\ ~IsTerminal(a) /\ ~IsTerminal(r) /\ IsTerminal(c)
    BY Steps DEF Emit, Register, IsTerminal, Terminal
  <1> HIDE DEF a, r, c
  <1>2. /\ <<r, c>> \in Seq(Instr) /\ DOMAIN <<r, c>> = {1, 2}
        /\ <<r, c>>[1] = r /\ <<r, c>>[2] = c
    BY <1>1
  <1>3. /\ <<a, r, c>> \in Seq(Instr) /\ DOMAIN <<a, r, c>> = {1, 2, 3}
        /\ <<a, r, c>>[1] = a /\ <<a, r, c>>[2] = r /\ <<a, r, c>>[3] = c
    BY <1>1
  <1> DEFINE s == <<r, c>>
             q == <<a, r, c>>
  <1> HIDE DEF s, q
  <1>4. Lead(s, t, BridgeOf(x)) /\ ~NoTerminal(s)
    BY <1>1, <1>2 DEF Lead, NoTerminal, s
  <1>5. Lead(q, t, BridgeOf(x)) /\ ~NoTerminal(q)
    BY <1>1, <1>3 DEF Lead, NoTerminal, q
  <1> QED
    BY <1>2, <1>3, <1>4, <1>5 DEF s, q, a, r, c
\* What a bridge's reader does with a frame ends the turn once, if it ends it.
LEMMA FrameProgram ==
    ASSUME NEW t \in Requests, NEW x, NEW kind \in Kinds, kind = "exec" => x \in Execs
    PROVE  LET q == OnFrame(t, kind, x) IN
           /\ q \in Seq(Instr) /\ Program(q, t, BridgeOf(x))
           /\ \A u : ~OnlyFinish(q, u)
           /\ \A T : t \in T => About(q, T)
           /\ kind = "exec" => EndsWith(q, t)
  <1> DEFINE b == BridgeOf(x)
             f == Do("finish", t)
             fail == <<Emit(t, "error", None), Emit(t, "usage", None)>>
             err == <<Emit(t, "error", None)>>
             call == <<Emit(t, "call", x), Register(t, x), Emit(t, "calls", x)>>
             again == <<Register(t, x), Emit(t, "calls", x)>>
  <1> HIDE DEF b
  <1>1. /\ err \in Seq(Instr) /\ Lead(err, t, b) /\ ~NoTerminal(err)
        /\ fail \in Seq(Instr) /\ Lead(fail, t, b) /\ ~NoTerminal(fail)
    BY EndingStep
  <1>2. kind = "exec" =>
        /\ again \in Seq(Instr) /\ Lead(again, t, b) /\ ~NoTerminal(again)
        /\ call \in Seq(Instr) /\ Lead(call, t, b) /\ ~NoTerminal(call)
    BY CallSteps DEF b
  <1>3. ASSUME NEW s \in Seq(Instr), Lead(s, t, b), ~NoTerminal(s)
        PROVE  LET q == s \o <<f>> IN
               /\ q \in Seq(Instr) /\ Program(q, t, b) /\ EndsWith(q, t)
               /\ \A u : ~OnlyFinish(q, u)
               /\ \A T : t \in T => About(q, T)
    BY <1>3, LeadFinish DEF OnlyFinish
  <1>4. /\ Emit(t, "text", None) \in Instr /\ Emit(t, "error", None) \in Instr
        /\ Emit(t, "usage", None) \in Instr /\ Emit(t, "done", None) \in Instr
        /\ Do("ended", t) \in Instr /\ Do("checkpoint", t) \in Instr /\ Do("drop", t) \in Instr
        /\ f \in Instr
        /\ kind = "exec" => /\ Emit(t, "call", x) \in Instr /\ Emit(t, "calls", x) \in Instr
                             /\ Register(t, x) \in Instr
    BY Steps DEF Bare
  <1> HIDE DEF f
  <1>5. CASE kind \in {"text", "ended", "checkpoint"}
    <2>1. ASSUME NEW o \in {Emit(t, "text", None), Do("ended", t), Do("checkpoint", t)}
          PROVE  o \in Instr /\ o.turn = t /\ o.do \notin {"final", "finish", "register"} /\ ~IsTerminal(o)
      BY <1>4 DEF Emit, Do, IsTerminal, Terminal
    <2>2. PICK o \in {Emit(t, "text", None), Do("ended", t), Do("checkpoint", t)} :
              OnFrame(t, kind, x) = <<o>>
      BY <1>5 DEF OnFrame
    <2> QED
      BY <1>5, <2>1, <2>2, QuietStep DEF OnlyFinish
  <1>6. CASE kind = "blob"
    BY <1>6, NothingToDo DEF OnFrame
  <1>7. CASE kind = "exec" /\ Opened(t)
    <2>1. OnFrame(t, kind, x) = (call \o Marker(t)) \o <<f>>
      BY <1>7 DEF OnFrame, FirstCall, f
    <2>2. /\ Marker(t) \in Seq(Instr) /\ Lead(Marker(t), t, b) /\ NoTerminal(Marker(t))
      <3>1. /\ Emit(t, "done", None).turn = t /\ ~IsTerminal(Emit(t, "done", None))
            /\ Emit(t, "done", None).do \notin {"final", "finish", "register"}
        BY DEF Emit, IsTerminal, Terminal
      <3>2. CASE turn[t].stream
        BY <1>4, <3>1, <3>2, QuietStep DEF Marker
      <3>3. CASE ~turn[t].stream
        BY <3>3, NothingToDo DEF Marker
      <3> QED
        BY <3>2, <3>3
    <2>3. call \o Marker(t) \in Seq(Instr) /\ Lead(call \o Marker(t), t, b) /\ ~NoTerminal(call \o Marker(t))
      BY <1>2, <1>7, <2>2, LeadJoin
    <2> QED
      BY <1>3, <2>1, <2>3 DEF b
  <1>8. CASE kind = "exec" /\ ~Opened(t)
    <2>1. OnFrame(t, kind, x) = again \o <<f>>
      BY <1>4, <1>8 DEF OnFrame, f
    <2> QED
      BY <1>2, <1>3, <1>8, <2>1 DEF b
  <1>9. CASE kind = "unsupported" /\ Opened(t)
    <2>1. CASE turn[t].cancelled
      BY <1>9, <2>1, NothingToDo DEF OnFrame
    <2>2. CASE ~turn[t].cancelled
      <3>1. OnFrame(t, kind, x) = fail \o <<f>>
        BY <1>4, <1>9, <2>2 DEF OnFrame, f
      <3> QED
        BY <1>1, <1>3, <1>9, <3>1 DEF b
    <2> QED
      BY <2>1, <2>2
  <1>10. CASE kind = "failed" /\ Opened(t)
    <2> DEFINE drop == <<Do("drop", t)>>
    <2>1. OnFrame(t, kind, x) = (drop \o fail) \o <<f>>
      BY <1>4, <1>10 DEF OnFrame, f
    <2>2. drop \in Seq(Instr) /\ Lead(drop, t, b) /\ NoTerminal(drop)
      <3>1. /\ Do("drop", t).turn = t /\ ~IsTerminal(Do("drop", t))
            /\ Do("drop", t).do \notin {"final", "finish", "register"}
        BY DEF Do, IsTerminal
      <3> QED
        BY <1>4, <3>1, QuietStep
    <2>3. drop \o fail \in Seq(Instr) /\ Lead(drop \o fail, t, b) /\ ~NoTerminal(drop \o fail)
      BY <1>1, <2>2, LeadJoin
    <2> QED
      BY <1>3, <1>10, <2>1, <2>3 DEF b
  <1>11. CASE kind \in {"unsupported", "failed"} /\ ~Opened(t)
    <2>1. OnFrame(t, kind, x) = err \o <<f>>
      BY <1>4, <1>11 DEF OnFrame, f
    <2> QED
      BY <1>1, <1>3, <1>11, <2>1 DEF b
  <1> QED
    BY <1>5, <1>6, <1>7, <1>8, <1>9, <1>10, <1>11 DEF Kinds

\* What is done when the stream to Cursor is closed.
LEMMA ClosedProgram ==
    ASSUME NEW t \in Requests, NEW code \in Codes, NEW b
    PROVE  /\ \A q \in {OnClosedFirst(t, code), OnClosed(t, code)} :
                 /\ q \in Seq(Instr) /\ Program(q, t, b)
                 /\ \A u : ~OnlyFinish(q, u)
                 /\ \A T : t \in T => About(q, T)
  <1> DEFINE h == Do("heart", t)
             k == Do("keep", t)
             c == [do |-> "final", turn |-> t, chunk |-> code]
  <1>1. /\ h \in Instr /\ k \in Instr /\ c \in Instr /\ h.turn = t /\ k.turn = t /\ c.turn = t
        /\ h.do = "heart" /\ k.do = "keep" /\ c.do = "final"
        /\ ~IsTerminal(h) /\ ~IsTerminal(k) /\ ~IsTerminal(c)
    BY Steps DEF Do, IsTerminal, Bare
  <1>2. OnClosedFirst(t, code) = <<h, k, c>>
    BY DEF OnClosedFirst
  <1> HIDE DEF h, k, c
  <1> DEFINE s == <<h, k, c>>
  <1>3. /\ s \in Seq(Instr) /\ DOMAIN s = {1, 2, 3} /\ Len(s) = 3
        /\ s[1] = h /\ s[2] = k /\ s[3] = c
    BY <1>1
  <1> HIDE DEF s
  <1>4. /\ s \in Seq(Instr) /\ Program(s, t, b)
        /\ \A u : ~OnlyFinish(s, u)
        /\ \A T : t \in T => About(s, T)
    <2>1. Program(s, t, b) /\ \A T : t \in T => About(s, T)
      BY <1>1, <1>3 DEF Program, About
    <2>2. \A u : ~OnlyFinish(s, u)
      BY <1>1, <1>3 DEF OnlyFinish, EndsWith, LastOf
    <2> QED
      BY <1>3, <2>1, <2>2
  <1>5. CASE Opened(t)
    BY <1>2, <1>4, <1>5 DEF OnClosed, s
  <1>6. CASE ~Opened(t)
    <2>1. PICK e \in {"stop", "error"} : OnClosed(t, code) = <<Emit(t, e, None), Do("finish", t)>>
      BY <1>6 DEF OnClosed
    <2>2. <<Emit(t, e, None), Do("finish", t)>> = <<Emit(t, e, None)>> \o <<Do("finish", t)>>
      <3>1. Emit(t, e, None) \in Instr /\ Do("finish", t) \in Instr
        BY Steps DEF Bare
      <3> QED
        BY <3>1
    <2>3. /\ <<Emit(t, e, None)>> \in Seq(Instr) /\ Lead(<<Emit(t, e, None)>>, t, b)
          /\ ~NoTerminal(<<Emit(t, e, None)>>)
      BY EndingStep
    <2> DEFINE l == <<Emit(t, e, None)>>
               q == l \o <<Do("finish", t)>>
    <2>4. /\ q \in Seq(Instr) /\ Program(q, t, b) /\ ~NoTerminal(q)
          /\ \A T : t \in T => About(q, T)
      <3> HIDE DEF l
      <3> QED
        BY <2>3, LeadFinish DEF l
    <2>5. OnClosed(t, code) = q
      BY <2>1, <2>2
    <2> HIDE DEF q
    <2>6. /\ OnClosed(t, code) \in Seq(Instr) /\ Program(OnClosed(t, code), t, b)
          /\ \A u : ~OnlyFinish(OnClosed(t, code), u)
          /\ \A T : t \in T => About(OnClosed(t, code), T)
      BY <2>4, <2>5 DEF OnlyFinish
    <2> QED
      BY <1>2, <1>4, <2>6 DEF s
  <1> QED
    BY <1>5, <1>6
\* cleanupActive, by a request in its first section.
LEMMA CleanupProgram ==
    ASSUME NEW t \in Requests
    PROVE  /\ Cleanup(t) \in Seq(Instr) /\ HeartOnly(Cleanup(t))
           /\ \A T : t \in T => About(Cleanup(t), T)
  <1> DEFINE o == Do("cleanup", t)
  <1>1. o \in Instr /\ o.turn = t /\ o.do = "cleanup"
    BY Steps DEF Do, Bare
  <1> HIDE DEF o
  <1>2. <<o>> \in Seq(Instr) /\ DOMAIN <<o>> = {1} /\ <<o>>[1] = o
    BY <1>1
  <1> DEFINE s == <<o>>
  <1> HIDE DEF s
  <1>3. HeartOnly(s) /\ \A T : t \in T => About(s, T)
    BY <1>1, <1>2 DEF HeartOnly, About, s
  <1> QED
    BY <1>2, <1>3 DEF Cleanup, s, o

\* What a watcher does when the context is done.
LEMMA WatcherProgram ==
    ASSUME NEW t \in Requests, NEW b, NEW opened \in BOOLEAN
    PROVE  LET q == (IF opened THEN <<Do("drop", t)>> ELSE << >>) \o Cleanup(t) \o <<Do("finish", t)>>
           IN  /\ q \in Seq(Instr) /\ Program(q, t, b) /\ Mute(q) /\ q # << >>
               /\ \A T : t \in T => About(q, T)
  <1> DEFINE d == Do("drop", t)
             o == Do("cleanup", t)
             l == IF opened THEN <<d>> ELSE << >>
             s == l \o <<o>>
             q == s \o <<Do("finish", t)>>
  <1>1. /\ d \in Instr /\ d.turn = t /\ d.do = "drop" /\ ~IsTerminal(d)
        /\ o \in Instr /\ o.turn = t /\ o.do = "cleanup" /\ ~IsTerminal(o)
    BY Steps DEF Do, Bare, IsTerminal
  <1> HIDE DEF d, o
  <1>2. ASSUME NEW e \in {d, o}
        PROVE  <<e>> \in Seq(Instr) /\ Lead(<<e>>, t, b) /\ NoTerminal(<<e>>) /\ Mute(<<e>>)
    <2>1. /\ e \in Instr /\ e.turn = t /\ e.do \in {"drop", "cleanup"} /\ ~IsTerminal(e)
          /\ e.do \notin {"final", "finish", "register"}
      BY <1>1
    <2>2. <<e>> \in Seq(Instr) /\ Lead(<<e>>, t, b) /\ NoTerminal(<<e>>)
      BY <2>1, QuietStep
    <2>3. DOMAIN <<e>> = {1} /\ <<e>>[1] = e
      OBVIOUS
    <2> DEFINE u == <<e>>
    <2> HIDE DEF u
    <2>4. Mute(u)
      BY <2>1, <2>3 DEF Mute, u
    <2> QED
      BY <2>2, <2>4 DEF u
  <1>3. l \in Seq(Instr) /\ Lead(l, t, b) /\ NoTerminal(l) /\ Mute(l)
    <2>1. CASE opened
      BY <1>2, <2>1
    <2>2. CASE ~opened
      BY <2>2, NothingToDo
    <2> QED
      BY <2>1, <2>2
  <1> HIDE DEF l
  <1>4. s \in Seq(Instr) /\ Lead(s, t, b)
    BY <1>2, <1>3, LeadJoin
  <1>5. Mute(s)
    BY <1>2, <1>3, MuteJoin
  <1> HIDE DEF s
  <1>6. /\ q \in Seq(Instr) /\ Program(q, t, b) /\ Mute(q) /\ EndsWith(q, t)
        /\ \A T : t \in T => About(q, T)
    BY <1>4, <1>5, LeadFinish
  <1>7. q # << >>
    BY <1>6 DEF EndsWith
  <1>8. q = (IF opened THEN <<Do("drop", t)>> ELSE << >>) \o Cleanup(t) \o <<Do("finish", t)>>
    BY DEF q, s, l, o, d, Cleanup
  <1> HIDE DEF q
  <1> QED
    BY <1>6, <1>7, <1>8

\* A program that ends turn t with a finish_reason.
Ending(q, t, b) ==
    /\ q \in Seq(Instr) /\ Program(q, t, b) /\ EndsWith(q, t) /\ ~NoTerminal(q)
    /\ \A T : t \in T => About(q, T)

\* The end that runStream's OnClose puts in the place of its last step.
LEMMA FinalProgram ==
    ASSUME NEW t \in Requests, NEW b, NEW k \in {"stop", "error"}
    PROVE  LET fail == <<Emit(t, k, None), Emit(t, "usage", None)>>
               f == <<Do("finish", t)>>
           IN  /\ Ending(fail \o f, t, b) /\ Ending((<<Do("drop", t)>> \o fail) \o f, t, b)
               /\ << >> \o f \in Seq(Instr) /\ Program(<< >> \o f, t, b)
               /\ \A T : t \in T => About(<< >> \o f, T)
  <1> DEFINE fail == <<Emit(t, k, None), Emit(t, "usage", None)>>
             d == Do("drop", t)
             f == Do("finish", t)
  <1>1. d \in Instr /\ d.turn = t /\ ~IsTerminal(d) /\ d.do \notin {"final", "finish", "register"}
    BY Steps DEF Do, Bare, IsTerminal
  <1> HIDE DEF d
  <1>2. <<d>> \in Seq(Instr) /\ Lead(<<d>>, t, b) /\ NoTerminal(<<d>>)
    BY <1>1, QuietStep
  <1>3. fail \in Seq(Instr) /\ Lead(fail, t, b) /\ ~NoTerminal(fail)
    BY EndingStep
  <1> HIDE DEF fail
  <1>4. <<d>> \o fail \in Seq(Instr) /\ Lead(<<d>> \o fail, t, b) /\ ~NoTerminal(<<d>> \o fail)
    BY <1>2, <1>3, LeadJoin
  <1>5. ASSUME NEW s \in {fail, <<d>> \o fail}
        PROVE  Ending(s \o <<f>>, t, b)
    BY <1>3, <1>4, LeadFinish DEF Ending
  <1>6. LET q == << >> \o <<f>> IN
        q \in Seq(Instr) /\ Program(q, t, b) /\ \A T : t \in T => About(q, T)
    BY NothingToDo, LeadFinish
  <1> QED
    BY <1>5, <1>6 DEF fail, d
--------------------------------------------------------------------------------
(* Steps that make no new turn.                                                *)

Workers == {"reader", "closer", "watcher"} \X Requests
Started(r) == pc[r] \notin Early \cup {"swap"}

\* A worker does its program, and has none when it had none.
Kept(p) == Follows(todo[p], todo'[p]) /\ (todo[p] = << >> => todo'[p] = << >>)

\* What the goroutines have to do by such a step: less, or something new about a turn of
\* theirs.
Onward ==
    /\ \A p \in Procs : About(todo'[p], Based)
    /\ \A r \in Requests : HeartOnly(todo'[main(r)])
    /\ \A t \in Requests : Kept(closer(t))
    /\ \A t \in Requests :
          \/ Kept(watcher(t))
          \/ /\ t \in watching \ watching' /\ CtxDone(t)
             /\ Program(todo'[watcher(t)], t, turn[t].bridge) /\ Mute(todo'[watcher(t)])
    /\ \A b \in Requests :
          \/ life'[b] = life[b] /\ Kept(reader(b))
          \/ /\ life[b] = "alive" /\ life'[b] \in {"alive", "dead"} /\ todo[reader(b)] = << >>
             /\ \E t \in Requests :
                   /\ turn[t].bridge = b /\ Program(todo'[reader(b)], t, b)
                   /\ life'[b] = "dead" => Started(t)

\* A request goes on to a place where it may be.
Proceeds(r) ==
    /\ pc[r] # "over" /\ pc'[r] # "swap" /\ (pc'[r] \in Early => pc[r] \in Early)
    /\ pc'[r] \in {"taken", "relock", "resume", "sending"} => taken'[r] # None
    /\ pc'[r] \in {"prepare", "build"} => stored'[r] # None

Moves ==
    /\ UNCHANGED <<onData, onClose>> /\ watching' \subseteq watching /\ gone \subseteq gone'
    /\ active' # None => life[BridgeOf(active')] # "none"
    /\ \A r \in Requests :
          /\ turn'[r].bridge = turn[r].bridge /\ (turn[r].bridge = None => turn'[r] = turn[r])
          /\ \/ taken'[r] = taken[r]
             \/ pc[r] \in Early /\ taken'[r] \in Execs \ {None} /\ life[BridgeOf(taken'[r])] # "none"
          /\ stored'[r] = stored[r] \/ stored'[r] # None
          /\ pc'[r] = pc[r] \/ Proceeds(r)

\* Where a worker is, and who it is.
LEMMA WorkerNames ==
    /\ \A r \in Requests : main(r) \in Procs /\ main(r) \notin Workers
    /\ \A r \in Requests : reader(r) \in Workers /\ closer(r) \in Workers /\ watcher(r) \in Workers
    /\ Workers \subseteq Procs
    /\ \A p \in Procs : \/ p \in Workers
                        \/ \E r \in Requests : p = main(r)
    /\ \A p \in Workers : \E r \in Requests : p \in {reader(r), closer(r), watcher(r)}
    /\ \A r, q \in Requests :
          /\ reader(r) # closer(q) /\ reader(r) # watcher(q) /\ closer(r) # watcher(q)
          /\ main(r) \notin {reader(q), closer(q), watcher(q)}
          /\ r # q => reader(r) # reader(q) /\ closer(r) # closer(q) /\ watcher(r) # watcher(q)
                        /\ main(r) # main(q)
  BY DEF Workers, Procs, main, reader, closer, watcher

\* A context that is done stays done.
LEMMA StaysDone ==
    ASSUME Moves, NEW t \in Requests, CtxDone(t)
    PROVE  CtxDone(t)'
  BY DEF Moves, CtxDone, Proceeds

\* Such a step leaves RunChat with what it has.
LEMMA PlacedOn ==
    ASSUME Types, Placed, Onward, Moves
    PROVE  Placed'
  <1> SUFFICES ASSUME NEW r \in Requests PROVE PlacedAt(r)'
    BY DEF Placed
  <1>1. /\ pc[r] \in Early => turn[r].bridge = None /\ life[r] = "none"
        /\ turn[r].bridge = None =>
              /\ turn[r].state = "open" /\ turn[r].emitMu = None /\ turn[r].ends = 0
              /\ turn[r].calls = {} /\ ~turn[r].cancelled /\ ~turn[r].stream
        /\ pc[r] \in Early \cup {"swap"} \/ turn[r].bridge = None =>
              r \notin watching /\ todo[closer(r)] = << >> /\ todo[watcher(r)] = << >>
        /\ pc[r] \in {"taken", "relock", "resume", "swap", "sending"} => taken[r] # None
        /\ taken[r] # None => life[BridgeOf(taken[r])] # "none"
        /\ pc[r] = "swap" => turn[r].bridge = BridgeOf(taken[r])
        /\ pc[r] \in {"prepare", "build"} => stored[r] # None
        /\ r \in watching => todo[watcher(r)] = << >>
        /\ turn[r].bridge \notin {None, r} => taken[r] # None /\ turn[r].bridge = BridgeOf(taken[r])
    BY DEF Placed, PlacedAt
  <1>2. \A b \in Requests : life'[b] = life[b] \/ (life[b] = "alive" /\ life'[b] # "none")
    BY DEF Onward
  <1>3. /\ watching' \subseteq watching
        /\ turn'[r].bridge = turn[r].bridge /\ (turn[r].bridge = None => turn'[r] = turn[r])
        /\ \/ taken'[r] = taken[r]
           \/ pc[r] \in Early /\ taken'[r] \in Execs \ {None} /\ life[BridgeOf(taken'[r])] # "none"
        /\ stored'[r] = stored[r] \/ stored'[r] # None
        /\ pc'[r] = pc[r] \/ Proceeds(r)
    BY DEF Moves
  <1>4. taken[r] # None => BridgeOf(taken[r]) \in Requests
    BY DEF Types, TurnTypes, BridgeOf, Execs
  <1>5. "swap" \notin Early
    BY DEF Early
  <1>6. /\ (pc[r] \in Early => turn[r].bridge = None /\ life[r] = "none")'
        /\ (turn[r].bridge = None =>
              /\ turn[r].state = "open" /\ turn[r].emitMu = None /\ turn[r].ends = 0
              /\ turn[r].calls = {} /\ ~turn[r].cancelled /\ ~turn[r].stream)'
        /\ (pc[r] = "swap" => turn[r].bridge = BridgeOf(taken[r]))'
        /\ (pc[r] \in {"prepare", "build"} => stored[r] # None)'
    BY <1>1, <1>2, <1>3, <1>5 DEF Proceeds
  <1>7. (pc[r] \in {"taken", "relock", "resume", "swap", "sending"} => taken[r] # None)'
    BY <1>1, <1>3 DEF Proceeds
  <1>8. (pc[r] \in Early \cup {"swap"} \/ turn[r].bridge = None =>
            r \notin watching /\ todo[closer(r)] = << >> /\ todo[watcher(r)] = << >>)'
    BY <1>1, <1>3 DEF Proceeds, Onward, Kept
  <1>9. (r \in watching => todo[watcher(r)] = << >>)'
    BY <1>1, <1>3 DEF Onward, Kept
  <1>10. (taken[r] # None => life[BridgeOf(taken[r])] # "none")'
    <2>1. taken'[r] # None => BridgeOf(taken'[r]) \in Requests
      BY <1>3, <1>4 DEF BridgeOf, Execs
    <2> QED
      BY <1>1, <1>2, <1>3, <2>1
  <1>11. (turn[r].bridge \notin {None, r} => taken[r] # None /\ turn[r].bridge = BridgeOf(taken[r]))'
    BY <1>1, <1>3
  <1> QED
    BY <1>6, <1>7, <1>8, <1>9, <1>10, <1>11 DEF PlacedAt
\* Such a step leaves the bridges with their callbacks.
LEMMA WiredOn ==
    ASSUME Types, Wired, Onward, Moves, active' \in Execs \cup {None}
    PROVE  Wired'
  <1>1. \A b \in Requests :
           \/ life'[b] = life[b] /\ Kept(reader(b))
           \/ life[b] = "alive" /\ life'[b] # "none"
    BY DEF Onward
  <1>2. /\ onData' = onData /\ onClose' = onClose
        /\ active' # None => life[BridgeOf(active')] # "none"
        /\ \A r \in Requests : /\ turn'[r].bridge = turn[r].bridge
                               /\ pc'[r] = pc[r] \/ Proceeds(r)
    BY DEF Moves
  <1>3. /\ \A b \in Requests : onData[b] # None => onData[b] \in Requests
        /\ \A b \in Requests : onClose[b] # None => onClose[b] \in Requests
        /\ \A t \in Requests : turn[t].bridge # None => turn[t].bridge \in Requests
        /\ active' # None => BridgeOf(active') \in Requests
    <2>1. \A t \in Requests : turn[t].bridge # None => turn[t].bridge \in Requests
      BY DEF Types, TurnTypes, Turn
    <2> QED
      BY <2>1 DEF Types, BridgeTypes, BridgeOf, Execs
  <1>4. ASSUME NEW b \in Requests, life'[b] # "none"
        PROVE  /\ turn'[b].bridge = b
               /\ onData'[b] # None /\ turn'[onData'[b]].bridge = b
               /\ onClose'[b] # None /\ turn'[onClose'[b]].bridge = b
               /\ pc'[onClose'[b]] \notin Early \cup {"swap"}
    <2>1. /\ turn[b].bridge = b
          /\ onData[b] # None /\ turn[onData[b]].bridge = b
          /\ onClose[b] # None /\ turn[onClose[b]].bridge = b
          /\ pc[onClose[b]] \notin Early \cup {"swap"}
      BY <1>1, <1>4 DEF Wired
    <2>2. pc'[onClose[b]] \notin Early \cup {"swap"}
      BY <1>2, <1>3, <2>1 DEF Proceeds
    <2> QED
      BY <1>2, <1>3, <2>1, <2>2
  <1>5. ASSUME NEW b \in Requests, life'[b] = "none" PROVE todo'[reader(b)] = << >>
    BY <1>1, <1>5 DEF Wired, Kept
  <1>6. ASSUME NEW t \in Requests, turn'[t].bridge # None PROVE life'[turn'[t].bridge] # "none"
    BY <1>1, <1>2, <1>3, <1>6 DEF Wired
  <1>7. active' # None => life'[BridgeOf(active')] # "none"
    BY <1>1, <1>2, <1>3
  <1> QED
    BY <1>4, <1>5, <1>6, <1>7 DEF Wired

\* Such a step leaves the goroutines with programs about turns of theirs.
LEMMA ProgramsOn ==
    ASSUME Types, Placed, Wired, Programs, Onward, Moves, todo' \in [Procs -> Seq(Instr)]
    PROVE  Programs'
  <1>1. /\ \A r \in Requests : turn'[r].bridge = turn[r].bridge
        /\ \A r \in Requests : pc'[r] = pc[r] \/ Proceeds(r)
    BY DEF Moves
  <1>2. Based' = Based
    BY <1>1 DEF Based
  <1>3. \A p \in Procs : About(todo'[p], Based')
    BY <1>2 DEF Onward
  <1>4. \A r \in Requests : HeartOnly(todo'[main(r)])
    BY DEF Onward
  <1>5. ASSUME NEW b \in Requests, todo'[reader(b)] # << >>
        PROVE  \E t \in Requests : turn'[t].bridge = b /\ Program(todo'[reader(b)], t, b)
    <2>1. CASE Kept(reader(b))
      <3>1. PICK t \in Requests : turn[t].bridge = b /\ Program(todo[reader(b)], t, b)
        BY <1>5, <2>1 DEF Programs, Kept
      <3> QED
        BY <1>1, <2>1, <3>1 DEF Kept, Follows
    <2>2. CASE \E t \in Requests : turn[t].bridge = b /\ Program(todo'[reader(b)], t, b)
      BY <1>1, <2>2
    <2> QED
      BY <2>1, <2>2 DEF Onward
  <1>6. ASSUME NEW t \in Requests
        PROVE  Program(todo'[closer(t)], t, turn'[t].bridge)
    BY <1>1 DEF Programs, Onward, Kept, Follows
  <1>7. ASSUME NEW t \in Requests, todo'[closer(t)] # << >>
        PROVE  life'[turn'[t].bridge] = "dead" /\ ~Tells(todo'[reader(turn'[t].bridge)], t)
    <2>1. todo[closer(t)] # << >>
      BY <1>7 DEF Onward, Kept
    <2>2. life[turn[t].bridge] = "dead" /\ ~Tells(todo[reader(turn[t].bridge)], t)
      BY <2>1 DEF Programs
    <2>3. turn[t].bridge \in Requests
      <3>1. turn[t].bridge # None
        BY <2>1 DEF Placed, PlacedAt
      <3> QED
        BY <3>1 DEF Types, TurnTypes, Turn
    <2>4. life'[turn[t].bridge] = "dead" /\ Kept(reader(turn[t].bridge))
      BY <2>2, <2>3 DEF Onward
    <2> QED
      BY <1>1, <2>2, <2>4 DEF Kept, Follows
  <1>8. ASSUME NEW t \in Requests, todo'[watcher(t)] # << >>
        PROVE  CtxDone(t)' /\ Program(todo'[watcher(t)], t, turn'[t].bridge) /\ Mute(todo'[watcher(t)])
    <2>1. CASE Kept(watcher(t))
      <3>1. CtxDone(t) /\ Program(todo[watcher(t)], t, turn[t].bridge) /\ Mute(todo[watcher(t)])
        BY <1>8, <2>1 DEF Programs, Kept
      <3>2. CtxDone(t)'
        BY <3>1, StaysDone
      <3> QED
        BY <1>1, <2>1, <3>1, <3>2 DEF Kept, Follows
    <2>2. CASE CtxDone(t) /\ Program(todo'[watcher(t)], t, turn[t].bridge) /\ Mute(todo'[watcher(t)])
      <3>1. CtxDone(t)'
        BY <2>2, StaysDone
      <3> QED
        BY <1>1, <2>2, <3>1
    <2> QED
      BY <2>1, <2>2 DEF Onward
  <1>9. ASSUME NEW b \in Requests, NEW t \in Requests, life'[b] = "dead", Tells(todo'[reader(b)], t)
        PROVE  pc'[t] \notin Early \cup {"swap"}
    <2>1. pc[t] \notin Early \cup {"swap"}
      <3>1. CASE life'[b] = life[b] /\ Kept(reader(b))
        BY <1>9, <3>1 DEF Programs, Kept, Follows
      <3>2. CASE \E u \in Requests : Program(todo'[reader(b)], u, b) /\ Started(u)
        <4>1. PICK u \in Requests : Program(todo'[reader(b)], u, b) /\ Started(u)
          BY <3>2
        <4>2. t = u
          BY <1>9, <4>1 DEF Tells, Program, OfHeart
        <4> QED
          BY <4>1, <4>2 DEF Started
      <3> QED
        BY <1>9, <3>1, <3>2 DEF Onward
    <2> QED
      BY <1>1, <2>1 DEF Proceeds
  <1> QED
    BY <1>3, <1>4, <1>5, <1>6, <1>7, <1>8, <1>9 DEF Programs
\* What the end of a turn depends on.
SameEnds ==
    \A t \in Requests :
        /\ turn'[t].bridge = turn[t].bridge /\ turn'[t].state = turn[t].state
        /\ turn'[t].emitMu = turn[t].emitMu /\ turn'[t].ends = turn[t].ends
        /\ turn'[t].cancelled = turn[t].cancelled /\ turn'[t].calls = turn[t].calls

\* No worker loses the end of a turn that is not closed, or what it waits with the mutex
\* for, or has but the end left of a turn that is open.
Quietly ==
    \A p \in Workers, t \in Requests :
        /\ turn[t].emitMu = p => todo'[p] = todo[p]
        /\ EndsWith(todo[p], t) => EndsWith(todo'[p], t) \/ turn[t].state = "closed"
        /\ OnlyFinish(todo[p], t) => OnlyFinish(todo'[p], t) \/ turn[t].state = "closed"
        /\ OnlyFinish(todo'[p], t) => OnlyFinish(todo[p], t) \/ turn[t].state # "open"

\* A request in its first section sends nothing and ends nothing.
LEMMA HeartSays ==
    ASSUME NEW s \in Seq(Instr), HeartOnly(s)
    PROVE  /\ \A t : ~EndsWith(s, t)
           /\ s # << >> => s[1].do # "emit"
  <1>1. CASE s = << >>
    BY <1>1, NothingToDo
  <1>2. CASE s # << >>
    <2>1. Len(s) \in DOMAIN s /\ 1 \in DOMAIN s
      BY <1>2, Parts
    <2>2. s[Len(s)].do # "finish" /\ s[1].do # "emit"
      BY <2>1 DEF HeartOnly, OfHeart
    <2> QED
      BY <2>2 DEF EndsWith, LastOf
  <1> QED
    BY <1>1, <1>2

\* Such a step leaves the ends of the turns as they are.
LEMMA EndingsOn ==
    ASSUME IInv, Onward, Moves, SameEnds, Quietly, todo' \in [Procs -> Seq(Instr)]
    PROVE  Locked' /\ Endings'
  <1>1. /\ Types /\ Placed /\ Programs /\ Locked /\ Endings
        /\ todo \in [Procs -> Seq(Instr)]
    BY DEF IInv, Types, TurnTypes
  <1>2. ASSUME NEW r \in Requests
        PROVE  /\ \A t : ~EndsWith(todo[main(r)], t) /\ ~EndsWith(todo'[main(r)], t)
               /\ todo[main(r)] # << >> => todo[main(r)][1].do # "emit"
    <2>1. main(r) \in Procs /\ HeartOnly(todo[main(r)]) /\ HeartOnly(todo'[main(r)])
      BY <1>1, WorkerNames DEF Programs, Onward
    <2>2. todo[main(r)] \in Seq(Instr) /\ todo'[main(r)] \in Seq(Instr)
      BY <1>1, <2>1
    <2> QED
      BY <2>1, <2>2, HeartSays
  <1>3. ASSUME NEW t \in Requests, turn'[t].emitMu # None
        PROVE  /\ turn'[t].state # "closed"
               /\ todo'[turn'[t].emitMu] # << >> /\ todo'[turn'[t].emitMu][1].do = "emit"
               /\ todo'[turn'[t].emitMu][1].turn = t
    <2> DEFINE p == turn[t].emitMu
    <2>1. turn'[t].emitMu = p /\ turn'[t].state = turn[t].state /\ p # None
      BY <1>3 DEF SameEnds
    <2>2. turn[t].state # "closed" /\ todo[p] # << >> /\ todo[p][1].do = "emit" /\ todo[p][1].turn = t
      BY <1>1, <2>1 DEF Locked, LockedAt
    <2>3. p \in Procs
      BY <1>1, <2>1 DEF Types, TurnTypes, Turn
    <2>4. p \in Workers
      BY <1>2, <2>2, <2>3, WorkerNames
    <2>5. todo'[p] = todo[p]
      BY <2>4 DEF Quietly
    <2> QED
      BY <2>1, <2>2, <2>5
  <1>4. ASSUME NEW t \in Requests
        PROVE  /\ turn'[t].ends <= 1
               /\ turn'[t].ends = 1 /\ (turn'[t].state = "open" \/ turn'[t].emitMu # None) =>
                     \/ OnlyFinish(todo'[closer(t)], t)
                     \/ turn'[t].bridge # None /\ OnlyFinish(todo'[reader(turn'[t].bridge)], t)
               /\ turn'[t].state # "open" => turn'[t].ends = 1 \/ CtxDone(t)'
               /\ \A p \in Procs : OnlyFinish(todo'[p], t) =>
                     turn'[t].ends = 1 \/ CtxDone(t)' \/ turn'[t].state # "open"
               /\ turn'[t].cancelled => CtxDone(t)'
               /\ turn'[t].calls # {} /\ turn'[t].state = "open" =>
                     EndsWith(todo'[reader(turn'[t].bridge)], t)
    <2>1. /\ turn'[t].bridge = turn[t].bridge /\ turn'[t].state = turn[t].state
          /\ turn'[t].emitMu = turn[t].emitMu /\ turn'[t].ends = turn[t].ends
          /\ turn'[t].cancelled = turn[t].cancelled /\ turn'[t].calls = turn[t].calls
      BY DEF SameEnds
    <2>2. CtxDone(t) => CtxDone(t)'
      BY StaysDone
    <2>3. turn[t].bridge # None => turn[t].bridge \in Requests
      BY <1>1 DEF Types, TurnTypes, Turn
    <2>4. /\ turn[t].ends <= 1
          /\ turn[t].ends = 1 /\ (turn[t].state = "open" \/ turn[t].emitMu # None) =>
                \/ OnlyFinish(todo[closer(t)], t)
                \/ turn[t].bridge # None /\ OnlyFinish(todo[reader(turn[t].bridge)], t)
          /\ turn[t].state # "open" => turn[t].ends = 1 \/ CtxDone(t)
          /\ \A p \in Procs : OnlyFinish(todo[p], t) =>
                turn[t].ends = 1 \/ CtxDone(t) \/ turn[t].state # "open"
          /\ turn[t].cancelled => CtxDone(t)
          /\ turn[t].calls # {} /\ turn[t].state = "open" =>
                EndsWith(todo[reader(turn[t].bridge)], t)
      BY <1>1 DEF Endings, EndsAt, Live
    <2>5. turn[t].calls # {} => turn[t].bridge # None
      BY <1>1 DEF Placed, PlacedAt
    <2>6. turn[t].emitMu # None => turn[t].state # "closed"
      BY <1>1 DEF Locked, LockedAt
    <2>7. ASSUME turn[t].ends = 1, turn[t].state = "open" \/ turn[t].emitMu # None
          PROVE  \/ OnlyFinish(todo'[closer(t)], t)
                 \/ turn[t].bridge # None /\ OnlyFinish(todo'[reader(turn[t].bridge)], t)
      <3>1. turn[t].state # "closed"
        BY <2>6, <2>7
      <3>2. CASE OnlyFinish(todo[closer(t)], t)
        BY <3>1, <3>2, WorkerNames DEF Quietly
      <3>3. CASE turn[t].bridge # None /\ OnlyFinish(todo[reader(turn[t].bridge)], t)
        BY <2>3, <3>1, <3>3, WorkerNames DEF Quietly
      <3> QED
        BY <2>4, <2>7, <3>2, <3>3
    <2>8. ASSUME NEW p \in Procs, OnlyFinish(todo'[p], t)
          PROVE  turn[t].ends = 1 \/ CtxDone(t) \/ turn[t].state # "open"
      <3>1. p \in Workers
        BY <1>2, <2>8, WorkerNames DEF OnlyFinish
      <3>2. OnlyFinish(todo[p], t) \/ turn[t].state # "open"
        BY <2>8, <3>1 DEF Quietly
      <3> QED
        BY <2>4, <3>2
    <2>9. ASSUME turn[t].calls # {}, turn[t].state = "open"
          PROVE  EndsWith(todo'[reader(turn[t].bridge)], t)
      BY <2>3, <2>4, <2>5, <2>9, WorkerNames DEF Quietly
    <2> QED
      BY <2>1, <2>2, <2>4, <2>7, <2>8, <2>9
  <1>5. Locked'
    BY <1>3 DEF Locked, LockedAt
  <1>6. Endings'
    BY <1>4 DEF Endings, EndsAt, Live
  <1> QED
    BY <1>5, <1>6
--------------------------------------------------------------------------------
(* The steps of the goroutines.                                                *)

\* What the next step of a program is about.
LEMMA Whose ==
    ASSUME IInv, NEW p \in Procs, todo[p] # << >>,
           todo[p][1].do \notin OfHeart \cup {"cleanup"}
    PROVE  LET t == todo[p][1].turn
               b == turn[t].bridge
           IN  /\ t \in Requests /\ b \in Requests /\ p \in Workers
               /\ Program(todo[p], t, b)
               /\ \/ p = reader(b)
                  \/ p = closer(t)
                  \/ p = watcher(t) /\ todo[p][1].do \notin {"emit", "final", "register", "keep"}
  <1> DEFINE s == todo[p]
             t == s[1].turn
             b == turn[t].bridge
  <1>1. s \in Seq(Instr) /\ s # << >> /\ 1 \in DOMAIN s /\ s[1] \in Instr
    <2>1. s \in Seq(Instr) /\ s # << >>
      BY DEF IInv, Types, TurnTypes
    <2> QED
      BY <2>1, Parts
  <1>2. Programs
    BY DEF IInv
  <1>3. t \in Based
    BY <1>1, <1>2 DEF Programs, About
  <1>4. t \in Requests /\ b \in Requests
    <2>1. t \in Requests /\ b # None
      BY <1>3 DEF Based
    <2> QED
      BY <2>1 DEF IInv, Types, TurnTypes, Turn
  <1>5. ASSUME NEW u, NEW c, Program(s, u, c) PROVE u = t
    BY <1>1, <1>5 DEF Program
  <1>6. CASE \E r \in Requests : p = main(r)
    BY <1>1, <1>2, <1>6 DEF Programs, HeartOnly
  <1>7. CASE \E r \in Requests : p = reader(r)
    <2>1. PICK r \in Requests : p = reader(r)
      BY <1>7
    <2>2. PICK u \in Requests : turn[u].bridge = r /\ Program(s, u, r)
      BY <1>1, <1>2, <2>1 DEF Programs
    <2>3. u = t
      BY <1>5, <2>2
    <2> QED
      BY <1>4, <2>1, <2>2, <2>3, WorkerNames
  <1>8. CASE \E r \in Requests : p = closer(r)
    <2>1. PICK r \in Requests : p = closer(r)
      BY <1>8
    <2>2. Program(s, r, turn[r].bridge)
      BY <1>2, <2>1 DEF Programs
    <2>3. r = t
      BY <1>5, <2>2
    <2> QED
      BY <1>4, <2>1, <2>2, <2>3, WorkerNames
  <1>9. CASE \E r \in Requests : p = watcher(r)
    <2>1. PICK r \in Requests : p = watcher(r)
      BY <1>9
    <2>2. Program(s, r, turn[r].bridge) /\ Mute(s)
      BY <1>1, <1>2, <2>1 DEF Programs
    <2>3. r = t
      BY <1>5, <2>2
    <2>4. s[1].do \notin {"emit", "final", "register", "keep"}
      BY <1>1, <2>2 DEF Mute
    <2> QED
      BY <1>4, <2>1, <2>2, <2>3, <2>4, WorkerNames
  <1> QED
    BY <1>6, <1>7, <1>8, <1>9, WorkerNames

\* A program about a turn says nothing about another one.
LEMMA OneTurn ==
    ASSUME NEW s, NEW t, NEW b, Program(s, t, b), NEW u,
           EndsWith(s, u) \/ OnlyFinish(s, u) \/ Tells(s, u), s \in Seq(Instr)
    PROVE  u = t
  <1>1. ASSUME EndsWith(s, u) PROVE Tells(s, u)
    <2>1. Len(s) \in DOMAIN s
      BY <1>1, Parts DEF EndsWith
    <2> QED
      BY <1>1, <2>1 DEF EndsWith, LastOf, Tells
  <1>2. Tells(s, u)
    BY <1>1 DEF OnlyFinish
  <1> QED
    BY <1>2 DEF Tells, Program, OfHeart

\* A goroutine has done a step, or put another in its place, and nobody else has.
LEMMA StepOnward ==
    ASSUME IInv, NEW p \in Procs, todo[p] # << >>, NEW q \in Seq(Instr),
           Follows(todo[p], q), About(q, Based),
           todo' = [todo EXCEPT ![p] = q], life' = life
    PROVE  /\ Onward /\ todo' \in [Procs -> Seq(Instr)]
           /\ todo'[p] = q /\ \A w \in Procs : w # p => todo'[w] = todo[w]
  <1>1. todo \in [Procs -> Seq(Instr)] /\ Programs
    BY DEF IInv, Types, TurnTypes
  <1>2. /\ todo' \in [Procs -> Seq(Instr)] /\ todo'[p] = q
        /\ \A w \in Procs : w # p => todo'[w] = todo[w]
    BY <1>1
  <1>3. ASSUME NEW w \in Procs PROVE Kept(w) /\ About(todo'[w], Based)
    <2>1. CASE w = p
      BY <1>2, <2>1 DEF Kept
    <2>2. CASE w # p
      <3>1. todo'[w] = todo[w] /\ todo[w] \in Seq(Instr) /\ About(todo[w], Based)
        BY <1>1, <1>2, <2>2 DEF Programs
      <3> QED
        BY <3>1 DEF Kept, Follows
    <2> QED
      BY <2>1, <2>2
  <1>4. ASSUME NEW r \in Requests PROVE HeartOnly(todo'[main(r)])
    <2>1. HeartOnly(todo[main(r)]) /\ main(r) \in Procs
      BY <1>1, WorkerNames DEF Programs
    <2> QED
      BY <1>3, <2>1 DEF Kept, Follows
  <1> QED
    BY <1>2, <1>3, <1>4, WorkerNames DEF Onward

\* Nobody has anything new to do.
LEMMA StillOnward ==
    ASSUME IInv, todo' = todo, life' = life
    PROVE  Onward /\ todo' \in [Procs -> Seq(Instr)]
  <1>1. todo \in [Procs -> Seq(Instr)] /\ Programs
    BY DEF IInv, Types, TurnTypes
  <1>2. ASSUME NEW w \in Procs PROVE Kept(w) /\ About(todo'[w], Based)
    BY <1>1 DEF Kept, Follows, Programs
  <1>3. \A r \in Requests : HeartOnly(todo'[main(r)])
    BY <1>1 DEF Programs
  <1> QED
    BY <1>1, <1>2, <1>3, WorkerNames DEF Onward

\* Nobody but this goroutine has changed its program: the others end what they ended.
LEMMA StepQuiet ==
    ASSUME IInv, NEW p \in Procs, NEW q,
           todo'[p] = q, \A w \in Procs : w # p => todo'[w] = todo[w],
           \A t \in Requests :
               /\ turn[t].emitMu # p
               /\ EndsWith(todo[p], t) => EndsWith(q, t) \/ turn[t].state = "closed"
               /\ OnlyFinish(todo[p], t) => OnlyFinish(q, t) \/ turn[t].state = "closed"
               /\ OnlyFinish(q, t) => OnlyFinish(todo[p], t) \/ turn[t].state # "open"
    PROVE  Quietly
  <1> SUFFICES ASSUME NEW w \in Workers, NEW t \in Requests
               PROVE  /\ turn[t].emitMu = w => todo'[w] = todo[w]
                      /\ EndsWith(todo[w], t) => EndsWith(todo'[w], t) \/ turn[t].state = "closed"
                      /\ OnlyFinish(todo[w], t) => OnlyFinish(todo'[w], t) \/ turn[t].state = "closed"
                      /\ OnlyFinish(todo'[w], t) => OnlyFinish(todo[w], t) \/ turn[t].state # "open"
    BY DEF Quietly
  <1>1. CASE w = p
    BY <1>1
  <1>2. CASE w # p
    <2>1. todo'[w] = todo[w]
      BY <1>2, WorkerNames
    <2> QED
      BY <2>1
  <1> QED
    BY <1>1, <1>2

\* The mutex of a stream is held by whom waits there.
LEMMA HoldsNothing ==
    ASSUME IInv, NEW p \in Procs, NEW t \in Requests, turn[t].emitMu = p
    PROVE  todo[p] # << >> /\ todo[p][1].do = "emit" /\ todo[p][1].turn = t /\ turn[t].state # "closed"
  <1>1. p # None
    BY SessionAssumption DEF IInv, Procs
  <1> QED
    BY <1>1 DEF IInv, Locked, LockedAt
\* A step that ends nothing, or ends what is over.
LEMMA PopQuiet ==
    ASSUME IInv, NEW p \in Procs, todo[p] # << >>, Pop(p), life' = life,
           \/ todo[p][1].do \notin {"emit", "finish", "final"}
           \/ /\ todo[p][1].do = "emit" /\ turn[todo[p][1].turn].emitMu = None
              /\ turn[todo[p][1].turn].state # "open"
           \/ todo[p][1].do = "finish" /\ turn[todo[p][1].turn].state = "closed"
    PROVE  Onward /\ Quietly /\ todo' \in [Procs -> Seq(Instr)]
  <1> DEFINE s == todo[p]
             u == s[1].turn
             q == Tail(s)
  <1>1. s \in Seq(Instr) /\ s # << >> /\ About(s, Based) /\ p # None
    BY SessionAssumption DEF IInv, Types, TurnTypes, Programs
  <1>2. /\ Follows(s, q) /\ About(q, Based) /\ q \in Seq(Instr)
        /\ \A t : EndsWith(q, t) => EndsWith(s, t)
        /\ NoTerminal(s) => NoTerminal(q)
        /\ \A t : EndsWith(s, t) => EndsWith(q, t) \/ (s[1].do = "finish" /\ s[1].turn = t /\ q = << >>)
        /\ NoTerminal(q) => NoTerminal(s) \/ IsTerminal(s[1])
    BY <1>1, TailFollows DEF Follows
  <1>3. todo' = [todo EXCEPT ![p] = q]
    BY DEF Pop
  <1> HIDE DEF q
  <1>4. /\ Onward /\ todo' \in [Procs -> Seq(Instr)]
        /\ todo'[p] = q /\ \A w \in Procs : w # p => todo'[w] = todo[w]
    BY <1>1, <1>2, <1>3, StepOnward
  <1>5. ASSUME NEW t \in Requests
        PROVE  /\ turn[t].emitMu # p
               /\ EndsWith(s, t) => EndsWith(q, t) \/ turn[t].state = "closed"
               /\ OnlyFinish(s, t) => OnlyFinish(q, t) \/ turn[t].state = "closed"
               /\ OnlyFinish(q, t) => OnlyFinish(s, t) \/ turn[t].state # "open"
    <2>1. turn[t].emitMu # p
      BY <1>1, HoldsNothing
    <2>2. EndsWith(s, t) => EndsWith(q, t) \/ turn[t].state = "closed"
      BY <1>2
    <2>3. OnlyFinish(s, t) => OnlyFinish(q, t) \/ turn[t].state = "closed"
      BY <1>2, <2>2 DEF OnlyFinish
    <2>4. ASSUME EndsWith(q, t), NoTerminal(q), IsTerminal(s[1]) PROVE turn[t].state # "open"
      <3>1. s[1].do = "emit" /\ turn[u].state # "open"
        BY <2>4 DEF IsTerminal
      <3>2. Program(s, u, turn[u].bridge)
        BY <1>1, <3>1, Whose DEF OfHeart
      <3>3. t = u
        BY <1>1, <1>2, <2>4, <3>2, OneTurn
      <3> QED
        BY <3>1, <3>3
    <2>5. OnlyFinish(q, t) => OnlyFinish(s, t) \/ turn[t].state # "open"
      BY <1>2, <2>4 DEF OnlyFinish
    <2> QED
      BY <2>1, <2>2, <2>3, <2>5
  <1>6. Quietly
    BY <1>4, <1>5, StepQuiet
  <1> QED
    BY <1>4, <1>6

\* The look at a heartbeat that beats.
LEMMA HeartQuiet ==
    ASSUME IInv, NEW p \in Procs, todo[p] # << >>, todo[p][1].do \in {"heart", "cleanup"},
           NEW what \in OfHeart, Then(p, <<Do(what, turn[todo[p][1].turn].bridge)>>), life' = life
    PROVE  Onward /\ Quietly /\ todo' \in [Procs -> Seq(Instr)]
  <1> DEFINE s == todo[p]
             b == turn[s[1].turn].bridge
             h == Do(what, b)
             q == <<h>> \o Tail(s)
  <1>1. s \in Seq(Instr) /\ s # << >> /\ About(s, Based) /\ 1 \in DOMAIN s
    <2>1. s \in Seq(Instr) /\ s # << >> /\ About(s, Based)
      BY DEF IInv, Types, TurnTypes, Programs
    <2> QED
      BY <2>1, Parts
  <1>2. b \in Requests /\ b \in Based
    <2>1. s[1].turn \in Requests /\ b # None
      BY <1>1 DEF About, Based
    <2>2. b \in Requests
      BY <2>1 DEF IInv, Types, TurnTypes, Turn
    <2>3. turn[b].bridge = b
      BY <2>1, <2>2 DEF IInv, Wired
    <2>4. b # None
      BY <2>1
    <2> QED
      BY <2>2, <2>3, <2>4 DEF Based
  <1>3. h \in Instr /\ h.do \in OfHeart /\ h.turn = b
    BY <1>2, Steps DEF Do, Bare
  <1> HIDE DEF h
  <1>4. /\ Follows(s, q) /\ About(q, Based) /\ q \in Seq(Instr)
        /\ \A t : EndsWith(s, t) <=> EndsWith(q, t)
        /\ NoTerminal(s) <=> NoTerminal(q)
    BY <1>1, <1>2, <1>3, HeartFollows DEF Follows
  <1>5. todo' = [todo EXCEPT ![p] = q]
    BY DEF Then, h
  <1> HIDE DEF q
  <1>6. /\ Onward /\ todo' \in [Procs -> Seq(Instr)]
        /\ todo'[p] = q /\ \A w \in Procs : w # p => todo'[w] = todo[w]
    BY <1>1, <1>4, <1>5, StepOnward
  <1>7. \A t \in Requests : /\ turn[t].emitMu # p
                            /\ EndsWith(s, t) <=> EndsWith(q, t)
                            /\ OnlyFinish(s, t) <=> OnlyFinish(q, t)
    BY <1>4, HoldsNothing DEF OnlyFinish
  <1>8. Quietly
    BY <1>6, <1>7, StepQuiet
  <1> QED
    BY <1>6, <1>8

\* Nothing to do is new.
LEMMA StillQuiet ==
    ASSUME todo' = todo
    PROVE  Quietly
  BY DEF Quietly

\* What most steps leave alone.
LEMMA StaysPut ==
    ASSUME IInv, UNCHANGED <<onData, onClose, watching, gone, pc, taken, stored>>,
           active' = active \/ (active' # None => life[BridgeOf(active')] # "none"),
           \A r \in Requests : /\ turn'[r].bridge = turn[r].bridge
                               /\ turn[r].bridge = None => turn'[r] = turn[r]
    PROVE  Moves
  BY DEF Moves, IInv, Wired

\* A step that goes on keeps the invariant.
LEMMA QuietInv ==
    ASSUME IInv, Types', Onward, Moves, SameEnds, Quietly
    PROVE  IInv'
  <1>1. todo' \in [Procs -> Seq(Instr)] /\ active' \in Execs \cup {None}
    BY DEF Types, TurnTypes, SessionTypes
  <1>2. Types /\ Placed /\ Wired /\ Programs
    BY DEF IInv
  <1>3. Placed' /\ Wired' /\ Programs'
    BY <1>1, <1>2, PlacedOn, WiredOn, ProgramsOn
  <1>4. Locked' /\ Endings'
    BY <1>1, EndingsOn
  <1> QED
    BY <1>3, <1>4 DEF IInv
\* One field of a stream is set.
LEMMA StateField ==
    ASSUME NEW T \in Turn, NEW v \in {"open", "closing", "closed"}
    PROVE  LET U == [T EXCEPT !["state"] = v] IN
           /\ U \in Turn /\ U.state = v /\ U.bridge = T.bridge /\ U.emitMu = T.emitMu
           /\ U.ends = T.ends /\ U.cancelled = T.cancelled /\ U.calls = T.calls
           /\ U.stream = T.stream /\ U.out = T.out
  BY DEF Turn

\* Its mutex is taken or given back.
LEMMA MutexField ==
    ASSUME NEW T \in Turn, NEW v \in Procs \cup {None}
    PROVE  LET U == [T EXCEPT !["emitMu"] = v] IN
           /\ U \in Turn /\ U.emitMu = v /\ U.bridge = T.bridge /\ U.state = T.state
           /\ U.ends = T.ends /\ U.cancelled = T.cancelled /\ U.calls = T.calls
           /\ U.stream = T.stream /\ U.out = T.out
  BY DEF Turn

\* The turn has ended.
LEMMA EndedField ==
    ASSUME NEW T \in Turn
    PROVE  LET U == [T EXCEPT !["turnEnded"] = TRUE] IN
           /\ U \in Turn /\ U.bridge = T.bridge /\ U.state = T.state /\ U.emitMu = T.emitMu
           /\ U.ends = T.ends /\ U.cancelled = T.cancelled /\ U.calls = T.calls
           /\ U.stream = T.stream /\ U.out = T.out
  BY DEF Turn

\* A chunk is taken out.
LEMMA OutField ==
    ASSUME NEW T \in Turn, NEW v \in Seq(Chunk)
    PROVE  LET U == [T EXCEPT !["out"] = v] IN
           /\ U \in Turn /\ U.out = v /\ U.bridge = T.bridge /\ U.state = T.state
           /\ U.emitMu = T.emitMu /\ U.ends = T.ends /\ U.cancelled = T.cancelled
           /\ U.calls = T.calls /\ U.stream = T.stream
  BY DEF Turn

\* A stream's record after a chunk is sent, and after a checkpoint has come.
Sent(T, o, e) == [T EXCEPT !.out = o, !.emitMu = None, !.ends = e]
Noted(T, l, m) == [T EXCEPT !.latest = l, !.terminal = m]

\* A chunk is sent.
LEMMA SentField ==
    ASSUME NEW T \in Turn, NEW o \in Seq(Chunk), NEW e \in Nat
    PROVE  LET U == Sent(T, o, e) IN
           /\ U \in Turn /\ U.bridge = T.bridge /\ U.state = T.state /\ U.emitMu = None
           /\ U.cancelled = T.cancelled /\ U.calls = T.calls
           /\ U.stream = T.stream /\ U.out = o /\ U.ends = e
  BY DEF Turn, Sent

\* A checkpoint has come.
LEMMA CheckpointField ==
    ASSUME NEW T \in Turn, NEW l \in SUBSET (SUBSET Blobs), NEW m \in BOOLEAN
    PROVE  LET U == Noted(T, l, m) IN
           /\ U \in Turn /\ U.bridge = T.bridge /\ U.state = T.state /\ U.emitMu = T.emitMu
           /\ U.ends = T.ends /\ U.cancelled = T.cancelled /\ U.calls = T.calls
           /\ U.stream = T.stream /\ U.out = T.out
  BY DEF Turn, Noted

\* A stream is changed and the others are not.
LEMMA TurnSet ==
    ASSUME turn \in [Requests -> Turn], NEW t \in Requests, NEW T \in Turn,
           turn' = [turn EXCEPT ![t] = T]
    PROVE  /\ turn' \in [Requests -> Turn] /\ turn'[t] = T
           /\ \A u \in Requests : u # t => turn'[u] = turn[u]
  OBVIOUS

\* The steps that change nothing but programs.
LEMMA PlainTypes ==
    ASSUME IInv, UNCHANGED <<limit, sessions, bridges, server, requests, turn, gone, known, panicked>>,
           watching' \subseteq watching, todo' \in [Procs -> Seq(Instr)]
    PROVE  Types'
  <1>1. SessionTypes'
    BY DEF IInv, Types, SessionTypes, sessions, bridges, server, requests
  <1>2. BridgeTypes'
    BY DEF IInv, Types, BridgeTypes, sessions, bridges, server, requests
  <1>3. TurnTypes'
    BY DEF IInv, Types, TurnTypes, sessions, bridges, server, requests
  <1> QED
    BY <1>1, <1>2, <1>3 DEF IInv, Types

\* The steps that change a stream and programs.
LEMMA TurnStepTypes ==
    ASSUME IInv, UNCHANGED <<limit, sessions, bridges, server, requests, gone, panicked>>,
           known' \subseteq Execs,
           watching' \subseteq watching, todo' \in [Procs -> Seq(Instr)],
           turn' \in [Requests -> Turn],
           \A t \in Requests : turn'[t].stream => Len(turn'[t].out) <= Capacity
    PROVE  Types'
  <1>1. SessionTypes'
    BY DEF IInv, Types, SessionTypes, sessions, bridges, server, requests
  <1>2. BridgeTypes'
    BY DEF IInv, Types, BridgeTypes, sessions, bridges, server, requests
  <1>3. TurnTypes'
    BY DEF IInv, Types, TurnTypes, sessions, bridges, server, requests
  <1> QED
    BY <1>1, <1>2, <1>3 DEF IInv, Types

\* emit on a stream that is over, and finish once more.
LEMMA SkipInv ==
    ASSUME IInv, NEW p \in Procs, todo[p] # << >>, UNCHANGED limit,
           \/ todo[p][1].do = "emit" /\ EmitSkip(p, todo[p][1].turn)
           \/ todo[p][1].do = "finish" /\ FinishAgain(p, todo[p][1].turn)
    PROVE  IInv'
  <1>1. /\ Pop(p) /\ UNCHANGED <<sessions, bridges, server, requests, turn, watching, clients, panicked>>
        /\ \/ /\ todo[p][1].do = "emit" /\ turn[todo[p][1].turn].emitMu = None
              /\ turn[todo[p][1].turn].state # "open"
           \/ todo[p][1].do = "finish" /\ turn[todo[p][1].turn].state = "closed"
    BY DEF EmitSkip, FinishAgain
  <1>2. Onward /\ Quietly /\ todo' \in [Procs -> Seq(Instr)]
    BY <1>1, PopQuiet DEF bridges
  <1>3. Types'
    BY <1>1, <1>2, PlainTypes DEF clients
  <1>4. Moves
    BY <1>1, StaysPut DEF sessions, bridges, requests, clients
  <1>5. SameEnds
    BY <1>1 DEF SameEnds
  <1> QED
    BY <1>2, <1>3, <1>4, <1>5, QuietInv

\* The turn has ended, says the server.
LEMMA TurnEndedInv ==
    ASSUME IInv, NEW p \in Procs, todo[p] # << >>, UNCHANGED limit, todo[p][1].do = "ended",
           TurnEnded(p, todo[p][1].turn)
    PROVE  IInv'
  <1> DEFINE t == todo[p][1].turn
             T == [turn[t] EXCEPT !["turnEnded"] = TRUE]
  <1>1. /\ Pop(p) /\ UNCHANGED <<sessions, bridges, server, requests, watching, clients, panicked>>
        /\ turn' = [turn EXCEPT ![t] = T]
    BY DEF TurnEnded, SetTurn
  <1>2. turn \in [Requests -> Turn] /\ t \in Requests /\ turn[t].bridge # None
    <2>1. t \in Requests /\ turn[t].bridge \in Requests
      BY Whose DEF OfHeart
    <2> QED
      BY <2>1, SessionAssumption DEF IInv, Types, TurnTypes
  <1>3. /\ T \in Turn /\ T.bridge = turn[t].bridge /\ T.state = turn[t].state
        /\ T.emitMu = turn[t].emitMu /\ T.ends = turn[t].ends
        /\ T.cancelled = turn[t].cancelled /\ T.calls = turn[t].calls
        /\ T.stream = turn[t].stream /\ T.out = turn[t].out
    BY <1>2, EndedField
  <1> HIDE DEF T
  <1>4. /\ turn' \in [Requests -> Turn] /\ turn'[t] = T
        /\ \A u \in Requests : u # t => turn'[u] = turn[u]
    BY <1>1, <1>2, <1>3, TurnSet
  <1>5. Onward /\ Quietly /\ todo' \in [Procs -> Seq(Instr)]
    BY <1>1, PopQuiet DEF bridges
  <1>6. SameEnds /\ \A u \in Requests : turn'[u].stream = turn[u].stream /\ turn'[u].out = turn[u].out
    BY <1>3, <1>4 DEF SameEnds
  <1>7. Types'
    <2>1. known' \subseteq Execs /\ \A u \in Requests : turn'[u].stream => Len(turn'[u].out) <= Capacity
      BY <1>1, <1>6 DEF IInv, Types, TurnTypes, SessionTypes, clients
    <2> QED
      BY <1>1, <1>4, <1>5, <2>1, TurnStepTypes DEF clients
  <1>8. Moves
    <2>1. \A r \in Requests : /\ turn'[r].bridge = turn[r].bridge
                              /\ turn[r].bridge = None => turn'[r] = turn[r]
      BY <1>2, <1>3, <1>4
    <2> QED
      BY <1>1, <2>1, StaysPut DEF sessions, bridges, requests, clients
  <1> QED
    BY <1>5, <1>6, <1>7, <1>8, QuietInv
\* A bridge that is about to be ended.
LEMMA EndsTypes ==
    ASSUME IInv, NEW b \in Requests, NEW cancel
    PROVE  EndsBridge(b, cancel) \subseteq Requests
  BY DEF EndsBridge, IInv, Types, BridgeTypes

\* The look at a heartbeat.
LEMMA HeartInv ==
    ASSUME IInv, NEW p \in Procs, todo[p] # << >>, UNCHANGED limit, NEW cancel \in BOOLEAN,
           todo[p][1].do \in {"heart", "cleanup"},
           Heart(p, turn[todo[p][1].turn].bridge, cancel)
    PROVE  IInv'
  <1> DEFINE b == turn[todo[p][1].turn].bridge
  <1>1. b \in Requests
    <2>1. todo[p] \in Seq(Instr) /\ About(todo[p], Based)
      BY DEF IInv, Types, TurnTypes, Programs
    <2>2. 1 \in DOMAIN todo[p]
      BY <2>1, Parts
    <2>3. todo[p][1].turn \in Based
      BY <2>1, <2>2 DEF About
    <2> QED
      BY <2>3 DEF Based, IInv, Types, TurnTypes, Turn
  <1>2. /\ UNCHANGED <<sessions, life, heart, onData, onClose, server, requests, turn, watching,
                       clients, panicked>>
        /\ \/ Then(p, <<Do(IF cancel THEN "cleanupClose" ELSE "heartClose", b)>>) /\ ended' = ended
           \/ Pop(p) /\ ended' = EndsBridge(b, cancel)
    BY DEF Heart
  <1>3. Onward /\ Quietly /\ todo' \in [Procs -> Seq(Instr)]
    <2>1. CASE Then(p, <<Do(IF cancel THEN "cleanupClose" ELSE "heartClose", b)>>)
      <3>1. PICK what \in OfHeart : Then(p, <<Do(what, b)>>)
        BY <2>1 DEF OfHeart
      <3> QED
        BY <1>2, <3>1, HeartQuiet
    <2>2. CASE Pop(p)
      BY <1>2, <2>2, PopQuiet
    <2> QED
      BY <1>2, <2>1, <2>2
  <1>4. Types'
    <2>1. ended' \subseteq Requests
      BY <1>1, <1>2, EndsTypes DEF IInv, Types, BridgeTypes
    <2>2. SessionTypes'
      BY <1>2 DEF IInv, Types, SessionTypes, sessions, server, requests, clients
    <2>3. BridgeTypes'
      BY <1>2, <2>1 DEF IInv, Types, BridgeTypes, server
    <2>4. TurnTypes'
      BY <1>2, <1>3 DEF IInv, Types, TurnTypes, requests, clients
    <2> QED
      BY <1>2, <2>2, <2>3, <2>4 DEF IInv, Types
  <1>5. Moves
    BY <1>2, StaysPut DEF sessions, requests, clients
  <1>6. SameEnds
    BY <1>2 DEF SameEnds
  <1> QED
    BY <1>3, <1>4, <1>5, <1>6, QuietInv

\* The close of a heartbeat.
LEMMA CloseHeartInv ==
    ASSUME IInv, NEW p \in Procs, todo[p] # << >>, UNCHANGED limit, NEW cancel \in BOOLEAN,
           todo[p][1].do \in OfHeart, CloseHeart(p, todo[p][1].turn, cancel)
    PROVE  IInv'
  <1> DEFINE b == todo[p][1].turn
  <1>1. b \in Requests
    <2>1. todo[p] \in Seq(Instr) /\ About(todo[p], Based)
      BY DEF IInv, Types, TurnTypes, Programs
    <2>2. 1 \in DOMAIN todo[p]
      BY <2>1, Parts
    <2> QED
      BY <2>1, <2>2 DEF About, Based
  <1>2. /\ UNCHANGED <<sessions, life, onData, onClose, server, requests, turn, watching, clients>>
        /\ heart' = [heart EXCEPT ![b] = "stopped"] /\ Pop(p)
        /\ panicked' = IF heart[b] = "stopped" THEN "close" ELSE panicked
        /\ ended' = EndsBridge(b, cancel)
    BY DEF CloseHeart
  <1>3. Onward /\ Quietly /\ todo' \in [Procs -> Seq(Instr)]
    BY <1>2, PopQuiet DEF OfHeart
  <1>4. Types'
    <2>1. ended' \subseteq Requests
      BY <1>1, <1>2, EndsTypes
    <2>2. SessionTypes'
      BY <1>2 DEF IInv, Types, SessionTypes, sessions, server, requests, clients
    <2>3. BridgeTypes'
      BY <1>2, <2>1 DEF IInv, Types, BridgeTypes, server
    <2>4. TurnTypes'
      BY <1>2, <1>3 DEF IInv, Types, TurnTypes, requests, clients
    <2>5. panicked' \in {"no", "close"}
      BY <1>2 DEF IInv, Types
    <2> QED
      BY <2>2, <2>3, <2>4, <2>5 DEF Types
  <1>5. Moves
    BY <1>2, StaysPut DEF sessions, requests, clients
  <1>6. SameEnds
    BY <1>2 DEF SameEnds
  <1> QED
    BY <1>3, <1>4, <1>5, <1>6, QuietInv

\* The entry of the key is dropped from the map.
LEMMA DropInv ==
    ASSUME IInv, NEW p \in Procs, todo[p] # << >>, UNCHANGED limit, todo[p][1].do = "drop", Drop(p)
    PROVE  IInv'
  <1>1. /\ Pop(p) /\ current' = None
        /\ UNCHANGED <<lock, entry, active, pending, bridges, server, requests, turn, watching,
                       clients, panicked>>
    BY DEF Drop
  <1>2. Onward /\ Quietly /\ todo' \in [Procs -> Seq(Instr)]
    BY <1>1, PopQuiet DEF bridges
  <1>3. Types'
    <2>1. SessionTypes'
      BY <1>1 DEF IInv, Types, SessionTypes, server, requests, clients
    <2>2. BridgeTypes'
      BY <1>1 DEF IInv, Types, BridgeTypes, bridges, server
    <2>3. TurnTypes'
      BY <1>1, <1>2 DEF IInv, Types, TurnTypes, requests, clients
    <2> QED
      BY <1>1, <2>1, <2>2, <2>3 DEF IInv, Types
  <1>4. Moves
    BY <1>1, StaysPut DEF bridges, requests, clients
  <1>5. SameEnds
    BY <1>1 DEF SameEnds
  <1> QED
    BY <1>2, <1>3, <1>4, <1>5, QuietInv

\* A checkpoint, and the blobs of a bridge, in an entry.
LEMMA EntrySet ==
    ASSUME IInv, NEW t \in Requests, turn[t].bridge \in Requests, NEW e \in Entry
    PROVE  /\ Stored(e, t) \in Entry
           /\ WithBlobs(e, t) \in Entry
           /\ [e EXCEPT !.hash = Resumable(t)] \in Entry
           /\ \A R \in SUBSET Blobs : [e EXCEPT !.refs = R, !.hash = Resumable(t)] \in Entry
  <1>1. blobs[turn[t].bridge] \in SUBSET Blobs /\ blobs[t] \in SUBSET Blobs
    BY DEF IInv, Types, SessionTypes
  <1>2. Resumable(t) \in (SUBSET Execs) \cup {None}
    BY DEF Resumable, IInv, Types, TurnTypes
  <1>3. Stored(e, t) \in Entry
    BY <1>1 DEF Stored, Entry, Opened
  <1>4. WithBlobs(e, t) \in Entry
    BY <1>1 DEF WithBlobs, Entry
  <1>5. ASSUME NEW R \in SUBSET Blobs
        PROVE  /\ [e EXCEPT !.hash = Resumable(t)] \in Entry
               /\ [e EXCEPT !.refs = R, !.hash = Resumable(t)] \in Entry
    BY <1>2 DEF Entry
  <1> QED
    BY <1>3, <1>4, <1>5

\* onCheckpoint.
LEMMA CheckpointInv ==
    ASSUME IInv, NEW p \in Procs, todo[p] # << >>, UNCHANGED limit, todo[p][1].do = "checkpoint",
           Checkpoint(p, todo[p][1].turn)
    PROVE  IInv'
  <1> DEFINE t == todo[p][1].turn
             l == IF Opened(t) THEN {blobs[t]} ELSE turn[t].latest
             m == turn[t].terminal \/ (Opened(t) /\ turn[t].turnEnded)
             T == [turn[t] EXCEPT !.latest = l, !.terminal = m]
  <1>1. /\ Pop(p) /\ turn' = [turn EXCEPT ![t] = T]
        /\ UNCHANGED <<lock, current, active, pending, bridges, server, requests, watching, clients,
                       panicked>>
        /\ entry' = IF current = None THEN entry
                    ELSE [entry EXCEPT ![current] =
                            IF Opened(t)
                              THEN [WithBlobs(Stored(@, t), t) EXCEPT !.hash = Resumable(t)]
                              ELSE Stored(@, t)]
    BY DEF Checkpoint
  <1>2. /\ turn \in [Requests -> Turn] /\ t \in Requests /\ turn[t].bridge \in Requests
        /\ turn[t].bridge # None
    <2>1. t \in Requests /\ turn[t].bridge \in Requests
      BY Whose DEF OfHeart
    <2> QED
      BY <2>1, SessionAssumption DEF IInv, Types, TurnTypes
  <1>3. /\ T \in Turn /\ T.bridge = turn[t].bridge /\ T.state = turn[t].state
        /\ T.emitMu = turn[t].emitMu /\ T.ends = turn[t].ends
        /\ T.cancelled = turn[t].cancelled /\ T.calls = turn[t].calls
        /\ T.stream = turn[t].stream /\ T.out = turn[t].out
    <2>1. turn[t] \in Turn /\ blobs[t] \in SUBSET Blobs
      BY <1>2 DEF IInv, Types, SessionTypes
    <2>2. l \in SUBSET (SUBSET Blobs) /\ m \in BOOLEAN
      BY <2>1 DEF Turn
    <2>3. T = Noted(turn[t], l, m)
      BY DEF Noted
    <2> HIDE DEF l, m, T
    <2> QED
      BY <2>1, <2>2, <2>3, CheckpointField
  <1> HIDE DEF T
  <1>4. /\ turn' \in [Requests -> Turn] /\ turn'[t] = T
        /\ \A u \in Requests : u # t => turn'[u] = turn[u]
    BY <1>1, <1>2, <1>3, TurnSet
  <1>5. Onward /\ Quietly /\ todo' \in [Procs -> Seq(Instr)]
    BY <1>1, PopQuiet DEF bridges
  <1>6. SameEnds /\ \A u \in Requests : turn'[u].stream = turn[u].stream /\ turn'[u].out = turn[u].out
    BY <1>3, <1>4 DEF SameEnds
  <1>7. entry' \in [Requests -> Entry]
    <2>1. entry \in [Requests -> Entry] /\ blobs[t] \in SUBSET Blobs /\ current \in Requests \cup {None}
      BY <1>2 DEF IInv, Types, SessionTypes
    <2>2. CASE current = None
      BY <1>1, <2>1, <2>2
    <2>3. CASE current # None
      <3> DEFINE e == entry[current]
                 d == IF Opened(t)
                        THEN [WithBlobs(Stored(e, t), t) EXCEPT !.hash = Resumable(t)]
                        ELSE Stored(e, t)
      <3>1. e \in Entry
        BY <2>1, <2>3
      <3>2. d \in Entry
        <4> HIDE DEF e
        <4> QED
          BY <1>2, <2>1, <3>1, EntrySet
      <3>3. entry' = [entry EXCEPT ![current] = d]
        BY <1>1, <2>3
      <3> HIDE DEF d
      <3> QED
        BY <2>1, <3>2, <3>3
    <2> QED
      BY <2>2, <2>3
  <1>8. Types'
    <2>1. SessionTypes'
      BY <1>1, <1>7 DEF IInv, Types, SessionTypes, server, requests, clients
    <2>2. BridgeTypes'
      BY <1>1 DEF IInv, Types, BridgeTypes, bridges, server
    <2>3. TurnTypes'
      BY <1>1, <1>4, <1>5, <1>6 DEF IInv, Types, TurnTypes, requests, clients
    <2> QED
      BY <1>1, <2>1, <2>2, <2>3 DEF IInv, Types
  <1>9. Moves
    <2>1. \A r \in Requests : /\ turn'[r].bridge = turn[r].bridge
                              /\ turn[r].bridge = None => turn'[r] = turn[r]
      BY <1>2, <1>3, <1>4
    <2> QED
      BY <1>1, <2>1, StaysPut DEF bridges, requests, clients
  <1> QED
    BY <1>5, <1>6, <1>8, <1>9, QuietInv

\* What runStream's OnClose keeps.
LEMMA KeepInv ==
    ASSUME IInv, NEW p \in Procs, todo[p] # << >>, UNCHANGED limit, todo[p][1].do = "keep",
           Keep(p, todo[p][1].turn)
    PROVE  IInv'
  <1> DEFINE t == todo[p][1].turn
  <1>1. /\ Pop(p)
        /\ UNCHANGED <<lock, current, active, pending, bridges, server, requests, turn, watching,
                       clients, panicked>>
        /\ entry' = IF current = None THEN entry
                    ELSE [entry EXCEPT ![current] =
                            IF turn[t].cancelled \/ turn[t].latest = {}
                              THEN WithBlobs(@, t)
                              ELSE [WithBlobs(Stored(@, t), t) EXCEPT
                                      !.refs = UNION turn[t].latest, !.hash = Resumable(t)]]
    BY DEF Keep
  <1>2. t \in Requests /\ turn[t].bridge \in Requests
    BY Whose DEF OfHeart
  <1>3. Onward /\ Quietly /\ todo' \in [Procs -> Seq(Instr)]
    BY <1>1, PopQuiet DEF bridges
  <1>4. entry' \in [Requests -> Entry]
    <2>1. entry \in [Requests -> Entry] /\ blobs[t] \in SUBSET Blobs /\ current \in Requests \cup {None}
      BY <1>2 DEF IInv, Types, SessionTypes
    <2>2. UNION turn[t].latest \in SUBSET Blobs
      BY <1>2 DEF IInv, Types, TurnTypes, Turn
    <2>3. CASE current = None
      BY <1>1, <2>1, <2>3
    <2>4. CASE current # None
      <3> DEFINE e == entry[current]
                 c == WithBlobs(Stored(e, t), t)
                 d == IF turn[t].cancelled \/ turn[t].latest = {}
                        THEN WithBlobs(e, t)
                        ELSE [c EXCEPT !.refs = UNION turn[t].latest, !.hash = Resumable(t)]
      <3>1. e \in Entry
        BY <2>1, <2>4
      <3>2. d \in Entry
        <4> HIDE DEF e
        <4>1. Stored(e, t) \in Entry /\ WithBlobs(e, t) \in Entry
          BY <1>2, <2>1, <3>1, EntrySet
        <4>2. c \in Entry
          BY <1>2, <2>1, <4>1, EntrySet
        <4> HIDE DEF c
        <4>3. [c EXCEPT !.refs = UNION turn[t].latest, !.hash = Resumable(t)] \in Entry
          BY <1>2, <2>2, <4>2, EntrySet
        <4> QED
          BY <4>1, <4>3
      <3>3. entry' = [entry EXCEPT ![current] = d]
        BY <1>1, <2>4
      <3> HIDE DEF d
      <3> QED
        BY <2>1, <3>2, <3>3
    <2> QED
      BY <2>3, <2>4
  <1>5. Types'
    <2>1. SessionTypes'
      BY <1>1, <1>4 DEF IInv, Types, SessionTypes, server, requests, clients
    <2>2. BridgeTypes'
      BY <1>1 DEF IInv, Types, BridgeTypes, bridges, server
    <2>3. TurnTypes'
      BY <1>1, <1>3 DEF IInv, Types, TurnTypes, requests, clients
    <2> QED
      BY <1>1, <2>1, <2>2, <2>3 DEF IInv, Types
  <1>6. Moves
    BY <1>1, StaysPut DEF bridges, requests, clients
  <1>7. SameEnds
    BY <1>1 DEF SameEnds
  <1> QED
    BY <1>3, <1>5, <1>6, <1>7, QuietInv

\* A bridge with a tool call is put where the next request finds it.
LEMMA RegisterInv ==
    ASSUME IInv, NEW p \in Procs, todo[p] # << >>, UNCHANGED limit, todo[p][1].do = "register",
           RegisterCall(p, todo[p][1].turn, todo[p][1].chunk)
    PROVE  IInv'
  <1> DEFINE t == todo[p][1].turn
             x == todo[p][1].chunk
             box == IF Opened(t) THEN x ELSE taken[t]
  <1>1. /\ Pop(p) /\ active' = box /\ pending' = [pending EXCEPT ![box] = turn[t].calls]
        /\ UNCHANGED <<lock, current, entry, bridges, server, requests, turn, watching, clients,
                       panicked>>
    BY DEF RegisterCall
  <1>2. /\ t \in Requests /\ turn[t].bridge \in Requests /\ Program(todo[p], t, turn[t].bridge)
        /\ turn[t].bridge # None
    <2>1. t \in Requests /\ turn[t].bridge \in Requests /\ Program(todo[p], t, turn[t].bridge)
      BY Whose DEF OfHeart
    <2> QED
      BY <2>1, SessionAssumption
  <1>3. x \in Execs /\ BridgeOf(x) = turn[t].bridge
    <2>1. todo[p] \in Seq(Instr)
      BY DEF IInv, Types, TurnTypes
    <2>2. todo[p][1] \in Instr /\ 1 \in DOMAIN todo[p]
      BY <2>1, Parts
    <2>3. x \in Execs
      BY <2>2 DEF Instr, Bare, OfHeart
    <2> QED
      BY <1>2, <2>2, <2>3 DEF Program
  <1>4. box \in Execs /\ box # None /\ life[BridgeOf(box)] # "none"
    <2>1. x # None
      BY <1>3, SessionAssumption
    <2>2. life[turn[t].bridge] # "none"
      BY <1>2 DEF IInv, Wired
    <2>3. ~Opened(t) => taken[t] # None /\ life[BridgeOf(taken[t])] # "none" /\ taken[t] \in Execs
      BY <1>2 DEF Opened, IInv, Placed, PlacedAt, Types, TurnTypes
    <2> QED
      BY <1>3, <2>1, <2>2, <2>3
  <1> HIDE DEF box
  <1>5. Onward /\ Quietly /\ todo' \in [Procs -> Seq(Instr)]
    BY <1>1, PopQuiet DEF bridges
  <1>6. Types'
    <2>1. turn[t].calls \in SUBSET Execs
      BY <1>2 DEF IInv, Types, TurnTypes, Turn
    <2>2. SessionTypes'
      BY <1>1, <1>4, <2>1 DEF IInv, Types, SessionTypes, server, requests, clients
    <2>3. BridgeTypes'
      BY <1>1 DEF IInv, Types, BridgeTypes, bridges, server
    <2>4. TurnTypes'
      BY <1>1, <1>5 DEF IInv, Types, TurnTypes, requests, clients
    <2> QED
      BY <1>1, <2>2, <2>3, <2>4 DEF IInv, Types
  <1>7. Moves
    BY <1>1, <1>4, StaysPut DEF bridges, requests, clients
  <1>8. SameEnds
    BY <1>1 DEF SameEnds
  <1> QED
    BY <1>5, <1>6, <1>7, <1>8, QuietInv
--------------------------------------------------------------------------------
(* The steps that end a turn, or go on towards it.                             *)

\* A step about one turn leaves the others with their ends.
LEMMA OthersOn ==
    ASSUME IInv, NEW p \in Procs, NEW t \in Requests, NEW b, Program(todo[p], t, b),
           NEW q \in Seq(Instr), Program(q, t, b),
           todo'[p] = q, \A w \in Procs : w # p => todo'[w] = todo[w],
           \A u \in Requests \ {t} : turn'[u] = turn[u] /\ (CtxDone(u) => CtxDone(u)')
    PROVE  \A u \in Requests \ {t} : LockedAt(u)' /\ EndsAt(u)'
  <1> SUFFICES ASSUME NEW u \in Requests \ {t} PROVE LockedAt(u)' /\ EndsAt(u)'
    OBVIOUS
  <1>1. turn'[u] = turn[u] /\ (CtxDone(u) => CtxDone(u)')
    OBVIOUS
  <1>2. /\ todo[p] \in Seq(Instr)
        /\ ~EndsWith(todo[p], u) /\ ~OnlyFinish(todo[p], u)
        /\ ~EndsWith(q, u) /\ ~OnlyFinish(q, u)
    <2>1. todo[p] \in Seq(Instr)
      BY DEF IInv, Types, TurnTypes
    <2> QED
      BY <2>1, OneTurn
  <1>3. LockedAt(u) /\ EndsAt(u) /\ turn[u] \in Turn
    BY DEF IInv, Locked, Endings, Types, TurnTypes
  <1>4. turn[u].bridge # None => turn[u].bridge \in Requests
    BY <1>3 DEF Turn
  <1>5. LockedAt(u)'
    <2>1. turn[u].emitMu # None => turn[u].emitMu \in Procs
      BY <1>3 DEF Turn
    <2>2. turn[u].emitMu # None => turn[u].emitMu # p
      <3> SUFFICES ASSUME turn[u].emitMu # None, turn[u].emitMu = p PROVE FALSE
        OBVIOUS
      <3>1. todo[p] # << >> /\ todo[p][1].do = "emit" /\ todo[p][1].turn = u
        BY <1>3 DEF LockedAt
      <3>2. 1 \in DOMAIN todo[p]
        BY <1>2, <3>1, Parts
      <3> QED
        BY <3>1, <3>2 DEF Program, OfHeart
    <2> QED
      BY <1>1, <1>3, <2>1, <2>2 DEF LockedAt
  <1>6. EndsAt(u)'
    <2>1. /\ OnlyFinish(todo[closer(u)], u) => OnlyFinish(todo'[closer(u)], u)
          /\ turn[u].bridge # None /\ OnlyFinish(todo[reader(turn[u].bridge)], u)
                => OnlyFinish(todo'[reader(turn[u].bridge)], u)
      BY <1>2, <1>4, WorkerNames
    <2>2. ASSUME NEW w \in Procs, OnlyFinish(todo'[w], u)
          PROVE  turn[u].ends = 1 \/ CtxDone(u) \/ turn[u].state # "open"
      <3>1. OnlyFinish(todo[w], u)
        BY <1>2, <2>2
      <3> QED
        BY <1>3, <3>1 DEF EndsAt
    <2>3. ASSUME turn[u].calls # {}, turn[u].state = "open"
          PROVE  EndsWith(todo'[reader(turn[u].bridge)], u)
      <3>1. EndsWith(todo[reader(turn[u].bridge)], u)
        BY <1>3, <2>3 DEF EndsAt
      <3>2. turn[u].bridge # None
        BY <2>3 DEF IInv, Placed, PlacedAt
      <3> QED
        BY <1>2, <1>4, <3>1, <3>2, WorkerNames
    <2> QED
      BY <1>1, <1>3, <2>1, <2>2, <2>3 DEF EndsAt, Live
  <1> QED
    BY <1>5, <1>6

\* A bridge that is dead and its request do not both tell of the end of a turn.
LEMMA OneTeller ==
    ASSUME IInv, NEW t \in Requests, todo[closer(t)] # << >>
    PROVE  ~Tells(todo[reader(turn[t].bridge)], t)
  BY DEF IInv, Programs

\* The invariant from its parts.
LEMMA EndInv ==
    ASSUME IInv, Types', Onward, Moves, NEW t \in Requests, LockedAt(t)', EndsAt(t)',
           \A u \in Requests \ {t} : LockedAt(u)' /\ EndsAt(u)'
    PROVE  IInv'
  <1>1. todo' \in [Procs -> Seq(Instr)] /\ active' \in Execs \cup {None}
    BY DEF Types, TurnTypes, SessionTypes
  <1>2. Types /\ Placed /\ Wired /\ Programs
    BY DEF IInv
  <1>3. Placed' /\ Wired' /\ Programs'
    BY <1>1, <1>2, PlacedOn, WiredOn, ProgramsOn
  <1>4. \A u \in Requests : LockedAt(u)' /\ EndsAt(u)'
    OBVIOUS
  <1>5. Locked' /\ Endings'
    BY <1>4 DEF Locked, Endings
  <1> QED
    BY <1>3, <1>5 DEF IInv

\* Behind a finish_reason comes the end, without another one.
LEMMA BehindTerminal ==
    ASSUME NEW s \in Seq(Instr), s # << >>, NEW t, NEW b, Program(s, t, b), IsTerminal(s[1])
    PROVE  OnlyFinish(Tail(s), t)
  <1>1. /\ Len(s) \in Nat /\ Len(s) >= 1 /\ DOMAIN s = 1 .. Len(s)
        /\ DOMAIN Tail(s) = 1 .. Len(s) - 1
        /\ \A i \in 1 .. Len(s) - 1 : Tail(s)[i] = s[i + 1]
        /\ Len(s) > 1 => Tail(s) # << >> /\ LastOf(Tail(s)) = LastOf(s)
    BY Parts
  <1>2. LastOf(s).do = "finish" /\ s[1].do = "emit"
    BY <1>1 DEF Program, IsTerminal
  <1>3. Len(s) > 1
    BY <1>1, <1>2 DEF LastOf
  <1>4. LastOf(s).turn = t
    <2>1. Len(s) \in DOMAIN s
      BY <1>1
    <2> QED
      BY <1>2, <2>1 DEF Program, LastOf, OfHeart
  <1>5. EndsWith(Tail(s), t)
    BY <1>1, <1>2, <1>3, <1>4 DEF EndsWith
  <1>6. ASSUME NEW i \in DOMAIN Tail(s) PROVE ~IsTerminal(Tail(s)[i])
    <2>1. i + 1 \in DOMAIN s /\ i + 1 # 1 /\ Tail(s)[i] = s[i + 1] /\ 1 \in DOMAIN s
      BY <1>1
    <2> QED
      BY <2>1 DEF Program
  <1> QED
    BY <1>5, <1>6 DEF OnlyFinish, NoTerminal

\* A program that begins with finish has nothing else to do.
LEMMA FinishOnly ==
    ASSUME NEW s \in Seq(Instr), s # << >>, NEW t, NEW b, Program(s, t, b), s[1].do = "finish"
    PROVE  OnlyFinish(s, t) /\ Tail(s) = << >>
  <1>1. /\ Len(s) \in Nat /\ Len(s) >= 1 /\ DOMAIN s = 1 .. Len(s)
        /\ Len(s) = 1 => Tail(s) = << >>
    BY Parts
  <1>2. Len(s) = 1
    BY <1>1 DEF Program
  <1>3. LastOf(s) = s[1] /\ s[1].turn = t
    BY <1>1, <1>2 DEF Program, LastOf, OfHeart
  <1>4. NoTerminal(s)
    BY <1>1, <1>2 DEF NoTerminal, IsTerminal
  <1> QED
    BY <1>1, <1>2, <1>3, <1>4 DEF OnlyFinish, EndsWith
\* emit finds the channel full, and waits with the mutex in hand.
LEMMA WaitInv ==
    ASSUME IInv, NEW p \in Procs, todo[p] # << >>, UNCHANGED limit, todo[p][1].do = "emit",
           NEW t \in Requests, t = todo[p][1].turn, EmitWait(p, t)
    PROVE  IInv'
  <1> DEFINE T == [turn[t] EXCEPT !["emitMu"] = p]
  <1>1. /\ turn[t].emitMu = None /\ turn[t].state = "open" /\ turn' = [turn EXCEPT ![t] = T]
        /\ UNCHANGED <<sessions, bridges, server, requests, watching, todo, clients, panicked>>
    BY DEF EmitWait, SetTurn
  <1>2. /\ t \in Requests /\ turn[t].bridge \in Requests /\ turn[t].bridge # None
        /\ Program(todo[p], t, turn[t].bridge)
        /\ turn \in [Requests -> Turn] /\ todo[p] \in Seq(Instr)
    <2>1. t \in Requests /\ turn[t].bridge \in Requests /\ Program(todo[p], t, turn[t].bridge)
      BY Whose DEF OfHeart
    <2> QED
      BY <2>1, SessionAssumption DEF IInv, Types, TurnTypes
  <1>3. /\ T \in Turn /\ T.emitMu = p /\ T.bridge = turn[t].bridge /\ T.state = turn[t].state
        /\ T.ends = turn[t].ends /\ T.cancelled = turn[t].cancelled /\ T.calls = turn[t].calls
        /\ T.stream = turn[t].stream /\ T.out = turn[t].out
    BY <1>2, MutexField
  <1> HIDE DEF T
  <1>4. /\ turn' \in [Requests -> Turn] /\ turn'[t] = T
        /\ \A u \in Requests : u # t => turn'[u] = turn[u]
    BY <1>1, <1>2, <1>3, TurnSet
  <1>5. Onward /\ todo' \in [Procs -> Seq(Instr)]
    BY <1>1, StillOnward DEF bridges
  <1>6. Types'
    <2>1. known' \subseteq Execs /\ \A u \in Requests : turn'[u].stream => Len(turn'[u].out) <= Capacity
      BY <1>1, <1>3, <1>4 DEF IInv, Types, TurnTypes, SessionTypes, clients
    <2> QED
      BY <1>1, <1>4, <1>5, <2>1, TurnStepTypes DEF clients
  <1>7. Moves
    <2>1. \A r \in Requests : /\ turn'[r].bridge = turn[r].bridge
                              /\ turn[r].bridge = None => turn'[r] = turn[r]
      BY <1>2, <1>3, <1>4
    <2> QED
      BY <1>1, <2>1, StaysPut DEF sessions, bridges, requests, clients
  <1>8. \A u \in Requests : CtxDone(u) => CtxDone(u)'
    BY <1>7, StaysDone
  <1>9. \A u \in Requests \ {t} : LockedAt(u)' /\ EndsAt(u)'
    BY <1>1, <1>2, <1>4, <1>8, OthersOn
  <1>10. LockedAt(t)'
    BY <1>1, <1>3, <1>4 DEF LockedAt
  <1>11. EndsAt(t)'
    <2>1. EndsAt(t)
      BY <1>2 DEF IInv, Endings
    <2> QED
      BY <1>1, <1>2, <1>3, <1>4, <1>8, <2>1 DEF EndsAt, Live
  <1> QED
    BY <1>2, <1>5, <1>6, <1>7, <1>9, <1>10, <1>11, EndInv

\* A chunk is sent: never on a channel that is closed, and never a second end.
LEMMA SendInv ==
    ASSUME IInv, NEW p \in Procs, todo[p] # << >>, UNCHANGED limit, todo[p][1].do = "emit",
           NEW t \in Requests, t = todo[p][1].turn, NEW chunk, chunk = todo[p][1].chunk,
           EmitSend(p, t, chunk)
    PROVE  IInv'
  <1> DEFINE s == todo[p]
             q == Tail(s)
             b == turn[t].bridge
             T == [turn[t] EXCEPT
                      !.out = Append(turn[t].out, chunk), !.emitMu = None,
                      !.ends = IF chunk.kind \in Terminal THEN turn[t].ends + 1 ELSE turn[t].ends]
  <1>1. /\ turn[t].emitMu = p \/ (turn[t].emitMu = None /\ turn[t].state = "open")
        /\ Room(t) /\ Pop(p) /\ turn' = [turn EXCEPT ![t] = T]
        /\ panicked' = IF turn[t].state = "closed" THEN "send" ELSE panicked
        /\ UNCHANGED <<sessions, bridges, server, requests, watching, clients>>
    BY DEF EmitSend
  <1>2. /\ t \in Requests /\ b \in Requests /\ b # None /\ Program(s, t, b)
        /\ p = reader(b) \/ p = closer(t)
        /\ turn \in [Requests -> Turn] /\ s \in Seq(Instr) /\ About(s, Based) /\ p # None
    <2>1. /\ t \in Requests /\ b \in Requests /\ Program(s, t, b)
          /\ p = reader(b) \/ p = closer(t)
      BY Whose DEF OfHeart
    <2> QED
      BY <2>1, SessionAssumption DEF IInv, Types, TurnTypes, Programs
  <1>3. s[1] \in Instr /\ 1 \in DOMAIN s
    BY <1>2, Parts
  <1>4. chunk \in Chunk /\ (IsTerminal(s[1]) <=> chunk.kind \in Terminal)
    BY <1>3 DEF Instr, Bare, OfHeart, IsTerminal
  <1>5. /\ Follows(s, q) /\ About(q, Based) /\ q \in Seq(Instr)
        /\ \A u : EndsWith(q, u) => EndsWith(s, u)
        /\ NoTerminal(s) => NoTerminal(q)
        /\ \A u : EndsWith(s, u) => EndsWith(q, u)
        /\ NoTerminal(q) => NoTerminal(s) \/ IsTerminal(s[1])
    BY <1>2, TailFollows DEF Follows
  <1>6. IsTerminal(s[1]) => OnlyFinish(q, t)
    BY <1>2, BehindTerminal
  <1>7. EndsAt(t) /\ LockedAt(t)
    BY <1>2 DEF IInv, Endings, Locked
  <1>8. Live(t) /\ turn[t].state # "closed"
    BY <1>1, <1>2, <1>7 DEF Live, LockedAt
  <1>9. ASSUME IsTerminal(s[1]) PROVE turn[t].ends = 0
    <2>1. ~OnlyFinish(s, t) /\ Tells(s, t)
      BY <1>3, <1>9 DEF OnlyFinish, NoTerminal, Tells, IsTerminal
    <2>2. ~OnlyFinish(todo[closer(t)], t)
      <3> SUFFICES ASSUME OnlyFinish(todo[closer(t)], t) PROVE FALSE
        OBVIOUS
      <3>1. p = reader(b)
        BY <1>2, <2>1
      <3>2. todo[closer(t)] # << >>
        BY DEF OnlyFinish, EndsWith
      <3> QED
        BY <1>2, <2>1, <3>1, <3>2, OneTeller
    <2>3. ~OnlyFinish(todo[reader(b)], t)
      <3> SUFFICES ASSUME OnlyFinish(todo[reader(b)], t) PROVE FALSE
        OBVIOUS
      <3>1. p = closer(t)
        BY <1>2, <2>1
      <3>2. todo[reader(b)] \in Seq(Instr)
        BY <1>2, WorkerNames DEF IInv, Types, TurnTypes
      <3>3. todo[reader(b)] # << >>
        BY DEF OnlyFinish, EndsWith
      <3>4. Len(todo[reader(b)]) \in DOMAIN todo[reader(b)]
        BY <3>2, <3>3, LastIn
      <3>5. Tells(todo[reader(b)], t)
        BY <3>4 DEF Tells, OnlyFinish, EndsWith, LastOf
      <3> QED
        BY <1>2, <3>1, <3>5, OneTeller
    <2>4. turn[t].ends <= 1 /\ turn[t].ends # 1
      BY <1>7, <1>8, <2>2, <2>3 DEF EndsAt
    <2>5. turn[t].ends \in Nat
      BY <1>2 DEF Turn
    <2> QED
      BY <2>4, <2>5
  <1>10. /\ T \in Turn /\ T.bridge = b /\ T.state = turn[t].state /\ T.emitMu = None
         /\ T.cancelled = turn[t].cancelled /\ T.calls = turn[t].calls
         /\ T.stream = turn[t].stream /\ T.out = Append(turn[t].out, chunk)
         /\ T.ends = IF IsTerminal(s[1]) THEN turn[t].ends + 1 ELSE turn[t].ends
    <2>1. /\ turn[t] \in Turn /\ turn[t].out \in Seq(Chunk) /\ turn[t].ends \in Nat
      BY <1>2 DEF Turn
    <2> DEFINE o == Append(turn[t].out, chunk)
               e == IF chunk.kind \in Terminal THEN turn[t].ends + 1 ELSE turn[t].ends
    <2>2. o \in Seq(Chunk)
      BY <1>4, <2>1, AppendProperties
    <2>3. e \in Nat
      BY <2>1
    <2>4. T = Sent(turn[t], o, e)
      BY DEF Sent
    <2>5. e = IF IsTerminal(s[1]) THEN turn[t].ends + 1 ELSE turn[t].ends
      BY <1>4
    <2> HIDE DEF o, e, T
    <2> HIDE DEF b
    <2>6. LET U == Sent(turn[t], o, e) IN
          /\ U \in Turn /\ U.bridge = turn[t].bridge /\ U.state = turn[t].state /\ U.emitMu = None
          /\ U.cancelled = turn[t].cancelled /\ U.calls = turn[t].calls
          /\ U.stream = turn[t].stream /\ U.out = o /\ U.ends = e
      <3>1. turn[t] \in Turn
        BY <2>1
      <3> PICK V \in Turn : V = turn[t]
        BY <3>1
      <3>2. LET U == Sent(V, o, e) IN
            /\ U \in Turn /\ U.bridge = V.bridge /\ U.state = V.state /\ U.emitMu = None
            /\ U.cancelled = V.cancelled /\ U.calls = V.calls
            /\ U.stream = V.stream /\ U.out = o /\ U.ends = e
        BY <2>2, <2>3, SentField
      <3> QED
        BY <3>2
    <2>7. /\ T \in Turn /\ T.bridge = turn[t].bridge /\ T.state = turn[t].state /\ T.emitMu = None
          /\ T.cancelled = turn[t].cancelled /\ T.calls = turn[t].calls
          /\ T.stream = turn[t].stream /\ T.out = o /\ T.ends = e
      BY <2>4, <2>6
    <2> QED
      BY <2>5, <2>7 DEF o, b
  <1> HIDE DEF T
  <1>11. /\ turn' \in [Requests -> Turn] /\ turn'[t] = T
         /\ \A u \in Requests : u # t => turn'[u] = turn[u]
    BY <1>1, <1>2, <1>10, TurnSet
  <1>12. /\ Onward /\ todo' \in [Procs -> Seq(Instr)]
         /\ todo'[p] = q /\ \A w \in Procs : w # p => todo'[w] = todo[w]
    <2>1. todo' = [todo EXCEPT ![p] = q] /\ life' = life
      BY <1>1 DEF Pop, bridges
    <2> HIDE DEF q
    <2> QED
      BY <1>5, <2>1, StepOnward
  <1> HIDE DEF q
  <1>13. panicked' = panicked
    BY <1>1, <1>8
  <1>14. Types'
    <2>1. known' \subseteq Execs
      BY <1>1 DEF IInv, Types, SessionTypes, clients
    <2>2. T.stream => Len(T.out) <= Capacity
      <3>1. turn[t].out \in Seq(Chunk)
        BY <1>2 DEF Turn
      <3>2. Len(Append(turn[t].out, chunk)) = Len(turn[t].out) + 1 /\ Len(turn[t].out) \in Nat
        BY <1>4, <3>1, AppendProperties, LenProperties
      <3>3. Capacity \in Nat
        BY SessionAssumption
      <3>4. turn[t].stream => Len(turn[t].out) < Capacity
        BY <1>1 DEF Room
      <3>5. T.stream = turn[t].stream /\ T.out = Append(turn[t].out, chunk)
        BY <1>10
      <3>6. Len(T.out) = Len(turn[t].out) + 1
        BY <3>2, <3>5
      <3>7. T.stream => Len(turn[t].out) < Capacity
        BY <3>4, <3>5
      <3> QED
        BY <3>2, <3>3, <3>6, <3>7
    <2>3. \A u \in Requests : turn'[u].stream => Len(turn'[u].out) <= Capacity
      BY <1>11, <2>2 DEF IInv, Types, TurnTypes
    <2> QED
      BY <1>1, <1>11, <1>12, <1>13, <2>1, <2>3, TurnStepTypes DEF clients
  <1>15. Moves
    <2>1. \A r \in Requests : /\ turn'[r].bridge = turn[r].bridge
                              /\ turn[r].bridge = None => turn'[r] = turn[r]
      BY <1>2, <1>10, <1>11
    <2> QED
      BY <1>1, <2>1, StaysPut DEF sessions, bridges, requests, clients
  <1>16. \A u \in Requests : CtxDone(u) => CtxDone(u)'
    BY <1>15, StaysDone
  <1>17. \A u \in Requests \ {t} : LockedAt(u)' /\ EndsAt(u)'
    <2>1. Program(q, t, b)
      BY <1>2, <1>5 DEF Follows
    <2> QED
      BY <1>2, <1>5, <1>11, <1>12, <1>16, <2>1, OthersOn
  <1>18. LockedAt(t)'
    BY <1>10, <1>11 DEF LockedAt
  <1>19. EndsAt(t)'
    <2>1. turn[t].ends \in Nat /\ turn[t].ends <= 1
      BY <1>2, <1>7 DEF Turn, EndsAt
    <2>2. T.ends <= 1 /\ (turn[t].ends = 1 => T.ends = 1) /\ (IsTerminal(s[1]) => T.ends = 1)
      <3>1. CASE IsTerminal(s[1])
        <4>1. T.ends = turn[t].ends + 1 /\ turn[t].ends = 0
          BY <1>9, <1>10, <3>1
        <4> QED
          BY <4>1
      <3>2. CASE ~IsTerminal(s[1])
        <4>1. T.ends = turn[t].ends
          BY <1>10, <3>2
        <4> QED
          BY <2>1, <3>2, <4>1
      <3> QED
        BY <3>1, <3>2
    <2>3. ASSUME NEW w \in Procs, OnlyFinish(todo[w], t), ~IsTerminal(s[1])
          PROVE  OnlyFinish(todo'[w], t)
      BY <1>5, <1>12, <2>3 DEF OnlyFinish
    <2>4. ASSUME T.ends = 1
          PROVE  OnlyFinish(todo'[closer(t)], t) \/ OnlyFinish(todo'[reader(b)], t)
      <3>1. CASE IsTerminal(s[1])
        BY <1>2, <1>6, <1>12, <3>1
      <3>2. CASE ~IsTerminal(s[1])
        <4>1. turn[t].ends = 1
          BY <1>10, <2>4, <3>2
        <4>2. OnlyFinish(todo[closer(t)], t) \/ OnlyFinish(todo[reader(b)], t)
          BY <1>7, <1>8, <4>1 DEF EndsAt
        <4> QED
          BY <1>2, <2>3, <3>2, <4>2, WorkerNames
      <3> QED
        BY <3>1, <3>2
    <2>5. ASSUME NEW w \in Procs, OnlyFinish(todo'[w], t)
          PROVE  T.ends = 1 \/ CtxDone(t)' \/ T.state # "open"
      <3>1. OnlyFinish(todo[w], t) \/ IsTerminal(s[1])
        BY <1>5, <1>12, <2>5 DEF OnlyFinish
      <3> QED
        BY <1>7, <1>10, <1>16, <1>2, <2>2, <3>1 DEF EndsAt
    <2>6. ASSUME T.calls # {}, T.state = "open"
          PROVE  EndsWith(todo'[reader(b)], t)
      <3>1. EndsWith(todo[reader(b)], t)
        BY <1>7, <1>10, <2>6 DEF EndsAt
      <3> QED
        BY <1>2, <1>5, <1>12, <3>1, WorkerNames
    <2>7. T.state # "open" => T.ends = 1 \/ CtxDone(t)'
      BY <1>2, <1>7, <1>10, <1>16, <2>2 DEF EndsAt
    <2>8. T.cancelled => CtxDone(t)'
      BY <1>2, <1>7, <1>10, <1>16 DEF EndsAt
    <2> QED
      BY <1>2, <1>10, <1>11, <2>2, <2>4, <2>5, <2>6, <2>7, <2>8 DEF EndsAt
  <1> QED
    BY <1>2, <1>12, <1>14, <1>15, <1>17, <1>18, <1>19, EndInv
\* finish: the stream is closed, at once or when the mutex is free.
LEMMA FinishInv ==
    ASSUME IInv, NEW p \in Procs, todo[p] # << >>, UNCHANGED limit, todo[p][1].do = "finish",
           NEW t \in Requests, t = todo[p][1].turn,
           FinishBegin(p, t) \/ FinishEnd(p, t)
    PROVE  IInv'
  <1> DEFINE s == todo[p]
             b == turn[t].bridge
  <1>1. PICK v \in {"closing", "closed"}, w \in Procs \cup {None} :
           LET T == [turn[t] EXCEPT !.state = v, !.by = w] IN
           /\ turn' = [turn EXCEPT ![t] = T]
           /\ \/ v = "closing" /\ turn[t].emitMu # None /\ turn[t].state = "open" /\ todo' = todo
              \/ v = "closed" /\ turn[t].emitMu = None /\ Pop(p)
           /\ UNCHANGED <<sessions, bridges, server, requests, watching, clients, panicked>>
    <2>1. turn \in [Requests -> Turn] /\ turn[t] \in Turn
      BY DEF IInv, Types, TurnTypes
    <2>2. [turn[t] EXCEPT !["state"] = "closed"] = [turn[t] EXCEPT !.state = "closed", !.by = turn[t].by]
      BY <2>1 DEF Turn
    <2>3. turn[t].by \in Procs \cup {None}
      BY <2>1 DEF Turn
    <2>4. CASE FinishEnd(p, t)
      BY <2>2, <2>3, <2>4 DEF FinishEnd, SetTurn
    <2>5. CASE FinishBegin(p, t) /\ turn[t].emitMu = None
      BY <2>2, <2>3, <2>5 DEF FinishBegin, SetTurn
    <2>6. CASE FinishBegin(p, t) /\ turn[t].emitMu # None
      BY <2>6 DEF FinishBegin
    <2> QED
      BY <2>4, <2>5, <2>6
  <1> DEFINE T == [turn[t] EXCEPT !.state = v, !.by = w]
  <1>2. /\ b \in Requests /\ b # None /\ Program(s, t, b)
        /\ turn \in [Requests -> Turn] /\ s \in Seq(Instr) /\ About(s, Based) /\ p # None
    <2>1. b \in Requests /\ Program(s, t, b)
      BY Whose DEF OfHeart
    <2> QED
      BY <2>1, SessionAssumption DEF IInv, Types, TurnTypes, Programs
  <1>3. OnlyFinish(s, t) /\ Tail(s) = << >>
    BY <1>2, FinishOnly
  <1>4. /\ T \in Turn /\ T.bridge = b /\ T.state = v /\ T.emitMu = turn[t].emitMu
        /\ T.ends = turn[t].ends /\ T.cancelled = turn[t].cancelled /\ T.calls = turn[t].calls
        /\ T.stream = turn[t].stream /\ T.out = turn[t].out
    <2>1. turn[t] \in Turn
      BY <1>2
    <2> QED
      BY <2>1 DEF Turn
  <1>5. turn' = [turn EXCEPT ![t] = T]
    BY <1>1
  <1> HIDE DEF T
  <1>6. /\ turn' \in [Requests -> Turn] /\ turn'[t] = T
        /\ \A u \in Requests : u # t => turn'[u] = turn[u]
    BY <1>2, <1>4, <1>5, TurnSet
  <1> PICK q : q = todo'[p]
    OBVIOUS
  <1>7. /\ Onward /\ todo' \in [Procs -> Seq(Instr)]
        /\ q \in Seq(Instr) /\ (q = s \/ q = << >>)
        /\ todo'[p] = q /\ \A x \in Procs : x # p => todo'[x] = todo[x]
        /\ Program(q, t, b) /\ (q = << >> \/ v = "closing")
    <2>1. CASE todo' = todo /\ v = "closing"
      <3>1. Onward /\ todo' \in [Procs -> Seq(Instr)]
        BY <1>1, <2>1, StillOnward DEF bridges
      <3> QED
        BY <1>2, <2>1, <3>1
    <2>2. CASE Pop(p)
      <3>1. Follows(s, << >>) /\ About(<< >>, Based) /\ << >> \in Seq(Instr)
        BY <1>2, <1>3, TailFollows, NothingToDo
      <3>2. todo' = [todo EXCEPT ![p] = << >>] /\ life' = life
        BY <1>1, <1>3, <2>2 DEF Pop, bridges
      <3>3. /\ Onward /\ todo' \in [Procs -> Seq(Instr)]
            /\ todo'[p] = << >> /\ \A x \in Procs : x # p => todo'[x] = todo[x]
        BY <3>1, <3>2, StepOnward
      <3>4. Program(<< >>, t, b)
        BY NothingToDo
      <3> QED
        BY <3>1, <3>3, <3>4
    <2> QED
      BY <1>1, <2>1, <2>2
  <1>8. Types'
    <2>1. known' \subseteq Execs
      BY <1>1 DEF IInv, Types, SessionTypes, clients
    <2>2. \A u \in Requests : turn[u].stream => Len(turn[u].out) <= Capacity
      BY DEF IInv, Types, TurnTypes
    <2>3. \A u \in Requests : turn'[u].stream = turn[u].stream /\ turn'[u].out = turn[u].out
      BY <1>4, <1>6
    <2>4. \A u \in Requests : turn'[u].stream => Len(turn'[u].out) <= Capacity
      BY <2>2, <2>3
    <2> QED
      BY <1>1, <1>6, <1>7, <2>1, <2>4, TurnStepTypes DEF clients
  <1>9. Moves
    <2>1. \A r \in Requests : /\ turn'[r].bridge = turn[r].bridge
                              /\ turn[r].bridge = None => turn'[r] = turn[r]
      BY <1>2, <1>4, <1>6
    <2> QED
      BY <1>1, <2>1, StaysPut DEF sessions, bridges, requests, clients
  <1>10. \A u \in Requests : CtxDone(u) => CtxDone(u)'
    BY <1>9, StaysDone
  <1>11. \A u \in Requests \ {t} : LockedAt(u)' /\ EndsAt(u)'
    BY <1>2, <1>6, <1>7, <1>10, OthersOn
  <1>12. EndsAt(t) /\ LockedAt(t)
    BY DEF IInv, Endings, Locked
  <1>13. LockedAt(t)'
    <2>1. CASE turn[t].emitMu = None
      BY <1>4, <1>6, <2>1 DEF LockedAt
    <2>2. CASE turn[t].emitMu # None
      <3>1. todo' = todo /\ v = "closing"
        BY <1>1, <2>2
      <3> QED
        BY <1>4, <1>6, <1>12, <3>1 DEF LockedAt
    <2> QED
      BY <2>1, <2>2
  <1>14. EndsAt(t)'
    <2>1. turn[t].ends = 1 \/ CtxDone(t)
      <3>1. turn[t].state = "open" => turn[t].ends = 1 \/ CtxDone(t)
        BY <1>3, <1>12 DEF EndsAt
      <3> QED
        BY <1>12, <3>1 DEF EndsAt
    <2>2. turn[t].ends <= 1 /\ (turn[t].cancelled => CtxDone(t))
      BY <1>12 DEF EndsAt
    <2>3. ASSUME turn[t].ends = 1, turn[t].emitMu # None
          PROVE  OnlyFinish(todo'[closer(t)], t) \/ OnlyFinish(todo'[reader(b)], t)
      <3>1. todo' = todo
        BY <1>1, <2>3
      <3> QED
        BY <1>12, <2>3, <3>1 DEF EndsAt, Live
    <2> QED
      BY <1>1, <1>2, <1>4, <1>6, <1>10, <2>1, <2>2, <2>3 DEF EndsAt, Live
  <1> QED
    BY <1>7, <1>8, <1>9, <1>11, <1>13, <1>14, EndInv

\* The end of runStream's OnClose: what is still to be said, if anything is.
LEMMA FinalSays ==
    ASSUME IInv, NEW p \in Procs, todo[p] # << >>, todo[p][1].do = "final",
           NEW t \in Requests, t = todo[p][1].turn, NEW code, Final(p, t, code)
    PROVE  \E q \in Seq(Instr) :
              /\ todo' = [todo EXCEPT ![p] = q]
              /\ \A b : Program(q, t, b)
              /\ \A T : t \in T => About(q, T)
              /\ \/ ~NoTerminal(q)
                 \/ turn[t].state # "open" \/ turn[t].cancelled \/ turn[t].calls # {}
  <1> DEFINE s == todo[p]
             f == <<Do("finish", t)>>
             fail == <<Emit(t, "error", None), Emit(t, "usage", None)>>
             ok == <<Emit(t, "stop", None), Emit(t, "usage", None)>>
             drop == <<Do("drop", t)>>
  <1>1. Program(s, t, turn[t].bridge) /\ s \in Seq(Instr)
    BY Whose DEF OfHeart, IInv, Types, TurnTypes
  <1>2. Tail(s) = << >>
    <2>1. Len(s) \in Nat /\ 1 \in DOMAIN s /\ (Len(s) = 1 => Tail(s) = << >>)
      BY <1>1, Parts
    <2> QED
      BY <1>1, <2>1 DEF Program
  <1>3. ASSUME NEW end \in {fail, drop \o fail, ok}, NEW b
        PROVE  LET q == end \o f IN
               /\ q \in Seq(Instr) /\ Program(q, t, b) /\ ~NoTerminal(q)
               /\ \A T : t \in T => About(q, T)
    <2>1. Ending(fail \o f, t, b) /\ Ending((drop \o fail) \o f, t, b) /\ Ending(ok \o f, t, b)
      BY FinalProgram
    <2> HIDE DEF f, fail, ok, drop
    <2> QED
      BY <2>1 DEF Ending
  <1>4. ASSUME NEW b
        PROVE  LET q == << >> \o f IN
               q \in Seq(Instr) /\ Program(q, t, b) /\ \A T : t \in T => About(q, T)
    BY FinalProgram
  <1> DEFINE T == turn[t]
             bad == ~T.turnEnded \/ (code # "eof" /\ ~T.terminal)
             rest ==
                CASE T.state # "open" -> << >>
                  [] T.state = "open" /\ (T.cancelled \/ T.calls # {}) ->
                        IF T.calls # {} /\ code # "eof" THEN fail ELSE << >>
                  [] OTHER -> IF bad THEN drop \o fail ELSE ok
  <1>5. todo' = [todo EXCEPT ![p] = (rest \o f) \o Tail(s)]
    BY DEF Final, Then
  <1> HIDE DEF f, fail, ok, drop, bad
  <1>6. \/ rest \in {fail, drop \o fail, ok}
        \/ rest = << >> /\ (turn[t].state # "open" \/ turn[t].cancelled \/ turn[t].calls # {})
    <2>1. CASE T.state # "open"
      BY <2>1
    <2>2. CASE T.state = "open" /\ (T.cancelled \/ T.calls # {})
      BY <2>2
    <2>3. CASE T.state = "open" /\ ~(T.cancelled \/ T.calls # {})
      BY <2>3
    <2> QED
      BY <2>1, <2>2, <2>3
  <1> HIDE DEF rest
  <1>7. rest \o f \in Seq(Instr)
    BY <1>3, <1>4, <1>6
  <1>8. (rest \o f) \o Tail(s) = rest \o f
    BY <1>2, <1>7, ConcatEmptySeq
  <1>9. todo' = [todo EXCEPT ![p] = rest \o f]
    BY <1>5, <1>8
  <1>10. CASE rest \in {fail, drop \o fail, ok}
    BY <1>3, <1>9, <1>10
  <1>11. CASE rest = << >> /\ (turn[t].state # "open" \/ turn[t].cancelled \/ turn[t].calls # {})
    BY <1>4, <1>9, <1>11
  <1> QED
    BY <1>6, <1>10, <1>11
\* The rest of runStream's OnClose.
LEMMA FinalInv ==
    ASSUME IInv, NEW p \in Procs, todo[p] # << >>, UNCHANGED limit, todo[p][1].do = "final",
           NEW t \in Requests, t = todo[p][1].turn, NEW code, Final(p, t, code)
    PROVE  IInv'
  <1> DEFINE s == todo[p]
             b == turn[t].bridge
  <1>1. UNCHANGED <<sessions, bridges, server, requests, turn, watching, clients, panicked>>
    BY DEF Final
  <1>2. PICK q \in Seq(Instr) :
           /\ todo' = [todo EXCEPT ![p] = q]
           /\ \A c : Program(q, t, c)
           /\ \A T : t \in T => About(q, T)
           /\ \/ ~NoTerminal(q)
              \/ turn[t].state # "open" \/ turn[t].cancelled \/ turn[t].calls # {}
    BY FinalSays
  <1>3. /\ b \in Requests /\ t \in Based /\ Program(s, t, b)
        /\ p = reader(b) \/ p = closer(t)
        /\ s \in Seq(Instr)
    <2>1. b \in Requests /\ Program(s, t, b) /\ (p = reader(b) \/ p = closer(t))
      BY Whose DEF OfHeart
    <2>2. b # None
      BY <2>1, SessionAssumption
    <2> QED
      BY <2>1, <2>2 DEF IInv, Types, TurnTypes, Based
  <1>4. /\ Len(s) \in Nat /\ DOMAIN s = 1 .. Len(s) /\ 1 \in DOMAIN s
    BY <1>3, Parts
  <1>5. Tells(s, t) /\ \A u : ~EndsWith(s, u)
    <2>1. Len(s) = 1 /\ s[1].do = "final"
      BY <1>3, <1>4 DEF Program
    <2>2. Tells(s, t)
      BY <1>4 DEF Tells
    <2> QED
      BY <2>1, <2>2 DEF EndsWith, LastOf
  <1>6. Follows(s, q)
    <2>1. ASSUME NEW u, NEW c, Program(s, u, c) PROVE Program(q, u, c)
      <3>1. u = t
        BY <1>4, <2>1 DEF Program, OfHeart
      <3> QED
        BY <1>2, <3>1
    <2>2. ASSUME NEW u, Tells(q, u) PROVE Tells(s, u)
      <3>1. u = t
        BY <1>2, <2>2, OneTurn
      <3> QED
        BY <1>5, <3>1
    <2>3. ~HeartOnly(s) /\ ~Mute(s)
      BY <1>4 DEF HeartOnly, Mute, OfHeart
    <2> QED
      BY <2>1, <2>2, <2>3 DEF Follows
  <1>7. /\ Onward /\ todo' \in [Procs -> Seq(Instr)]
        /\ todo'[p] = q /\ \A w \in Procs : w # p => todo'[w] = todo[w]
    <2>1. About(q, Based) /\ life' = life
      BY <1>1, <1>2, <1>3 DEF bridges
    <2> QED
      BY <1>2, <1>6, <2>1, StepOnward
  <1>8. Types'
    BY <1>1, <1>7, PlainTypes DEF clients
  <1>9. Moves
    BY <1>1, StaysPut DEF sessions, bridges, requests, clients
  <1>10. \A u \in Requests : CtxDone(u) => CtxDone(u)'
    BY <1>9, StaysDone
  <1>11. \A u \in Requests \ {t} : LockedAt(u)' /\ EndsAt(u)'
    BY <1>1, <1>2, <1>3, <1>7, <1>10, OthersOn
  <1>12. EndsAt(t) /\ LockedAt(t)
    BY DEF IInv, Endings, Locked
  <1>13. turn[t].emitMu # None => turn[t].emitMu # p
    BY <1>12 DEF LockedAt
  <1>14. LockedAt(t)'
    <2>1. turn[t].emitMu \in Procs \cup {None}
      BY DEF IInv, Types, TurnTypes, Turn
    <2> QED
      BY <1>1, <1>7, <1>12, <1>13, <2>1 DEF LockedAt
  <1>15. EndsAt(t)'
    <2>1. ASSUME NEW w \in Procs, EndsWith(todo[w], t) PROVE todo'[w] = todo[w]
      BY <1>5, <1>7, <2>1
    <2>2. ASSUME NEW w \in Procs, OnlyFinish(todo[w], t) PROVE OnlyFinish(todo'[w], t)
      BY <2>1, <2>2 DEF OnlyFinish
    <2>3. ASSUME OnlyFinish(q, t), turn[t].state = "open", ~CtxDone(t) PROVE FALSE
      <3>1. turn[t].calls # {}
        BY <1>2, <1>12, <2>3 DEF OnlyFinish, EndsAt
      <3>2. EndsWith(todo[reader(b)], t)
        BY <1>12, <2>3, <3>1 DEF EndsAt
      <3>3. p = closer(t)
        BY <1>3, <1>5, <3>2
      <3>4. todo[reader(b)] \in Seq(Instr) /\ todo[reader(b)] # << >>
        BY <1>3, <3>2, WorkerNames DEF IInv, Types, TurnTypes, EndsWith
      <3>5. Len(todo[reader(b)]) \in DOMAIN todo[reader(b)]
        BY <3>4, Parts
      <3>6. Tells(todo[reader(b)], t)
        BY <3>2, <3>5 DEF Tells, EndsWith, LastOf
      <3> QED
        BY <3>3, <3>6, OneTeller
    <2>4. ASSUME NEW w \in Procs, OnlyFinish(todo'[w], t)
          PROVE  turn[t].ends = 1 \/ CtxDone(t) \/ turn[t].state # "open"
      <3>1. CASE w = p
        BY <1>7, <2>3, <2>4, <3>1
      <3>2. CASE w # p
        <4>1. OnlyFinish(todo[w], t)
          BY <1>7, <2>4, <3>2
        <4> QED
          BY <1>12, <4>1 DEF EndsAt
      <3> QED
        BY <3>1, <3>2
    <2>5. turn[t].calls # {} /\ turn[t].state = "open" => EndsWith(todo'[reader(b)], t)
      BY <1>3, <1>12, <2>1, WorkerNames DEF EndsAt
    <2>6. turn[t].ends = 1 /\ Live(t) =>
             \/ OnlyFinish(todo'[closer(t)], t)
             \/ b # None /\ OnlyFinish(todo'[reader(b)], t)
      BY <1>3, <1>12, <2>2, WorkerNames DEF EndsAt
    <2> QED
      BY <1>1, <1>10, <1>12, <2>4, <2>5, <2>6 DEF EndsAt, Live
  <1> QED
    BY <1>7, <1>8, <1>9, <1>11, <1>14, <1>15, EndInv

\* Every step of a goroutine keeps the invariant.
LEMMA StepInv ==
    ASSUME IInv, NEW p \in Procs, Step(p), UNCHANGED limit
    PROVE  IInv'
  <1>1. todo[p] # << >>
    BY DEF Step
  <1>2. todo[p] \in Seq(Instr) /\ todo[p][1] \in Instr
    <2>1. todo[p] \in Seq(Instr)
      BY DEF IInv, Types, TurnTypes
    <2> QED
      BY <1>1, <2>1, Parts
  <1>3. PICK t \in Requests : t = todo[p][1].turn
    BY <1>2 DEF Instr
  <1>4. PICK chunk : chunk = todo[p][1].chunk
    OBVIOUS
  <1>5. CASE todo[p][1].do = "emit" /\ EmitSkip(p, t)
    BY <1>1, <1>3, <1>5, SkipInv
  <1>6. CASE todo[p][1].do = "emit" /\ EmitWait(p, t)
    BY <1>1, <1>3, <1>6, WaitInv
  <1>7. CASE todo[p][1].do = "emit" /\ EmitSend(p, t, chunk)
    BY <1>1, <1>3, <1>4, <1>7, SendInv
  <1>8. CASE todo[p][1].do = "finish" /\ (FinishBegin(p, t) \/ FinishEnd(p, t))
    BY <1>1, <1>3, <1>8, FinishInv
  <1>9. CASE todo[p][1].do = "finish" /\ FinishAgain(p, t)
    BY <1>1, <1>3, <1>9, SkipInv
  <1>10. CASE todo[p][1].do = "heart" /\ Heart(p, turn[t].bridge, FALSE)
    BY <1>1, <1>3, <1>10, HeartInv
  <1>11. CASE todo[p][1].do = "cleanup" /\ Heart(p, turn[t].bridge, TRUE)
    BY <1>1, <1>3, <1>11, HeartInv
  <1>12. CASE todo[p][1].do = "heartClose" /\ CloseHeart(p, t, FALSE)
    BY <1>1, <1>3, <1>12, CloseHeartInv DEF OfHeart
  <1>13. CASE todo[p][1].do = "cleanupClose" /\ CloseHeart(p, t, TRUE)
    BY <1>1, <1>3, <1>13, CloseHeartInv DEF OfHeart
  <1>14. CASE todo[p][1].do = "drop" /\ Drop(p)
    BY <1>1, <1>14, DropInv
  <1>15. CASE todo[p][1].do = "checkpoint" /\ Checkpoint(p, t)
    BY <1>1, <1>3, <1>15, CheckpointInv
  <1>16. CASE todo[p][1].do = "keep" /\ Keep(p, t)
    BY <1>1, <1>3, <1>16, KeepInv
  <1>17. CASE todo[p][1].do = "final" /\ Final(p, t, chunk)
    BY <1>1, <1>3, <1>17, FinalInv
  <1>18. CASE todo[p][1].do = "ended" /\ TurnEnded(p, t)
    BY <1>1, <1>3, <1>18, TurnEndedInv
  <1>19. CASE todo[p][1].do = "register" /\ RegisterCall(p, t, chunk)
    BY <1>1, <1>3, <1>4, <1>19, RegisterInv
  <1> QED
    BY <1>3, <1>4, <1>5, <1>6, <1>7, <1>8, <1>9, <1>10, <1>11, <1>12, <1>13, <1>14, <1>15, <1>16,
       <1>17, <1>18, <1>19 DEF Step
--------------------------------------------------------------------------------
(* The steps of the requests.                                                  *)

\* A request cleans up with sessionMu in hand; the workers have nothing new to do.
LEMMA MainOnward ==
    ASSUME IInv, NEW r \in Requests, NEW q \in Seq(Instr), HeartOnly(q), About(q, Based),
           todo' = [todo EXCEPT ![main(r)] = q], life' = life
    PROVE  Onward /\ Quietly /\ todo' \in [Procs -> Seq(Instr)]
  <1>1. todo \in [Procs -> Seq(Instr)] /\ Programs
    BY DEF IInv, Types, TurnTypes
  <1>2. /\ todo' \in [Procs -> Seq(Instr)] /\ todo'[main(r)] = q
        /\ \A w \in Procs : w # main(r) => todo'[w] = todo[w]
    BY <1>1, WorkerNames
  <1>3. \A w \in Workers : w \in Procs /\ todo'[w] = todo[w]
    BY <1>2, WorkerNames
  <1>4. \A w \in Workers : Kept(w)
    BY <1>1, <1>3 DEF Kept, Follows
  <1>5. \A w \in Procs : About(todo'[w], Based)
    BY <1>1, <1>2 DEF Programs
  <1>6. \A u \in Requests : HeartOnly(todo'[main(u)])
    BY <1>1, <1>2, WorkerNames DEF Programs
  <1>7. Onward
    BY <1>4, <1>5, <1>6, WorkerNames DEF Onward
  <1>8. Quietly
    BY <1>3 DEF Quietly
  <1> QED
    BY <1>2, <1>7, <1>8

\* The bridge of a struct is one that was opened, and can be cleaned up.
LEMMA CleansUp ==
    ASSUME IInv, NEW x \in Execs, life[BridgeOf(x)] # "none"
    PROVE  LET q == Cleanup(BridgeOf(x)) IN q \in Seq(Instr) /\ HeartOnly(q) /\ About(q, Based)
  <1>1. BridgeOf(x) \in Requests /\ BridgeOf(x) # None
    BY SessionAssumption DEF BridgeOf, Execs
  <1>2. BridgeOf(x) \in Based
    BY <1>1 DEF IInv, Wired, Based
  <1> QED
    BY <1>1, <1>2, CleanupProgram

\* One request goes on.
LEMMA GoesTypes ==
    ASSUME IInv, NEW r \in Requests, NEW where \in Stages, Goes(r, where)
    PROVE  /\ pc' \in [Requests -> Stages] /\ pc'[r] = where
           /\ \A u \in Requests : u # r => pc'[u] = pc[u]
  BY DEF Goes, IInv, Types, TurnTypes

\* The entry that a request will use.
LEMMA StoreTypes ==
    ASSUME IInv, NEW r \in Requests, Store(r)
    PROVE  /\ stored' \in [Requests -> Requests \cup {None}] /\ stored'[r] # None
           /\ \A u \in Requests : u # r => stored'[u] = stored[u]
           /\ current' \in Requests
  <1>1. r # None /\ current \in Requests \cup {None} /\ stored \in [Requests -> Requests \cup {None}]
    BY SessionAssumption DEF IInv, Types, SessionTypes
  <1> QED
    BY <1>1 DEF Store

\* The first section.
LEMMA EnterInv ==
    ASSUME IInv, NEW r \in Requests, Enter(r), UNCHANGED limit
    PROVE  IInv'
  <1>1. PICK results \in SUBSET known :
           /\ ask' = [ask EXCEPT ![r] = results]
           /\ \/ /\ active # None
                 /\ taken' = [taken EXCEPT ![r] = active] /\ active' = None
                 /\ Goes(r, "taken")
                 /\ UNCHANGED <<lock, current, stored, todo>>
              \/ /\ active # None
                 /\ lock' = r /\ todo' = [todo EXCEPT ![main(r)] = Cleanup(BridgeOf(active))]
                 /\ Goes(r, "cleaning")
                 /\ UNCHANGED <<current, active, stored, taken>>
              \/ /\ active = None
                 /\ Store(r) /\ Goes(r, "prepare")
                 /\ UNCHANGED <<lock, active, taken, todo>>
    BY DEF Enter
  <1>2. /\ pc[r] = "new"
        /\ UNCHANGED <<entry, pending, bridges, server, turn, watching, clients, panicked>>
    BY DEF Enter
  <1>3. active # None => active \in Execs /\ life[BridgeOf(active)] # "none"
    BY DEF IInv, Types, SessionTypes, Wired
  <1>4. PICK where \in {"taken", "cleaning", "prepare"} :
           /\ Goes(r, where)
           /\ where = "prepare" => stored'[r] # None
           /\ where = "taken" => taken'[r] # None
    <2>1. CASE active # None /\ taken' = [taken EXCEPT ![r] = active] /\ Goes(r, "taken")
      BY <2>1 DEF IInv, Types, TurnTypes
    <2>2. CASE Goes(r, "cleaning")
      BY <2>2
    <2>3. CASE Store(r) /\ Goes(r, "prepare")
      BY <2>3, StoreTypes
    <2> QED
      BY <1>1, <2>1, <2>2, <2>3
  <1>5. /\ pc' \in [Requests -> Stages] /\ pc'[r] = where
        /\ \A u \in Requests : u # r => pc'[u] = pc[u]
    BY <1>4, GoesTypes DEF Stages, Early
  <1>6. /\ stored' \in [Requests -> Requests \cup {None}]
        /\ \A u \in Requests : stored'[u] = stored[u] \/ stored'[u] # None
        /\ current' \in Requests \cup {None}
    <2>1. CASE UNCHANGED <<stored, current>>
      BY <2>1 DEF IInv, Types, SessionTypes
    <2>2. CASE Store(r)
      BY <2>2, StoreTypes
    <2> QED
      BY <1>1, <2>1, <2>2
  <1>7. /\ taken' \in [Requests -> Execs \cup {None}]
        /\ \A u \in Requests :
              \/ taken'[u] = taken[u]
              \/ u = r /\ taken'[u] \in Execs \ {None} /\ life[BridgeOf(taken'[u])] # "none"
    <2>1. CASE taken' = taken
      BY <2>1 DEF IInv, Types, TurnTypes
    <2>2. CASE active # None /\ taken' = [taken EXCEPT ![r] = active]
      BY <1>3, <2>2 DEF IInv, Types, TurnTypes
    <2> QED
      BY <1>1, <2>1, <2>2
  <1>8. Onward /\ Quietly /\ todo' \in [Procs -> Seq(Instr)]
    <2>1. life' = life
      BY <1>2 DEF bridges
    <2>2. CASE todo' = todo
      BY <2>1, <2>2, StillOnward, StillQuiet
    <2>3. CASE active # None /\ todo' = [todo EXCEPT ![main(r)] = Cleanup(BridgeOf(active))]
      BY <1>3, <2>1, <2>3, CleansUp, MainOnward
    <2> QED
      BY <1>1, <2>2, <2>3
  <1>9. ask' \in [Requests -> SUBSET Execs]
    <2>1. results \in SUBSET Execs /\ ask \in [Requests -> SUBSET Execs]
      BY DEF IInv, Types, SessionTypes, TurnTypes
    <2> QED
      BY <1>1, <2>1
  <1>10. lock' \in Requests \cup {None} /\ active' \in {active, None}
    BY <1>1 DEF IInv, Types, SessionTypes
  <1>11. Types'
    <2>1. SessionTypes'
      BY <1>2, <1>6, <1>10 DEF IInv, Types, SessionTypes, server, clients
    <2>2. BridgeTypes'
      BY <1>2 DEF IInv, Types, BridgeTypes, bridges, server
    <2>3. TurnTypes'
      BY <1>2, <1>5, <1>7, <1>8, <1>9 DEF IInv, Types, TurnTypes, clients
    <2> QED
      BY <1>2, <2>1, <2>2, <2>3 DEF IInv, Types
  <1>12. Moves
    <2>1. ASSUME NEW u \in Requests PROVE pc'[u] = pc[u] \/ Proceeds(u)
      <3>1. CASE u = r
        BY <1>2, <1>4, <1>5, <3>1 DEF Proceeds, Early
      <3>2. CASE u # r
        BY <1>5, <3>2
      <3> QED
        BY <3>1, <3>2
    <2>2. active' # None => life[BridgeOf(active')] # "none"
      BY <1>3, <1>10
    <2>3. \A u \in Requests :
             \/ taken'[u] = taken[u]
             \/ pc[u] \in Early /\ taken'[u] \in Execs \ {None} /\ life[BridgeOf(taken'[u])] # "none"
      BY <1>2, <1>7 DEF Early
    <2> QED
      BY <1>2, <1>6, <2>1, <2>2, <2>3 DEF Moves, bridges, clients
  <1>13. SameEnds
    BY <1>2 DEF SameEnds
  <1> QED
    BY <1>8, <1>11, <1>12, <1>13, QuietInv
\* One request goes on, with nothing changed that its turn depends on.
LEMMA GoesInv ==
    ASSUME IInv, Types', NEW r \in Requests, NEW where \in Stages \ {"swap"}, Goes(r, where),
           Onward, Quietly, UNCHANGED <<onData, onClose, watching, gone, taken, turn>>,
           active' # None => life[BridgeOf(active')] # "none",
           \A u \in Requests : stored'[u] = stored[u] \/ stored'[u] # None,
           pc[r] # "over", where \in Early => pc[r] \in Early,
           where \in {"taken", "relock", "resume", "sending"} => taken[r] # None,
           where \in {"prepare", "build"} => stored'[r] # None
    PROVE  IInv'
  <1>1. /\ pc'[r] = where /\ \A u \in Requests : u # r => pc'[u] = pc[u]
    BY GoesTypes
  <1>2. \A u \in Requests : pc'[u] = pc[u] \/ Proceeds(u)
    <2> SUFFICES ASSUME NEW u \in Requests PROVE pc'[u] = pc[u] \/ Proceeds(u)
      OBVIOUS
    <2>1. CASE u = r
      BY <1>1, <2>1 DEF Proceeds
    <2>2. CASE u # r
      BY <1>1, <2>2
    <2> QED
      BY <2>1, <2>2
  <1>3. Moves
    BY <1>2 DEF Moves
  <1>4. SameEnds
    BY DEF SameEnds
  <1> QED
    BY <1>3, <1>4, QuietInv

\* The rest of the first section, behind a cleanup.
LEMMA CleanedInv ==
    ASSUME IInv, NEW r \in Requests, Cleaned(r) \/ Relock(r), UNCHANGED limit
    PROVE  IInv'
  <1>1. /\ pc[r] \in {"cleaning", "relock"} /\ Store(r) /\ Goes(r, "prepare")
        /\ lock' \in {lock, None} /\ active' \in {active, None}
        /\ UNCHANGED <<entry, pending, bridges, server, ask, taken, turn, watching, todo, clients, panicked>>
    BY DEF Cleaned, Relock
  <1>2. /\ stored' \in [Requests -> Requests \cup {None}] /\ stored'[r] # None
        /\ \A u \in Requests : u # r => stored'[u] = stored[u]
        /\ current' \in Requests
    BY <1>1, StoreTypes
  <1>3. Onward /\ Quietly
    BY <1>1, StillOnward, StillQuiet DEF bridges
  <1>4. Types'
    <2>1. pc' \in [Requests -> Stages]
      BY <1>1, GoesTypes DEF Stages, Early
    <2>2. SessionTypes'
      BY <1>1, <1>2 DEF IInv, Types, SessionTypes, server, clients
    <2>3. BridgeTypes'
      BY <1>1 DEF IInv, Types, BridgeTypes, bridges, server
    <2>4. TurnTypes'
      BY <1>1, <2>1 DEF IInv, Types, TurnTypes, clients
    <2> QED
      BY <1>1, <2>2, <2>3, <2>4 DEF IInv, Types
  <1>5. active' # None => life[BridgeOf(active')] # "none"
    BY <1>1 DEF IInv, Wired
  <1>6. /\ \A u \in Requests : stored'[u] = stored[u] \/ stored'[u] # None
        /\ "prepare" \in Stages \ {"swap"} /\ pc[r] # "over" /\ pc[r] \in Early
        /\ UNCHANGED <<onData, onClose, watching, gone, taken, turn>>
        /\ "prepare" \notin {"taken", "relock", "resume", "sending"}
    BY <1>1, <1>2 DEF Stages, Early, bridges, clients
  <1> HIDE DEF Stages, Early
  <1> QED
    BY <1>1, <1>2, <1>3, <1>4, <1>5, <1>6, GoesInv

\* A request looks whether the bridge it took is alive.
LEMMA TakenInv ==
    ASSUME IInv, NEW r \in Requests, Taken(r), UNCHANGED limit
    PROVE  IInv'
  <1>1. PICK where \in {"resume", "relock"} :
           /\ pc[r] = "taken" /\ Goes(r, where)
           /\ todo' = todo \/ todo' = [todo EXCEPT ![main(r)] = Cleanup(BridgeOf(taken[r]))]
           /\ UNCHANGED <<sessions, bridges, server, ask, stored, taken, turn, watching, clients, panicked>>
    BY DEF Taken
  <1>2. taken[r] # None /\ taken[r] \in Execs /\ life[BridgeOf(taken[r])] # "none"
    BY <1>1 DEF IInv, Placed, PlacedAt, Types, TurnTypes
  <1>3. Onward /\ Quietly /\ todo' \in [Procs -> Seq(Instr)]
    <2>1. life' = life
      BY <1>1 DEF bridges
    <2>2. CASE todo' = todo
      BY <2>1, <2>2, StillOnward, StillQuiet
    <2>3. CASE todo' = [todo EXCEPT ![main(r)] = Cleanup(BridgeOf(taken[r]))]
      BY <1>2, <2>1, <2>3, CleansUp, MainOnward
    <2> QED
      BY <1>1, <2>2, <2>3
  <1>4. Types'
    <2>1. pc' \in [Requests -> Stages]
      BY <1>1, GoesTypes DEF Stages, Early
    <2>2. SessionTypes'
      BY <1>1 DEF IInv, Types, SessionTypes, sessions, server, clients
    <2>3. BridgeTypes'
      BY <1>1 DEF IInv, Types, BridgeTypes, bridges, server
    <2>4. TurnTypes'
      BY <1>1, <1>3, <2>1 DEF IInv, Types, TurnTypes, clients
    <2> QED
      BY <1>1, <2>2, <2>3, <2>4 DEF IInv, Types
  <1>5. active' # None => life[BridgeOf(active')] # "none"
    BY <1>1 DEF IInv, Wired, sessions
  <1>6. /\ \A u \in Requests : stored'[u] = stored[u] \/ stored'[u] # None
        /\ where \in Stages \ {"swap"} /\ pc[r] # "over" /\ pc[r] \in Early
        /\ UNCHANGED <<onData, onClose, watching, gone, taken, turn>>
        /\ where \notin {"prepare", "build"}
    BY <1>1 DEF Stages, Early, bridges, clients
  <1> QED
    BY <1>1, <1>2, <1>3, <1>4, <1>5, <1>6, GoesInv

\* Without the lock: the entry, the request to Cursor, and no stream to it.
LEMMA PrepareInv ==
    ASSUME IInv, NEW r \in Requests, Prepare(r), UNCHANGED limit
    PROVE  IInv'
  <1>1. /\ pc[r] = "prepare" /\ Goes(r, "build")
        /\ \/ entry' = entry
           \/ entry' = [entry EXCEPT ![stored[r]] = [NoEntry EXCEPT !.id = r]]
        /\ UNCHANGED <<lock, current, active, pending, bridges, server, ask, stored, taken, turn,
                       watching, todo, clients, panicked>>
    BY DEF Prepare
  <1>2. stored[r] # None
    BY <1>1 DEF IInv, Placed, PlacedAt
  <1>3. Onward /\ Quietly
    BY <1>1, StillOnward, StillQuiet DEF bridges
  <1>4. Types'
    <2>1. pc' \in [Requests -> Stages]
      BY <1>1, GoesTypes DEF Stages, Early
    <2>2. [NoEntry EXCEPT !.id = r] \in Entry
      BY DEF NoEntry, Entry
    <2>3. entry' \in [Requests -> Entry]
      BY <1>1, <2>2 DEF IInv, Types, SessionTypes
    <2>4. SessionTypes'
      BY <1>1, <2>3 DEF IInv, Types, SessionTypes, server, clients
    <2>5. BridgeTypes'
      BY <1>1 DEF IInv, Types, BridgeTypes, bridges, server
    <2>6. TurnTypes'
      BY <1>1, <2>1 DEF IInv, Types, TurnTypes, clients
    <2> QED
      BY <1>1, <2>4, <2>5, <2>6 DEF IInv, Types
  <1>5. active' # None => life[BridgeOf(active')] # "none"
    BY <1>1 DEF IInv, Wired
  <1>6. /\ \A u \in Requests : stored'[u] = stored[u] \/ stored'[u] # None
        /\ "build" \in Stages \ {"swap"} /\ pc[r] # "over" /\ pc[r] \in Early
        /\ UNCHANGED <<onData, onClose, watching, gone, taken, turn>>
        /\ "build" \notin {"taken", "relock", "resume", "sending"} /\ stored'[r] # None
    BY <1>1, <1>2 DEF Stages, Early, bridges, clients
  <1> QED
    BY <1>1, <1>3, <1>4, <1>5, <1>6, GoesInv

\* The request to Cursor takes what the entry has.
LEMMA BuildInv ==
    ASSUME IInv, NEW r \in Requests, Build(r), UNCHANGED limit
    PROVE  IInv'
  <1>1. /\ pc[r] = "build" /\ Goes(r, "open")
        /\ blobs' = [blobs EXCEPT ![r] = entry[stored[r]].blobs]
        /\ UNCHANGED <<sessions, bridges, frames, asked, said, sent, ask, stored, taken, turn,
                       watching, todo, clients, panicked>>
    BY DEF Build
  <1>2. stored[r] # None
    BY <1>1 DEF IInv, Placed, PlacedAt
  <1>3. Onward /\ Quietly
    BY <1>1, StillOnward, StillQuiet DEF bridges
  <1>4. Types'
    <2>1. pc' \in [Requests -> Stages]
      BY <1>1, GoesTypes DEF Stages, Early
    <2>2. entry[stored[r]].blobs \in SUBSET Blobs
      BY <1>2 DEF IInv, Types, SessionTypes, Entry
    <2>3. blobs' \in [Requests -> SUBSET Blobs]
      BY <1>1, <2>2 DEF IInv, Types, SessionTypes
    <2>4. SessionTypes'
      BY <1>1, <2>3 DEF IInv, Types, SessionTypes, sessions, clients
    <2>5. BridgeTypes'
      BY <1>1 DEF IInv, Types, BridgeTypes, bridges
    <2>6. TurnTypes'
      BY <1>1, <2>1 DEF IInv, Types, TurnTypes, clients
    <2> QED
      BY <1>1, <2>4, <2>5, <2>6 DEF IInv, Types
  <1>5. active' # None => life[BridgeOf(active')] # "none"
    BY <1>1 DEF IInv, Wired, sessions
  <1>6. /\ \A u \in Requests : stored'[u] = stored[u] \/ stored'[u] # None
        /\ "open" \in Stages \ {"swap"} /\ pc[r] # "over" /\ pc[r] \in Early
        /\ UNCHANGED <<onData, onClose, watching, gone, taken, turn>>
        /\ "open" \notin {"taken", "relock", "resume", "sending", "prepare", "build"}
    BY <1>1 DEF Stages, Early, bridges, clients
  <1> QED
    BY <1>1, <1>3, <1>4, <1>5, <1>6, GoesInv
--------------------------------------------------------------------------------
(* The steps that leave every turn with what it depends on.                    *)

\* No agent URL, or no bridge: the request is over before it has a stream.
LEMMA OpenOverInv ==
    ASSUME IInv, NEW r \in Requests, pc[r] = "open", Goes(r, "over"),
           UNCHANGED <<limit, bridges, turn, watching, todo>>,
           UNCHANGED <<sessions, server, ask, stored, taken, clients, panicked>>
    PROVE  IInv'
  <1>1. Onward /\ Quietly /\ todo' \in [Procs -> Seq(Instr)]
    BY StillOnward, StillQuiet DEF bridges
  <1>2. Types'
    <2>1. pc' \in [Requests -> Stages]
      BY GoesTypes DEF Stages
    <2>2. SessionTypes'
      BY DEF IInv, Types, SessionTypes, sessions, server, clients
    <2>3. BridgeTypes'
      BY DEF IInv, Types, BridgeTypes, bridges, server
    <2>4. TurnTypes'
      BY <2>1 DEF IInv, Types, TurnTypes, clients
    <2> QED
      BY <2>2, <2>3, <2>4 DEF IInv, Types
  <1>3. active' # None => life[BridgeOf(active')] # "none"
    BY DEF IInv, Wired, sessions
  <1>4. /\ \A u \in Requests : stored'[u] = stored[u] \/ stored'[u] # None
        /\ "over" \in Stages \ {"swap"} /\ pc[r] # "over"
        /\ UNCHANGED <<onData, onClose, watching, gone, taken, turn>>
        /\ "over" \notin {"taken", "relock", "resume", "sending", "prepare", "build"}
        /\ "over" \notin Early
    BY DEF Stages, Early, bridges, clients
  <1> QED
    BY <1>1, <1>2, <1>3, <1>4, GoesInv

\* The struct goes back as it was taken.
LEMMA StillPendingInv ==
    ASSUME IInv, NEW r \in Requests, StillPending(r), UNCHANGED limit
    PROVE  IInv'
  <1>1. /\ pc[r] = "resume" /\ Goes(r, "over") /\ active' = taken[r]
        /\ known' = known \cup (pending[taken[r]] \ ask[r])
        /\ UNCHANGED <<lock, current, entry, pending, bridges, server, ask, stored, taken, turn,
                       watching, todo, gone, panicked>>
    BY DEF StillPending
  <1>2. taken[r] # None /\ taken[r] \in Execs /\ life[BridgeOf(taken[r])] # "none"
    BY <1>1 DEF IInv, Placed, PlacedAt, Types, TurnTypes
  <1>3. Onward /\ Quietly /\ todo' \in [Procs -> Seq(Instr)]
    BY <1>1, StillOnward, StillQuiet DEF bridges
  <1>4. Types'
    <2>1. pc' \in [Requests -> Stages]
      BY <1>1, GoesTypes DEF Stages
    <2>2. pending[taken[r]] \in SUBSET Execs
      BY <1>2 DEF IInv, Types, SessionTypes
    <2>3. SessionTypes'
      BY <1>1, <1>2, <2>2 DEF IInv, Types, SessionTypes, server
    <2>4. BridgeTypes'
      BY <1>1 DEF IInv, Types, BridgeTypes, bridges, server
    <2>5. TurnTypes'
      BY <1>1, <2>1 DEF IInv, Types, TurnTypes
    <2> QED
      BY <1>1, <2>3, <2>4, <2>5 DEF IInv, Types
  <1>5. /\ \A u \in Requests : stored'[u] = stored[u] \/ stored'[u] # None
        /\ "over" \in Stages \ {"swap"} /\ pc[r] # "over"
        /\ UNCHANGED <<onData, onClose, watching, gone, taken, turn>>
        /\ "over" \notin {"taken", "relock", "resume", "sending", "prepare", "build"}
        /\ "over" \notin Early
    BY <1>1 DEF Stages, Early, bridges
  <1> QED
    BY <1>1, <1>2, <1>3, <1>4, <1>5, GoesInv

\* The results of the tools are sent.
LEMMA SendResultsInv ==
    ASSUME IInv, NEW r \in Requests, SendResults(r), UNCHANGED limit
    PROVE  IInv'
  <1>1. /\ pc[r] = "sending" /\ Goes(r, "running")
        /\ sent' = [x \in Execs |->
                      IF x \in pending[taken[r]] \cap ask[r] THEN sent[x] + 1 ELSE sent[x]]
        /\ UNCHANGED <<sessions, bridges, frames, asked, said, blobs, ask, stored, taken, turn,
                       watching, todo, clients, panicked>>
    BY DEF SendResults
  <1>2. Onward /\ Quietly /\ todo' \in [Procs -> Seq(Instr)]
    BY <1>1, StillOnward, StillQuiet DEF bridges
  <1>3. Types'
    <2>1. pc' \in [Requests -> Stages]
      BY <1>1, GoesTypes DEF Stages
    <2>2. sent' \in [Execs -> Nat]
      BY <1>1 DEF IInv, Types, SessionTypes
    <2>3. SessionTypes'
      BY <1>1, <2>2 DEF IInv, Types, SessionTypes, sessions, clients
    <2>4. BridgeTypes'
      BY <1>1 DEF IInv, Types, BridgeTypes, bridges
    <2>5. TurnTypes'
      BY <1>1, <2>1 DEF IInv, Types, TurnTypes, clients
    <2> QED
      BY <1>1, <2>3, <2>4, <2>5 DEF IInv, Types
  <1>4. active' # None => life[BridgeOf(active')] # "none"
    BY <1>1 DEF IInv, Wired, sessions
  <1>5. /\ \A u \in Requests : stored'[u] = stored[u] \/ stored'[u] # None
        /\ "running" \in Stages \ {"swap"} /\ pc[r] # "over"
        /\ UNCHANGED <<onData, onClose, watching, gone, taken, turn>>
        /\ "running" \notin {"taken", "relock", "resume", "sending", "prepare", "build"}
        /\ "running" \notin Early
    BY <1>1 DEF Stages, Early, bridges, clients
  <1> QED
    BY <1>1, <1>2, <1>3, <1>4, <1>5, GoesInv

\* What a client is told of is an exec.
LEMMA ToldExecs ==
    ASSUME NEW s \in Seq(Chunk)
    PROVE  Told(s) \subseteq Execs
  <1> SUFFICES ASSUME NEW i \in DOMAIN s, s[i].kind = "calls" PROVE s[i].exec \in Execs
    BY DEF Told, ToSet
  <1>1. s[i] \in Chunk
    OBVIOUS
  <1> QED
    BY <1>1 DEF Chunk

\* The handler returns.
LEMMA AnswerInv ==
    ASSUME IInv, NEW r \in Requests, Answer(r), UNCHANGED limit
    PROVE  IInv'
  <1>1. /\ pc[r] = "running" /\ Goes(r, "over")
        /\ known' = known \/ known' = known \cup Told(turn[r].out)
        /\ UNCHANGED <<sessions, bridges, server, ask, stored, taken, turn, watching, todo, gone,
                       panicked>>
    BY DEF Answer
  <1>2. Onward /\ Quietly /\ todo' \in [Procs -> Seq(Instr)]
    BY <1>1, StillOnward, StillQuiet DEF bridges
  <1>3. Types'
    <2>1. pc' \in [Requests -> Stages]
      BY <1>1, GoesTypes DEF Stages
    <2>2. turn[r].out \in Seq(Chunk)
      BY DEF IInv, Types, TurnTypes, Turn
    <2>3. known' \subseteq Execs
      BY <1>1, <2>2, ToldExecs DEF IInv, Types, SessionTypes
    <2>4. SessionTypes'
      BY <1>1, <2>3 DEF IInv, Types, SessionTypes, sessions, server
    <2>5. BridgeTypes'
      BY <1>1 DEF IInv, Types, BridgeTypes, bridges, server
    <2>6. TurnTypes'
      BY <1>1, <2>1 DEF IInv, Types, TurnTypes
    <2> QED
      BY <1>1, <2>4, <2>5, <2>6 DEF IInv, Types
  <1>4. active' # None => life[BridgeOf(active')] # "none"
    BY <1>1 DEF IInv, Wired, sessions
  <1>5. /\ \A u \in Requests : stored'[u] = stored[u] \/ stored'[u] # None
        /\ "over" \in Stages \ {"swap"} /\ pc[r] # "over"
        /\ UNCHANGED <<onData, onClose, watching, gone, taken, turn>>
        /\ "over" \notin {"taken", "relock", "resume", "sending", "prepare", "build"}
        /\ "over" \notin Early
    BY <1>1 DEF Stages, Early, bridges
  <1> QED
    BY <1>1, <1>2, <1>3, <1>4, <1>5, GoesInv

\* A watcher sees the stream end, a client leaves, an entry is dropped.
LEMMA LeaveInv ==
    ASSUME IInv, UNCHANGED limit,
           \/ \E t \in Requests : WatchDone(t) \/ Leave(t)
           \/ Evict
    PROVE  IInv'
  <1>1. /\ watching' \subseteq watching /\ current' \in {current, None}
        /\ gone \subseteq gone' /\ gone' \subseteq Requests
        /\ UNCHANGED <<lock, entry, active, pending, bridges, server, requests, turn, todo, known,
                       panicked>>
    BY DEF WatchDone, Leave, Evict, sessions, clients, IInv, Types, TurnTypes
  <1>2. Onward /\ Quietly /\ todo' \in [Procs -> Seq(Instr)]
    BY <1>1, StillOnward, StillQuiet DEF bridges
  <1>3. Types'
    <2>1. SessionTypes'
      BY <1>1 DEF IInv, Types, SessionTypes, server, requests
    <2>2. BridgeTypes'
      BY <1>1 DEF IInv, Types, BridgeTypes, bridges, server
    <2>3. TurnTypes'
      BY <1>1 DEF IInv, Types, TurnTypes, requests
    <2> QED
      BY <1>1, <2>1, <2>2, <2>3 DEF IInv, Types
  <1>4. Moves
    BY <1>1 DEF Moves, IInv, Wired, bridges, requests
  <1>5. SameEnds
    BY <1>1 DEF SameEnds
  <1> QED
    BY <1>2, <1>3, <1>4, <1>5, QuietInv

\* A client takes a chunk out of the channel.
LEMMA ReceiveInv ==
    ASSUME IInv, NEW t \in Requests, Receive(t), UNCHANGED limit
    PROVE  IInv'
  <1> DEFINE v == Tail(turn[t].out)
             U == [turn[t] EXCEPT !["out"] = v]
  <1>1. /\ turn[t].stream /\ turn[t].out # << >>
        /\ turn' = [turn EXCEPT ![t] = U]
        /\ known' = known \cup Told(<<turn[t].out[1]>>)
        /\ UNCHANGED <<sessions, bridges, server, requests, watching, todo, gone, panicked>>
    BY DEF Receive, SetTurn
  <1>2. turn[t] \in Turn /\ turn \in [Requests -> Turn] /\ turn[t].out \in Seq(Chunk)
    BY DEF IInv, Types, TurnTypes, Turn
  <1>3. /\ turn[t].out[1] \in Chunk /\ v \in Seq(Chunk) /\ Len(v) = Len(turn[t].out) - 1
        /\ Len(turn[t].out) \in Nat
    BY <1>1, <1>2, Parts
  <1> HIDE DEF v
  <1>4. /\ U \in Turn /\ U.out = v /\ U.bridge = turn[t].bridge /\ U.state = turn[t].state
        /\ U.emitMu = turn[t].emitMu /\ U.ends = turn[t].ends /\ U.cancelled = turn[t].cancelled
        /\ U.calls = turn[t].calls /\ U.stream = turn[t].stream
    BY <1>2, <1>3, OutField
  <1> HIDE DEF U
  <1>5. /\ turn' \in [Requests -> Turn] /\ turn'[t] = U
        /\ \A u \in Requests : u # t => turn'[u] = turn[u]
    BY <1>1, <1>2, <1>4, TurnSet
  <1>6. turn[t].bridge # None
    BY <1>1 DEF IInv, Placed, PlacedAt
  <1>7. Onward /\ Quietly /\ todo' \in [Procs -> Seq(Instr)]
    BY <1>1, StillOnward, StillQuiet DEF bridges
  <1>8. known' \subseteq Execs
    <2>1. <<turn[t].out[1]>> \in Seq(Chunk)
      BY <1>3, OneStep
    <2> QED
      BY <1>1, <2>1, ToldExecs DEF IInv, Types, SessionTypes
  <1>9. Types'
    <2>1. ASSUME NEW u \in Requests, turn'[u].stream PROVE Len(turn'[u].out) <= Capacity
      <3>1. turn[u].stream => Len(turn[u].out) <= Capacity
        BY DEF IInv, Types, TurnTypes
      <3>2. CASE u = t
        <4>1. Len(turn[t].out) <= Capacity /\ Len(turn'[t].out) = Len(turn[t].out) - 1
          BY <1>1, <1>3, <1>4, <1>5, <3>1, <3>2
        <4> QED
          BY <1>3, <3>2, <4>1, SessionAssumption
      <3>3. CASE u # t
        BY <1>5, <2>1, <3>1, <3>3
      <3> QED
        BY <3>2, <3>3
    <2> QED
      BY <1>1, <1>5, <1>7, <1>8, <2>1, TurnStepTypes
  <1>10. Moves
    <2>1. \A u \in Requests : /\ turn'[u].bridge = turn[u].bridge
                              /\ turn[u].bridge = None => turn'[u] = turn[u]
      BY <1>4, <1>5, <1>6
    <2> QED
      BY <1>1, <2>1, StaysPut DEF bridges, requests, sessions
  <1>11. SameEnds
    BY <1>4, <1>5 DEF SameEnds
  <1> QED
    BY <1>7, <1>9, <1>10, <1>11, QuietInv
--------------------------------------------------------------------------------
(* The steps that give a worker a program.                                     *)

\* A worker that has nothing to do is given a program, and nobody else is.
LEMMA NewProgram ==
    ASSUME IInv, NEW p \in Workers, todo[p] = << >>, NEW q \in Seq(Instr),
           todo' = [todo EXCEPT ![p] = q]
    PROVE  /\ todo' \in [Procs -> Seq(Instr)] /\ todo'[p] = q
           /\ \A w \in Procs : w # p => todo'[w] = todo[w] /\ Kept(w)
           /\ \A T : Based \subseteq T /\ About(q, T) => \A w \in Procs : About(todo'[w], T)
           /\ \A r \in Requests : HeartOnly(todo'[main(r)])
  <1>1. todo \in [Procs -> Seq(Instr)] /\ Programs /\ p \in Procs
    BY WorkerNames DEF IInv, Types, TurnTypes
  <1>2. /\ todo' \in [Procs -> Seq(Instr)] /\ todo'[p] = q
        /\ \A w \in Procs : w # p => todo'[w] = todo[w]
    BY <1>1
  <1>3. \A w \in Procs : w # p => Kept(w)
    BY <1>1, <1>2 DEF Kept, Follows
  <1>4. ASSUME NEW T, Based \subseteq T, About(q, T), NEW w \in Procs
        PROVE  About(todo'[w], T)
    BY <1>1, <1>2, <1>4 DEF Programs, About
  <1>5. \A r \in Requests : HeartOnly(todo'[main(r)])
    BY <1>1, <1>2, WorkerNames DEF Programs
  <1> QED
    BY <1>2, <1>3, <1>4, <1>5

\* A stream whose request was cancelled.
LEMMA CancelledField ==
    ASSUME NEW T \in Turn
    PROVE  LET U == [T EXCEPT !.cancelled = TRUE] IN
           /\ U \in Turn /\ U.bridge = T.bridge /\ U.state = T.state /\ U.emitMu = T.emitMu
           /\ U.ends = T.ends /\ U.calls = T.calls /\ U.stream = T.stream /\ U.out = T.out
  BY DEF Turn

\* A stream with one more tool call.
LEMMA CallsField ==
    ASSUME NEW T \in Turn, NEW v \in SUBSET Execs
    PROVE  LET U == [T EXCEPT !.calls = v] IN
           /\ U \in Turn /\ U.bridge = T.bridge /\ U.state = T.state /\ U.emitMu = T.emitMu
           /\ U.ends = T.ends /\ U.calls = v /\ U.stream = T.stream /\ U.out = T.out
           /\ U.cancelled = T.cancelled
  BY DEF Turn

\* The context of a request is done: its stream is ended, with nothing said on it.
LEMMA WatchCtxInv ==
    ASSUME IInv, NEW t \in Requests, WatchCtx(t), UNCHANGED limit
    PROVE  IInv'
  <1> DEFINE p == watcher(t)
             b == turn[t].bridge
             U == [turn[t] EXCEPT !.cancelled = TRUE]
  <1>1. PICK opened \in BOOLEAN : opened = Opened(t)
    BY DEF Opened
  <1> DEFINE q == (IF opened THEN <<Do("drop", t)>> ELSE << >>) \o Cleanup(t) \o <<Do("finish", t)>>
  <1>2. /\ t \in watching /\ CtxDone(t) /\ watching' = watching \ {t}
        /\ todo' = [todo EXCEPT ![p] = q]
        /\ turn' = turn \/ turn' = [turn EXCEPT ![t] = U]
        /\ UNCHANGED <<sessions, bridges, server, requests, clients, panicked>>
    BY <1>1 DEF WatchCtx, watcher
  <1>3. q \in Seq(Instr) /\ Program(q, t, b) /\ Mute(q) /\ \A T : t \in T => About(q, T)
    BY WatcherProgram
  <1> HIDE DEF q
  <1>4. /\ b # None /\ todo[p] = << >> /\ p \in Workers /\ p \in Procs
        /\ p # closer(t) /\ \A c \in Requests : p # reader(c)
    BY <1>2, WorkerNames DEF IInv, Placed, PlacedAt
  <1>5. turn[t] \in Turn /\ turn \in [Requests -> Turn] /\ b \in Requests
    BY <1>4 DEF IInv, Types, TurnTypes, Turn
  <1>6. /\ todo' \in [Procs -> Seq(Instr)] /\ todo'[p] = q
        /\ \A w \in Procs : w # p => todo'[w] = todo[w] /\ Kept(w)
        /\ \A T : Based \subseteq T /\ About(q, T) => \A w \in Procs : About(todo'[w], T)
        /\ \A r \in Requests : HeartOnly(todo'[main(r)])
    BY <1>2, <1>3, <1>4, NewProgram
  <1>7. /\ turn' \in [Requests -> Turn] /\ \A u \in Requests : u # t => turn'[u] = turn[u]
        /\ turn'[t].bridge = b /\ turn'[t].state = turn[t].state
        /\ turn'[t].emitMu = turn[t].emitMu /\ turn'[t].ends = turn[t].ends
        /\ turn'[t].calls = turn[t].calls /\ turn'[t].stream = turn[t].stream
        /\ turn'[t].out = turn[t].out
    <2>1. CASE turn' = turn
      BY <1>5, <2>1
    <2>2. CASE turn' = [turn EXCEPT ![t] = U]
      <3>1. /\ U \in Turn /\ U.bridge = b /\ U.state = turn[t].state
            /\ U.emitMu = turn[t].emitMu /\ U.ends = turn[t].ends /\ U.calls = turn[t].calls
            /\ U.stream = turn[t].stream /\ U.out = turn[t].out
        BY <1>5, CancelledField
      <3> HIDE DEF U
      <3>2. /\ turn' \in [Requests -> Turn] /\ turn'[t] = U
            /\ \A u \in Requests : u # t => turn'[u] = turn[u]
        BY <1>5, <2>2, <3>1, TurnSet
      <3> QED
        BY <3>1, <3>2
    <2> QED
      BY <1>2, <2>1, <2>2
  <1> HIDE DEF U, p, b
  <1>8. CtxDone(t)' /\ \A u \in Requests : CtxDone(u) => CtxDone(u)'
    BY <1>2 DEF CtxDone, requests, clients
  <1>9. Types'
    <2>1. \A u \in Requests : turn'[u].stream => Len(turn'[u].out) <= Capacity
      <3> SUFFICES ASSUME NEW u \in Requests, turn'[u].stream PROVE Len(turn'[u].out) <= Capacity
        OBVIOUS
      <3>1. turn[u].stream => Len(turn[u].out) <= Capacity
        BY DEF IInv, Types, TurnTypes
      <3>2. turn'[u].stream = turn[u].stream /\ turn'[u].out = turn[u].out
        BY <1>7
      <3> QED
        BY <3>1, <3>2
    <2>2. known' \subseteq Execs /\ UNCHANGED <<gone, panicked>> /\ watching' \subseteq watching
      BY <1>2 DEF IInv, Types, SessionTypes, clients
    <2> QED
      BY <1>2, <1>6, <1>7, <2>1, <2>2, TurnStepTypes
  <1>10. Based \subseteq Based /\ t \in Based
    BY <1>4 DEF Based, b
  <1>11. Onward
    <2>1. \A w \in Procs : About(todo'[w], Based)
      BY <1>3, <1>6, <1>10
    <2>2. \A u \in Requests : Kept(closer(u)) /\ life'[u] = life[u] /\ Kept(reader(u))
      BY <1>2, <1>6, WorkerNames DEF bridges, p
    <2>3. \A u \in Requests : u # t => Kept(watcher(u))
      BY <1>6, WorkerNames DEF p
    <2>4. /\ t \in watching \ watching' /\ CtxDone(t)
          /\ Program(todo'[watcher(t)], t, turn[t].bridge) /\ Mute(todo'[watcher(t)])
      BY <1>2, <1>3, <1>6 DEF p, b
    <2> QED
      BY <1>6, <2>1, <2>2, <2>3, <2>4 DEF Onward
  <1>12. Moves
    <2>1. \A u \in Requests : /\ turn'[u].bridge = turn[u].bridge
                              /\ turn[u].bridge = None => turn'[u] = turn[u]
      BY <1>4, <1>7 DEF b
    <2>2. active' # None => life[BridgeOf(active')] # "none"
      BY <1>2 DEF IInv, Wired, sessions
    <2> QED
      BY <1>2, <2>1, <2>2 DEF Moves, bridges, requests, clients
  <1>13. LockedAt(t) /\ EndsAt(t)
    BY DEF IInv, Locked, Endings
  <1>14. LockedAt(t)'
    <2>1. turn[t].emitMu # None => turn[t].emitMu \in Procs /\ turn[t].emitMu # p
      BY <1>4, <1>5, <1>13 DEF LockedAt, Turn
    <2> QED
      BY <1>6, <1>7, <1>13, <2>1 DEF LockedAt
  <1>15. EndsAt(t)'
    <2>1. /\ todo'[closer(t)] = todo[closer(t)] /\ todo'[reader(b)] = todo[reader(b)]
      BY <1>4, <1>5, <1>6, WorkerNames
    <2> QED
      BY <1>7, <1>8, <1>13, <2>1 DEF EndsAt, Live, b
  <1>16. \A u \in Requests \ {t} : LockedAt(u)' /\ EndsAt(u)'
    <2>1. Program(todo[p], t, b)
      BY <1>4, NothingToDo
    <2> QED
      BY <1>3, <1>4, <1>6, <1>7, <1>8, <2>1, OthersOn
  <1> QED
    BY <1>9, <1>11, <1>12, <1>14, <1>15, <1>16, EndInv

\* A bridge's reader is given a program about the turn of its callback.
LEMMA ReaderGoes ==
    ASSUME IInv, Types', NEW b \in Requests, Idle(b), NEW t \in Requests, turn[t].bridge = b,
           NEW q \in Seq(Instr), Program(q, t, b), \A u : ~OnlyFinish(q, u),
           \A T : t \in T => About(q, T),
           todo' = [todo EXCEPT ![reader(b)] = q],
           life' \in {life, [life EXCEPT ![b] = "dead"]},
           life' # life => Started(t),
           UNCHANGED <<sessions, onData, onClose, requests, clients, watching>>,
           \A u \in Requests : u # t => turn'[u] = turn[u],
           turn'[t].bridge = b, turn'[t].state = turn[t].state, turn'[t].emitMu = turn[t].emitMu,
           turn'[t].ends = turn[t].ends, turn'[t].cancelled = turn[t].cancelled,
           turn'[t].calls = turn[t].calls \/ EndsWith(q, t)
    PROVE  IInv'
  <1> DEFINE p == reader(b)
  <1>1. /\ todo[p] = << >> /\ life[b] = "alive" /\ p \in Workers /\ p \in Procs /\ b # None
        /\ p # closer(t)
    BY WorkerNames, SessionAssumption DEF Idle, reader
  <1>2. /\ todo' \in [Procs -> Seq(Instr)] /\ todo'[p] = q
        /\ \A w \in Procs : w # p => todo'[w] = todo[w] /\ Kept(w)
        /\ \A T : Based \subseteq T /\ About(q, T) => \A w \in Procs : About(todo'[w], T)
        /\ \A r \in Requests : HeartOnly(todo'[main(r)])
    BY <1>1, NewProgram
  <1> HIDE DEF p
  <1>3. turn[t] \in Turn /\ life \in [Requests -> {"none", "alive", "dead"}]
    BY DEF IInv, Types, TurnTypes, BridgeTypes
  <1>4. Onward
    <2>1. \A w \in Procs : About(todo'[w], Based)
      <3>1. t \in Based /\ Based \subseteq Based
        BY <1>1 DEF Based
      <3> QED
        BY <1>2, <3>1
    <2>2. \A u \in Requests : Kept(closer(u)) /\ Kept(watcher(u))
      BY <1>2, WorkerNames DEF p
    <2>3. \A u \in Requests : u # b => life'[u] = life[u] /\ Kept(reader(u))
      BY <1>2, <1>3, WorkerNames DEF p
    <2>4. /\ life[b] = "alive" /\ life'[b] \in {"alive", "dead"} /\ todo[reader(b)] = << >>
          /\ turn[t].bridge = b /\ Program(todo'[reader(b)], t, b)
          /\ life'[b] = "dead" => Started(t)
      BY <1>1, <1>2, <1>3 DEF p
    <2> QED
      BY <1>2, <2>1, <2>2, <2>3, <2>4 DEF Onward
  <1>5. Moves
    <2>1. \A u \in Requests : /\ turn'[u].bridge = turn[u].bridge
                              /\ turn[u].bridge = None => turn'[u] = turn[u]
      BY <1>1
    <2>2. active' # None => life[BridgeOf(active')] # "none"
      BY DEF IInv, Wired, sessions
    <2> QED
      BY <2>1, <2>2 DEF Moves, requests, clients
  <1>6. LockedAt(t) /\ EndsAt(t)
    BY DEF IInv, Locked, Endings
  <1>7. \A u \in Requests : CtxDone(u) <=> CtxDone(u)'
    BY DEF CtxDone, requests, clients
  <1>8. LockedAt(t)'
    <2>1. turn[t].emitMu # None => turn[t].emitMu \in Procs /\ turn[t].emitMu # p
      BY <1>1, <1>3, <1>6 DEF LockedAt, Turn
    <2> QED
      BY <1>2, <1>6, <2>1 DEF LockedAt
  <1>9. EndsAt(t)'
    <2>1. ~OnlyFinish(todo[p], t) /\ ~EndsWith(todo[p], t)
      BY <1>1, NothingToDo
    <2>2. todo'[closer(t)] = todo[closer(t)]
      BY <1>1, <1>2, WorkerNames
    <2>3. turn[t].calls # {} /\ turn[t].state = "open" => FALSE
      BY <1>6, <2>1 DEF EndsAt, p
    <2>4. turn'[t].calls # {} /\ turn'[t].state = "open" => EndsWith(todo'[reader(turn'[t].bridge)], t)
      BY <1>2, <2>3 DEF p
    <2>5. turn'[t].ends = 1 /\ (turn'[t].state = "open" \/ turn'[t].emitMu # None) =>
             OnlyFinish(todo'[closer(t)], t)
      BY <1>6, <2>1, <2>2 DEF EndsAt, Live, p
    <2>6. ASSUME NEW w \in Procs, OnlyFinish(todo'[w], t)
          PROVE  turn[t].ends = 1 \/ CtxDone(t) \/ turn[t].state # "open"
      BY <1>2, <1>6, <2>6 DEF EndsAt
    <2>7. /\ turn[t].ends <= 1 /\ (turn[t].state # "open" => turn[t].ends = 1 \/ CtxDone(t))
          /\ turn[t].cancelled => CtxDone(t)
      BY <1>6 DEF EndsAt
    <2> QED
      BY <1>7, <2>4, <2>5, <2>6, <2>7 DEF EndsAt, Live
  <1>10. \A u \in Requests \ {t} : LockedAt(u)' /\ EndsAt(u)'
    <2>1. Program(todo[p], t, b)
      BY <1>1, NothingToDo
    <2> QED
      BY <1>1, <1>2, <1>7, <2>1, OthersOn
  <1> QED
    BY <1>4, <1>5, <1>8, <1>9, <1>10, EndInv

\* A frame of the server reaches the turn whose callback is set.
LEMMA DeliverInv ==
    ASSUME IInv, NEW b \in Requests, NEW kind \in Kinds, Deliver(b, kind), UNCHANGED limit
    PROVE  IInv'
  <1> DEFINE x == <<b, asked[b] + 1>>
             s == frames[b] + 1
  <1>1. /\ Idle(b) /\ frames[b] < limit.frames[b]
        /\ kind = "exec" => asked[b] < MaxExecs
        /\ frames' = [frames EXCEPT ![b] = s]
        /\ asked' = IF kind = "exec" THEN [asked EXCEPT ![b] = asked[b] + 1] ELSE asked
        /\ blobs' = blobs \/ blobs' = [blobs EXCEPT ![b] = blobs[b] \cup {<<b, frames'[b]>>}]
        /\ turn' = IF kind = "exec"
                     THEN [turn EXCEPT ![onData[b]] =
                             [turn[onData[b]] EXCEPT !.calls = turn[onData[b]].calls \cup {x}]]
                     ELSE turn
        /\ todo' = [todo EXCEPT ![reader(b)] = OnFrame(onData[b], kind, x)]
        /\ UNCHANGED <<sessions, bridges, sent, requests, watching, clients, panicked>>
    BY DEF Deliver, reader
  <1>2. /\ frames \in [Requests -> Nat] /\ asked \in [Requests -> 0 .. MaxExecs]
        /\ onData \in [Requests -> Requests \cup {None}]
        /\ turn \in [Requests -> Turn] /\ blobs \in [Requests -> SUBSET Blobs]
        /\ limit \in Limits
        /\ \A c \in Requests : frames[c] <= limit.frames[c]
    BY DEF IInv, Types, BridgeTypes, TurnTypes, SessionTypes
  <1>3. limit.frames \in [Requests -> Nat]
    BY <1>2, SessionAssumption
  <1>4. PICK t \in Requests : t = onData[b] /\ turn[t].bridge = b
    BY <1>1, <1>2 DEF IInv, Wired, Idle
  <1>5. (kind = "exec" => x \in Execs) /\ BridgeOf(x) = b
    BY <1>1, <1>2, SessionAssumption DEF Execs, BridgeOf
  <1> DEFINE q == OnFrame(t, kind, x)
             U == [turn[t] EXCEPT !.calls = turn[t].calls \cup {x}]
  <1>6. /\ q \in Seq(Instr) /\ Program(q, t, b)
        /\ \A u : ~OnlyFinish(q, u)
        /\ \A T : t \in T => About(q, T)
        /\ kind = "exec" => EndsWith(q, t)
    BY <1>5, FrameProgram
  <1>7. todo' = [todo EXCEPT ![reader(b)] = q]
    BY <1>1, <1>4
  <1> HIDE DEF q
  <1>8. /\ turn' \in [Requests -> Turn] /\ \A u \in Requests : u # t => turn'[u] = turn[u]
        /\ turn'[t].bridge = b /\ turn'[t].state = turn[t].state
        /\ turn'[t].emitMu = turn[t].emitMu /\ turn'[t].ends = turn[t].ends
        /\ turn'[t].cancelled = turn[t].cancelled
        /\ turn'[t].stream = turn[t].stream /\ turn'[t].out = turn[t].out
        /\ turn'[t].calls = turn[t].calls \/ kind = "exec"
    <2>1. CASE turn' = turn
      BY <1>2, <1>4, <2>1
    <2>2. CASE kind = "exec" /\ turn' = [turn EXCEPT ![t] = U]
      <3>1. turn[t].calls \cup {x} \in SUBSET Execs /\ turn[t] \in Turn
        BY <1>2, <1>5, <2>2 DEF Turn
      <3>2. /\ U \in Turn /\ U.bridge = turn[t].bridge /\ U.state = turn[t].state
            /\ U.emitMu = turn[t].emitMu /\ U.ends = turn[t].ends
            /\ U.stream = turn[t].stream /\ U.out = turn[t].out /\ U.cancelled = turn[t].cancelled
        BY <3>1, CallsField
      <3> HIDE DEF U
      <3>3. /\ turn' \in [Requests -> Turn] /\ turn'[t] = U
            /\ \A u \in Requests : u # t => turn'[u] = turn[u]
        BY <1>2, <2>2, <3>2, TurnSet
      <3> QED
        BY <1>4, <2>2, <3>2, <3>3
    <2> QED
      BY <1>1, <1>4, <2>1, <2>2
  <1> HIDE DEF U
  <1>9. s \in Nat /\ s <= limit.frames[b]
    <2>1. frames[b] \in Nat /\ limit.frames[b] \in Nat
      BY <1>2, <1>3
    <2> QED
      BY <1>1, <2>1
  <1>10. frames' \in [Requests -> Nat] /\ \A c \in Requests : frames'[c] <= limit.frames[c]
    BY <1>1, <1>2, <1>9
  <1>11. asked' \in [Requests -> 0 .. MaxExecs]
    <2>1. kind = "exec" => asked[b] + 1 \in 0 .. MaxExecs
      BY <1>1, <1>2, SessionAssumption
    <2> QED
      BY <1>1, <1>2, <2>1
  <1>12. blobs' \in [Requests -> SUBSET Blobs]
    <2>1. <<b, frames'[b]>> \in Blobs
      BY <1>10 DEF Blobs
    <2> QED
      BY <1>1, <1>2, <2>1
  <1>13. todo' \in [Procs -> Seq(Instr)]
    BY <1>6, <1>7, WorkerNames DEF IInv, Types, TurnTypes
  <1>14. \A u \in Requests : turn'[u].stream => Len(turn'[u].out) <= Capacity
    <2> SUFFICES ASSUME NEW u \in Requests, turn'[u].stream PROVE Len(turn'[u].out) <= Capacity
      OBVIOUS
    <2>1. turn[u].stream => Len(turn[u].out) <= Capacity
      BY DEF IInv, Types, TurnTypes
    <2>2. turn'[u].stream = turn[u].stream /\ turn'[u].out = turn[u].out
      BY <1>8
    <2> QED
      BY <2>1, <2>2
  <1>15. Types'
    <2>1. SessionTypes'
      BY <1>1, <1>12 DEF IInv, Types, SessionTypes, sessions, requests, clients
    <2>2. BridgeTypes'
      BY <1>1, <1>10, <1>11 DEF IInv, Types, BridgeTypes, bridges
    <2>3. TurnTypes'
      BY <1>1, <1>8, <1>13, <1>14 DEF IInv, Types, TurnTypes, requests, clients
    <2> QED
      BY <1>1, <2>1, <2>2, <2>3 DEF IInv, Types
  <1>16. UNCHANGED <<sessions, onData, onClose, requests, clients, watching>> /\ life' = life
    BY <1>1 DEF bridges
  <1>17. turn'[t].calls = turn[t].calls \/ EndsWith(q, t)
    BY <1>6, <1>8
  <1>18. Idle(b)
    BY <1>1
  <1> HIDE DEF x, s
  <1> QED
    BY <1>4, <1>6, <1>7, <1>8, <1>15, <1>16, <1>17, <1>18, ReaderGoes

\* The stream to Cursor is closed: the turn whose callback is set is told.
LEMMA CloseInv ==
    ASSUME IInv, NEW b \in Requests, NEW code \in Codes, Close(b, code), UNCHANGED limit
    PROVE  IInv'
  <1>1. /\ Idle(b) /\ life' = [life EXCEPT ![b] = "dead"]
        /\ todo' = [todo EXCEPT ![reader(b)] = OnClosed(onClose[b], code)]
        /\ UNCHANGED <<sessions, ended, heart, onData, onClose, server, requests, turn, watching,
                       clients, panicked>>
    BY DEF Close, reader
  <1>2. /\ onClose \in [Requests -> Requests \cup {None}]
        /\ life \in [Requests -> {"none", "alive", "dead"}]
    BY DEF IInv, Types, BridgeTypes
  <1>3. PICK t \in Requests : t = onClose[b] /\ turn[t].bridge = b /\ Started(t)
    BY <1>1, <1>2 DEF IInv, Wired, Idle, Started
  <1> DEFINE q == OnClosed(t, code)
  <1>4. /\ q \in Seq(Instr) /\ Program(q, t, b)
        /\ \A u : ~OnlyFinish(q, u)
        /\ \A T : t \in T => About(q, T)
    BY ClosedProgram
  <1>5. todo' = [todo EXCEPT ![reader(b)] = q]
    BY <1>1, <1>3
  <1> HIDE DEF q
  <1>6. Types'
    <2>1. todo' \in [Procs -> Seq(Instr)]
      BY <1>4, <1>5, WorkerNames DEF IInv, Types, TurnTypes
    <2>2. SessionTypes'
      BY <1>1 DEF IInv, Types, SessionTypes, sessions, server, requests, clients
    <2>3. BridgeTypes'
      BY <1>1, <1>2 DEF IInv, Types, BridgeTypes, server
    <2>4. TurnTypes'
      BY <1>1, <2>1 DEF IInv, Types, TurnTypes, requests, clients
    <2> QED
      BY <1>1, <2>2, <2>3, <2>4 DEF IInv, Types
  <1>7. UNCHANGED <<sessions, onData, onClose, requests, clients, watching>> /\ Idle(b)
    BY <1>1
  <1> QED
    BY <1>1, <1>3, <1>4, <1>5, <1>6, <1>7, ReaderGoes
--------------------------------------------------------------------------------
(* The steps that make a turn, or wire it to its bridge.                       *)

\* A turn as it begins on a bridge.
Fresh(b, streamed) == [NewTurn EXCEPT !.bridge = b, !.stream = streamed]

\* It takes chunks, and has not told anything yet.
LEMMA NewTurnFields ==
    ASSUME NEW b \in Requests, NEW streamed \in BOOLEAN
    PROVE  LET U == Fresh(b, streamed) IN
           /\ U \in Turn /\ U.bridge = b /\ U.state = "open" /\ U.emitMu = None /\ U.ends = 0
           /\ U.calls = {} /\ ~U.cancelled /\ Len(U.out) = 0
  <1>1. << >> \in Seq(Chunk) /\ Len(<< >>) = 0
    BY EmptySeq
  <1> DEFINE e == << >>
  <1> HIDE DEF e
  <1>2. NewTurn = [bridge |-> None, stream |-> FALSE, out |-> e, state |-> "open", by |-> None,
                   emitMu |-> None, calls |-> {}, turnEnded |-> FALSE, terminal |-> FALSE,
                   cancelled |-> FALSE, latest |-> {}, ends |-> 0]
    BY DEF NewTurn, e
  <1>3. e \in Seq(Chunk) /\ Len(e) = 0
    BY <1>1 DEF e
  <1> QED
    BY <1>2, <1>3 DEF Turn, Fresh

\* A turn that begins has its end to come, and takes nothing from the others.
LEMMA FreshEnds ==
    ASSUME IInv, NEW r \in Requests, pc[r] \in Early, NEW b \in Requests,
           NEW q \in Seq(Instr), Program(q, r, b), \A u : ~OnlyFinish(q, u),
           todo'[closer(r)] = q, \A w \in Procs : w # closer(r) => todo'[w] = todo[w],
           gone' = gone, \A u \in Requests : u # r => turn'[u] = turn[u] /\ pc'[u] = pc[u],
           turn'[r].bridge = b, turn'[r].state = "open", turn'[r].emitMu = None,
           turn'[r].ends = 0, turn'[r].calls = {}, ~turn'[r].cancelled
    PROVE  Locked' /\ Endings'
  <1>1. /\ todo[closer(r)] = << >> /\ turn[r].state = "open" /\ turn[r].ends = 0
        /\ closer(r) \in Procs
    BY WorkerNames DEF IInv, Placed, PlacedAt
  <1>2. \A u \in Requests \ {r} : LockedAt(u)' /\ EndsAt(u)'
    <2>1. Program(todo[closer(r)], r, b)
      BY <1>1, NothingToDo
    <2>2. \A u \in Requests \ {r} : CtxDone(u) => CtxDone(u)'
      BY DEF CtxDone
    <2> QED
      BY <1>1, <2>1, <2>2, OthersOn
  <1>3. LockedAt(r)'
    BY DEF LockedAt
  <1>4. EndsAt(r)'
    <2>1. ASSUME NEW w \in Procs, OnlyFinish(todo'[w], r) PROVE CtxDone(r)'
      <3>1. OnlyFinish(todo[w], r)
        BY <2>1
      <3>2. CtxDone(r)
        BY <1>1, <3>1 DEF IInv, Endings, EndsAt
      <3>3. "over" \notin Early
        BY DEF Early
      <3> QED
        BY <3>2, <3>3 DEF CtxDone
    <2> QED
      BY <2>1 DEF EndsAt
  <1>5. \A u \in Requests : LockedAt(u)' /\ EndsAt(u)'
    BY <1>2, <1>3, <1>4
  <1> QED
    BY <1>5 DEF Locked, Endings

\* A request opens a bridge, which may be dead already.
LEMMA OpenBridgeInv ==
    ASSUME IInv, NEW r \in Requests, pc[r] = "open", Goes(r, "running"),
           NEW l \in {"alive", "dead"}, NEW streamed \in limit.streamed,
           life' = [life EXCEPT ![r] = l], heart' = [heart EXCEPT ![r] = "on"],
           onData' = [onData EXCEPT ![r] = r], onClose' = [onClose EXCEPT ![r] = r],
           turn' = [turn EXCEPT ![r] = [NewTurn EXCEPT !.bridge = r, !.stream = streamed]],
           todo' = IF l = "dead" THEN [todo EXCEPT ![closer(r)] = OnClosedFirst(r, "err")]
                   ELSE todo,
           watching' = watching \cup {r},
           UNCHANGED <<limit, ended, sessions, server, ask, stored, taken, clients, panicked>>
    PROVE  IInv'
  <1> DEFINE q == IF l = "dead" THEN OnClosedFirst(r, "err") ELSE << >>
             U == Fresh(r, streamed)
  <1>1. /\ turn[r].bridge = None /\ life[r] = "none" /\ r # None
        /\ todo[closer(r)] = << >> /\ todo[watcher(r)] = << >> /\ todo[reader(r)] = << >>
        /\ pc[r] \in Early
    BY SessionAssumption DEF IInv, Placed, PlacedAt, Wired, Early
  <1>2. /\ q \in Seq(Instr) /\ Program(q, r, r)
        /\ \A u : ~OnlyFinish(q, u)
        /\ \A T : r \in T => About(q, T)
        /\ q # << >> => l = "dead"
    <2>1. CASE l = "dead"
      <3>1. "err" \in Codes
        BY DEF Codes
      <3> QED
        BY <2>1, <3>1, ClosedProgram
    <2>2. CASE l # "dead"
      BY <2>2, NothingToDo
    <2> QED
      BY <2>1, <2>2
  <1>3. todo \in [Procs -> Seq(Instr)] /\ closer(r) \in Procs /\ closer(r) \in Workers
    BY WorkerNames DEF IInv, Types, TurnTypes
  <1>4. todo' = [todo EXCEPT ![closer(r)] = q]
    BY <1>1, <1>3
  <1> HIDE DEF q
  <1>5. /\ todo' \in [Procs -> Seq(Instr)] /\ todo'[closer(r)] = q
        /\ \A w \in Procs : w # closer(r) => todo'[w] = todo[w] /\ Kept(w)
        /\ \A T : Based \subseteq T /\ About(q, T) => \A w \in Procs : About(todo'[w], T)
        /\ \A u \in Requests : HeartOnly(todo'[main(u)])
    BY <1>1, <1>2, <1>3, <1>4, NewProgram
  <1>6. /\ pc' \in [Requests -> Stages] /\ pc'[r] = "running"
        /\ \A u \in Requests : u # r => pc'[u] = pc[u]
    BY GoesTypes DEF Stages
  <1>7. streamed \in BOOLEAN
    BY SessionAssumption DEF IInv, Types, SessionTypes
  <1>8. /\ U \in Turn /\ U.bridge = r /\ U.state = "open" /\ U.emitMu = None /\ U.ends = 0
        /\ U.calls = {} /\ ~U.cancelled /\ Len(U.out) = 0
    BY <1>7, NewTurnFields
  <1> HIDE DEF U
  <1>9. turn \in [Requests -> Turn] /\ life \in [Requests -> {"none", "alive", "dead"}]
    BY DEF IInv, Types, TurnTypes, BridgeTypes
  <1>10. /\ turn' \in [Requests -> Turn] /\ turn'[r] = U
         /\ \A u \in Requests : u # r => turn'[u] = turn[u]
    BY <1>8, <1>9, TurnSet DEF U, Fresh
  <1>11. /\ life'[r] = l /\ onData'[r] = r /\ onClose'[r] = r
         /\ \A b \in Requests : b # r => life'[b] = life[b] /\ onData'[b] = onData[b]
                                            /\ onClose'[b] = onClose[b]
    BY <1>9 DEF IInv, Types, BridgeTypes
  <1>12. Types'
    <2>1. ASSUME NEW u \in Requests, turn'[u].stream PROVE Len(turn'[u].out) <= Capacity
      <3>1. turn[u].stream => Len(turn[u].out) <= Capacity
        BY DEF IInv, Types, TurnTypes
      <3>2. CASE u = r
        <4>1. Len(turn'[u].out) = 0
          BY <1>8, <1>10, <3>2
        <4>2. 0 <= Capacity
          BY SessionAssumption
        <4> QED
          BY <4>1, <4>2
      <3>3. CASE u # r
        BY <1>10, <2>1, <3>1, <3>3
      <3> QED
        BY <3>2, <3>3
    <2>2. SessionTypes'
      BY DEF IInv, Types, SessionTypes, sessions, server, clients
    <2>3. BridgeTypes'
      BY <1>9 DEF IInv, Types, BridgeTypes, server
    <2>4. TurnTypes'
      BY <1>5, <1>6, <1>10, <2>1 DEF IInv, Types, TurnTypes, clients
    <2> QED
      BY <2>2, <2>3, <2>4 DEF IInv, Types
  <1>13. \A t \in Requests : turn[t].bridge # r
    BY <1>1 DEF IInv, Wired
  <1>14. \A x \in Execs \cup {None} : x # None => BridgeOf(x) \in Requests
    BY DEF Execs, BridgeOf
  <1>15. \A b \in Requests : life[b] # "none" => b # r /\ life'[b] = life[b]
    BY <1>1, <1>11
  <1>16. Placed'
    <2>1. ASSUME NEW u \in Requests, u # r PROVE PlacedAt(u)'
      <3>1. todo'[closer(u)] = todo[closer(u)] /\ todo'[watcher(u)] = todo[watcher(u)]
        BY <1>5, <2>1, WorkerNames
      <3>2. turn'[u] = turn[u] /\ pc'[u] = pc[u] /\ life'[u] = life[u]
            /\ (u \in watching' <=> u \in watching)
        BY <1>6, <1>10, <1>11, <2>1
      <3>3. taken[u] \in Execs \cup {None} /\ taken' = taken /\ stored' = stored
        BY DEF IInv, Types, TurnTypes
      <3>4. (taken[u] # None => life[BridgeOf(taken[u])] # "none")'
        BY <1>14, <1>15, <3>3 DEF IInv, Placed, PlacedAt
      <3>5. PlacedAt(u)
        BY DEF IInv, Placed
      <3> QED
        BY <3>1, <3>2, <3>3, <3>4, <3>5 DEF PlacedAt
    <2>2. /\ pc'[r] = "running" /\ turn'[r].bridge = r /\ todo'[watcher(r)] = << >>
          /\ (taken[r] # None => life[BridgeOf(taken[r])] # "none")'
      <3>1. taken[r] \in Execs \cup {None} /\ taken' = taken
        BY DEF IInv, Types, TurnTypes
      <3>2. (taken[r] # None => life[BridgeOf(taken[r])] # "none")'
        BY <1>14, <1>15, <3>1 DEF IInv, Placed, PlacedAt
      <3> QED
        BY <1>1, <1>5, <1>6, <1>8, <1>10, <3>2, WorkerNames
    <2>3. "running" \notin Early
      BY DEF Early
    <2> HIDE DEF Early
    <2>4. PlacedAt(r)'
      BY <1>1, <2>2, <2>3 DEF PlacedAt
    <2> QED
      BY <2>1, <2>4 DEF Placed
  <1>17. Wired'
    <2>1. ASSUME NEW b \in Requests, life'[b] # "none"
          PROVE  /\ turn'[b].bridge = b
                 /\ onData'[b] # None /\ turn'[onData'[b]].bridge = b
                 /\ onClose'[b] # None /\ turn'[onClose'[b]].bridge = b
                 /\ pc'[onClose'[b]] \notin Early \cup {"swap"}
      <3>1. CASE b = r
        BY <1>1, <1>6, <1>8, <1>10, <1>11, <3>1 DEF Early
      <3>2. CASE b # r
        <4>1. /\ turn[b].bridge = b /\ onData'[b] = onData[b] /\ onClose'[b] = onClose[b]
              /\ onData[b] # None /\ turn[onData[b]].bridge = b
              /\ onClose[b] # None /\ turn[onClose[b]].bridge = b
              /\ pc[onClose[b]] \notin Early \cup {"swap"}
          BY <1>11, <2>1, <3>2 DEF IInv, Wired
        <4>2. b # None /\ onData[b] \in Requests /\ onClose[b] \in Requests
          BY <4>1, SessionAssumption DEF IInv, Types, BridgeTypes
        <4>3. onData[b] # r /\ onClose[b] # r
          BY <1>1, <4>1, <4>2
        <4>4. /\ turn'[b] = turn[b] /\ turn'[onData[b]] = turn[onData[b]]
              /\ turn'[onClose[b]] = turn[onClose[b]] /\ pc'[onClose[b]] = pc[onClose[b]]
          BY <1>6, <1>10, <3>2, <4>2, <4>3
        <4> QED
          BY <4>1, <4>4
      <3> QED
        BY <3>1, <3>2
    <2>2. ASSUME NEW b \in Requests, life'[b] = "none" PROVE todo'[reader(b)] = << >>
      BY <1>5, <1>11, <2>2, WorkerNames DEF IInv, Wired
    <2>3. ASSUME NEW t \in Requests, turn'[t].bridge # None PROVE life'[turn'[t].bridge] # "none"
      <3>1. CASE t = r
        BY <1>8, <1>10, <1>11, <3>1
      <3>2. CASE t # r
        <4>1. turn'[t].bridge = turn[t].bridge /\ turn[t].bridge \in Requests
          BY <1>9, <1>10, <2>3, <3>2 DEF Turn
        <4> QED
          BY <1>15, <2>3, <4>1 DEF IInv, Wired
      <3> QED
        BY <3>1, <3>2
    <2>4. (active # None => life[BridgeOf(active)] # "none")'
      <3>1. active' = active /\ active \in Execs \cup {None}
        BY DEF IInv, Types, SessionTypes, sessions
      <3> QED
        BY <1>14, <1>15, <3>1 DEF IInv, Wired
    <2> QED
      BY <2>1, <2>2, <2>3, <2>4 DEF Wired
  <1>18. Programs'
    <2>1. Based \subseteq Based' /\ r \in Based'
      BY <1>1, <1>8, <1>10 DEF Based
    <2>2. \A p \in Procs : About(todo'[p], Based')
      BY <1>2, <1>5, <2>1
    <2>3. ASSUME NEW b \in Requests, todo'[reader(b)] # << >>
          PROVE  \E t \in Requests : turn'[t].bridge = b /\ Program(todo'[reader(b)], t, b)
      <3>1. todo'[reader(b)] = todo[reader(b)]
        BY <1>5, WorkerNames
      <3>2. PICK t \in Requests : turn[t].bridge = b /\ Program(todo[reader(b)], t, b)
        BY <2>3, <3>1 DEF IInv, Programs
      <3>3. t # r
        BY <1>1, <3>2, SessionAssumption
      <3> QED
        BY <1>10, <3>1, <3>2, <3>3
    <2>4. ASSUME NEW t \in Requests
          PROVE  /\ Program(todo'[closer(t)], t, turn'[t].bridge)
                 /\ todo'[closer(t)] # << >> =>
                       life'[turn'[t].bridge] = "dead" /\ ~Tells(todo'[reader(turn'[t].bridge)], t)
      <3>1. CASE t = r
        <4>1. todo'[reader(r)] = << >> /\ turn'[r].bridge = r
          BY <1>1, <1>5, <1>8, <1>10, WorkerNames
        <4> QED
          BY <1>2, <1>5, <1>11, <3>1, <4>1, NothingToDo
      <3>2. CASE t # r
        <4>1. todo'[closer(t)] = todo[closer(t)] /\ turn'[t] = turn[t]
          BY <1>5, <1>10, <3>2, WorkerNames
        <4>2. Program(todo[closer(t)], t, turn[t].bridge)
          BY DEF IInv, Programs
        <4>3. ASSUME todo[closer(t)] # << >>
              PROVE  life'[turn[t].bridge] = "dead" /\ ~Tells(todo'[reader(turn[t].bridge)], t)
          <5>1. life[turn[t].bridge] = "dead" /\ ~Tells(todo[reader(turn[t].bridge)], t)
            BY <4>3 DEF IInv, Programs
          <5>2. turn[t].bridge \in Requests
            BY <1>9, <4>3 DEF IInv, Placed, PlacedAt, Turn
          <5> QED
            BY <1>5, <1>15, <5>1, <5>2, WorkerNames
        <4> QED
          BY <4>1, <4>2, <4>3
      <3> QED
        BY <3>1, <3>2
    <2>5. ASSUME NEW t \in Requests, todo'[watcher(t)] # << >>
          PROVE  CtxDone(t)' /\ Program(todo'[watcher(t)], t, turn'[t].bridge) /\ Mute(todo'[watcher(t)])
      <3>1. todo'[watcher(t)] = todo[watcher(t)] /\ t # r
        BY <1>1, <1>5, <2>5, WorkerNames
      <3>2. CtxDone(t) /\ Program(todo[watcher(t)], t, turn[t].bridge) /\ Mute(todo[watcher(t)])
        BY <2>5, <3>1 DEF IInv, Programs
      <3>3. CtxDone(t)'
        BY <1>6, <3>1, <3>2 DEF CtxDone, clients
      <3> QED
        BY <1>10, <3>1, <3>2, <3>3
    <2>6. ASSUME NEW b \in Requests, NEW t \in Requests, life'[b] = "dead", Tells(todo'[reader(b)], t)
          PROVE  pc'[t] \notin Early \cup {"swap"}
      <3>1. todo'[reader(b)] = todo[reader(b)]
        BY <1>5, WorkerNames
      <3>2. b # r
        BY <1>1, <2>6, <3>1, NothingToDo
      <3>3. pc[t] \notin Early \cup {"swap"}
        BY <1>11, <2>6, <3>1, <3>2 DEF IInv, Programs
      <3> QED
        BY <1>1, <1>6, <3>3
    <2> QED
      BY <1>5, <2>2, <2>3, <2>4, <2>5, <2>6 DEF Programs
  <1>19. Locked' /\ Endings'
    <2>1. gone' = gone
      BY DEF clients
    <2>2. \A u \in Requests : u # r => turn'[u] = turn[u] /\ pc'[u] = pc[u]
      BY <1>6, <1>10
    <2>3. /\ turn'[r].bridge = r /\ turn'[r].state = "open" /\ turn'[r].emitMu = None
          /\ turn'[r].ends = 0 /\ turn'[r].calls = {} /\ ~turn'[r].cancelled
      BY <1>8, <1>10
    <2> QED
      BY <1>1, <1>2, <1>5, <2>1, <2>2, <2>3, FreshEnds
  <1> QED
    BY <1>12, <1>16, <1>17, <1>18, <1>19 DEF IInv
\* A request with results takes over what the bridge says.
LEMMA SwapDataInv ==
    ASSUME IInv, NEW r \in Requests, SwapData(r), UNCHANGED limit
    PROVE  IInv'
  <1>1. pc[r] = "resume" /\ taken[r] # None /\ taken[r] \in Execs
    BY DEF SwapData, IInv, Placed, PlacedAt, Types, TurnTypes
  <1> PICK c \in Requests : c = BridgeOf(taken[r])
    BY <1>1 DEF Execs, BridgeOf
  <1> PICK streamed \in limit.streamed :
           turn' = [turn EXCEPT ![r] = [NewTurn EXCEPT !.bridge = c, !.stream = streamed]]
    BY DEF SwapData
  <1> DEFINE U == Fresh(c, streamed)
  <1>2. /\ pc[r] = "resume" /\ Goes(r, "swap")
        /\ onData' = [onData EXCEPT ![c] = r]
        /\ UNCHANGED <<sessions, life, ended, heart, onClose, server, ask, stored, taken, watching,
                       todo, clients, panicked>>
    BY DEF SwapData
  <1>3. /\ turn[r].bridge = None /\ life[r] = "none" /\ r # None
        /\ todo[closer(r)] = << >> /\ todo[watcher(r)] = << >> /\ r \notin watching
        /\ taken[r] # None /\ life[c] # "none" /\ pc[r] \in Early
    BY <1>2, SessionAssumption DEF IInv, Placed, PlacedAt, Early
  <1>4. c # None /\ c # r
    BY <1>3, SessionAssumption
  <1>5. /\ pc' \in [Requests -> Stages] /\ pc'[r] = "swap"
        /\ \A u \in Requests : u # r => pc'[u] = pc[u]
    BY <1>2, GoesTypes DEF Stages
  <1>6. streamed \in BOOLEAN
    BY SessionAssumption DEF IInv, Types, SessionTypes
  <1>7. /\ U \in Turn /\ U.bridge = c /\ U.state = "open" /\ U.emitMu = None /\ U.ends = 0
        /\ U.calls = {} /\ ~U.cancelled /\ Len(U.out) = 0
    BY <1>6, NewTurnFields
  <1> HIDE DEF U
  <1>8. turn \in [Requests -> Turn] /\ onData \in [Requests -> Requests \cup {None}]
    BY DEF IInv, Types, TurnTypes, BridgeTypes
  <1>9. /\ turn' \in [Requests -> Turn] /\ turn'[r] = U
        /\ \A u \in Requests : u # r => turn'[u] = turn[u]
    BY <1>7, <1>8, TurnSet DEF U, Fresh
  <1>10. /\ onData' \in [Requests -> Requests \cup {None}] /\ onData'[c] = r
         /\ \A b \in Requests : b # c => onData'[b] = onData[b]
    BY <1>2, <1>4, <1>8
  <1>11. Types'
    <2>1. ASSUME NEW u \in Requests, turn'[u].stream PROVE Len(turn'[u].out) <= Capacity
      <3>1. turn[u].stream => Len(turn[u].out) <= Capacity
        BY DEF IInv, Types, TurnTypes
      <3>2. CASE u = r
        <4>1. Len(turn'[u].out) = 0
          BY <1>7, <1>9, <3>2
        <4>2. 0 <= Capacity
          BY SessionAssumption
        <4> QED
          BY <4>1, <4>2
      <3>3. CASE u # r
        BY <1>9, <2>1, <3>1, <3>3
      <3> QED
        BY <3>2, <3>3
    <2>2. SessionTypes'
      BY <1>2 DEF IInv, Types, SessionTypes, sessions, server, clients
    <2>3. BridgeTypes'
      BY <1>2, <1>10 DEF IInv, Types, BridgeTypes, server
    <2>4. TurnTypes'
      BY <1>2, <1>5, <1>9, <2>1 DEF IInv, Types, TurnTypes, clients
    <2> QED
      BY <1>2, <2>2, <2>3, <2>4 DEF IInv, Types
  <1>12. Placed'
    <2>1. ASSUME NEW u \in Requests, u # r PROVE PlacedAt(u)'
      <3>1. PlacedAt(u)
        BY DEF IInv, Placed
      <3>2. turn'[u] = turn[u] /\ pc'[u] = pc[u]
        BY <1>5, <1>9, <2>1
      <3> QED
        BY <1>2, <3>1, <3>2 DEF PlacedAt
    <2>2. pc'[r] = "swap" /\ turn'[r].bridge = c /\ "swap" \notin Early
      BY <1>5, <1>7, <1>9 DEF Early
    <2>3. taken' = taken /\ life' = life /\ watching' = watching /\ todo' = todo
      BY <1>2
    <2>4. PlacedAt(r)'
      BY <1>3, <1>4, <2>2, <2>3 DEF PlacedAt
    <2> QED
      BY <2>1, <2>4 DEF Placed
  <1>13. Wired'
    <2>1. ASSUME NEW b \in Requests, life[b] # "none"
          PROVE  /\ turn'[b].bridge = b
                 /\ onData'[b] # None /\ turn'[onData'[b]].bridge = b
                 /\ onClose[b] # None /\ turn'[onClose[b]].bridge = b
                 /\ pc'[onClose[b]] \notin Early \cup {"swap"}
      <3>1. /\ turn[b].bridge = b
            /\ onData[b] # None /\ turn[onData[b]].bridge = b
            /\ onClose[b] # None /\ turn[onClose[b]].bridge = b
            /\ pc[onClose[b]] \notin Early \cup {"swap"}
        BY <2>1 DEF IInv, Wired
      <3>2. b # None /\ b # r /\ onData[b] \in Requests /\ onClose[b] \in Requests
        BY <1>3, <2>1, <3>1, SessionAssumption DEF IInv, Types, BridgeTypes
      <3>3. onData[b] # r /\ onClose[b] # r
        BY <1>3, <3>1, <3>2
      <3>4. /\ turn'[b] = turn[b] /\ turn'[onData[b]] = turn[onData[b]]
            /\ turn'[onClose[b]] = turn[onClose[b]] /\ pc'[onClose[b]] = pc[onClose[b]]
        BY <1>5, <1>9, <3>2, <3>3
      <3>5. onData'[b] # None /\ turn'[onData'[b]].bridge = b
        <4>1. CASE b = c
          BY <1>3, <1>7, <1>9, <1>10, <4>1
        <4>2. CASE b # c
          BY <1>10, <3>1, <3>4, <4>2
        <4> QED
          BY <4>1, <4>2
      <3> QED
        BY <3>1, <3>4, <3>5
    <2>2. ASSUME NEW t \in Requests, turn'[t].bridge # None PROVE life[turn'[t].bridge] # "none"
      <3>1. CASE t = r
        BY <1>3, <1>7, <1>9, <3>1
      <3>2. CASE t # r
        BY <1>9, <2>2, <3>2 DEF IInv, Wired
      <3> QED
        BY <3>1, <3>2
    <2>3. /\ \A b \in Requests : life[b] = "none" => todo[reader(b)] = << >>
          /\ active # None => life[BridgeOf(active)] # "none"
      BY DEF IInv, Wired
    <2>4. life' = life /\ todo' = todo /\ onClose' = onClose /\ active' = active
      BY <1>2 DEF sessions
    <2> QED
      BY <2>1, <2>2, <2>3, <2>4 DEF Wired
  <1>14. Programs'
    <2>1. Based \subseteq Based'
      BY <1>3, <1>9 DEF Based
    <2>2. todo' = todo /\ life' = life /\ gone' = gone
      BY <1>2 DEF clients
    <2>3. \A p \in Procs : About(todo[p], Based')
      BY <2>1 DEF IInv, Programs, About
    <2>4. ASSUME NEW b \in Requests, todo[reader(b)] # << >>
          PROVE  \E t \in Requests : turn'[t].bridge = b /\ Program(todo[reader(b)], t, b)
      <3>1. PICK t \in Requests : turn[t].bridge = b /\ Program(todo[reader(b)], t, b)
        BY <2>4 DEF IInv, Programs
      <3>2. t # r
        BY <1>3, <3>1, SessionAssumption
      <3> QED
        BY <1>9, <3>1, <3>2
    <2>5. ASSUME NEW t \in Requests
          PROVE  /\ Program(todo[closer(t)], t, turn'[t].bridge)
                 /\ todo[closer(t)] # << >> =>
                       life[turn'[t].bridge] = "dead" /\ ~Tells(todo[reader(turn'[t].bridge)], t)
                 /\ todo[watcher(t)] # << >> =>
                       /\ CtxDone(t)' /\ Mute(todo[watcher(t)])
                       /\ Program(todo[watcher(t)], t, turn'[t].bridge)
      <3>1. CASE t = r
        BY <1>3, <3>1, NothingToDo
      <3>2. CASE t # r
        <4>1. turn'[t] = turn[t] /\ (CtxDone(t) => CtxDone(t)')
          BY <1>5, <1>9, <2>2, <3>2 DEF CtxDone
        <4> QED
          BY <4>1 DEF IInv, Programs
      <3> QED
        BY <3>1, <3>2
    <2>6. ASSUME NEW b \in Requests, NEW t \in Requests, life[b] = "dead", Tells(todo[reader(b)], t)
          PROVE  pc'[t] \notin Early \cup {"swap"}
      <3>1. pc[t] \notin Early \cup {"swap"}
        BY <2>6 DEF IInv, Programs
      <3> QED
        BY <1>3, <1>5, <3>1
    <2>7. \A u \in Requests : HeartOnly(todo[main(u)])
      BY DEF IInv, Programs
    <2> QED
      BY <2>2, <2>3, <2>4, <2>5, <2>6, <2>7 DEF Programs
  <1>15. Locked' /\ Endings'
    <2>1. gone' = gone /\ todo' = todo
      BY <1>2 DEF clients
    <2>2. \A u \in Requests : u # r => turn'[u] = turn[u] /\ pc'[u] = pc[u]
      BY <1>5, <1>9
    <2>3. /\ turn'[r].bridge = c /\ turn'[r].state = "open" /\ turn'[r].emitMu = None
          /\ turn'[r].ends = 0 /\ turn'[r].calls = {} /\ ~turn'[r].cancelled
      BY <1>7, <1>9
    <2>4. /\ << >> \in Seq(Instr) /\ Program(<< >>, r, c) /\ \A u : ~OnlyFinish(<< >>, u)
      BY NothingToDo
    <2>5. todo'[closer(r)] = << >> /\ \A w \in Procs : w # closer(r) => todo'[w] = todo[w]
      BY <1>3, <2>1
    <2> QED
      BY <1>3, <1>4, <2>1, <2>2, <2>3, <2>4, <2>5, FreshEnds
  <1> QED
    BY <1>11, <1>12, <1>13, <1>14, <1>15 DEF IInv

\* A request with results takes over the end of the bridge, which may have come.
LEMMA SwapCloseInv ==
    ASSUME IInv, NEW r \in Requests, SwapClose(r), UNCHANGED limit
    PROVE  IInv'
  <1> DEFINE c == BridgeOf(taken[r])
             q == IF life[c] = "dead" THEN OnClosed(r, "err") ELSE << >>
  <1>1. /\ pc[r] = "swap" /\ Goes(r, "sending")
        /\ onClose' = [onClose EXCEPT ![c] = r] /\ watching' = watching \cup {r}
        /\ todo' = IF life[c] = "dead" THEN [todo EXCEPT ![closer(r)] = OnClosed(r, "err")] ELSE todo
        /\ UNCHANGED <<sessions, life, ended, heart, onData, server, ask, stored, taken, turn,
                       clients, panicked>>
    BY DEF SwapClose, closer
  <1>2. /\ turn[r].bridge = c
        /\ todo[closer(r)] = << >> /\ todo[watcher(r)] = << >> /\ r \notin watching
        /\ taken[r] # None /\ life[c] # "none"
    BY <1>1 DEF IInv, Placed, PlacedAt
  <1>3. c \in Requests /\ c # None /\ r # None
    <2>1. taken[r] \in Execs
      BY <1>2 DEF IInv, Types, TurnTypes
    <2> QED
      BY <2>1, SessionAssumption DEF Execs, BridgeOf
  <1>4. /\ q \in Seq(Instr) /\ Program(q, r, c)
        /\ \A u : ~OnlyFinish(q, u)
        /\ \A T : r \in T => About(q, T)
        /\ q # << >> => life[c] = "dead"
    <2>1. CASE life[c] = "dead"
      <3>1. "err" \in Codes
        BY DEF Codes
      <3> QED
        BY <2>1, <3>1, ClosedProgram
    <2>2. CASE life[c] # "dead"
      BY <2>2, NothingToDo
    <2> QED
      BY <2>1, <2>2
  <1>5. todo \in [Procs -> Seq(Instr)] /\ closer(r) \in Procs /\ closer(r) \in Workers
    BY WorkerNames DEF IInv, Types, TurnTypes
  <1>6. todo' = [todo EXCEPT ![closer(r)] = q]
    BY <1>1, <1>2, <1>5
  <1> HIDE DEF q, c
  <1>7. /\ todo' \in [Procs -> Seq(Instr)] /\ todo'[closer(r)] = q
        /\ \A w \in Procs : w # closer(r) => todo'[w] = todo[w] /\ Kept(w)
        /\ \A T : Based \subseteq T /\ About(q, T) => \A w \in Procs : About(todo'[w], T)
        /\ \A u \in Requests : HeartOnly(todo'[main(u)])
    BY <1>2, <1>4, <1>5, <1>6, NewProgram
  <1>8. /\ pc' \in [Requests -> Stages] /\ pc'[r] = "sending"
        /\ \A u \in Requests : u # r => pc'[u] = pc[u]
    BY <1>1, GoesTypes DEF Stages
  <1>9. /\ onClose' \in [Requests -> Requests \cup {None}] /\ onClose'[c] = r
        /\ \A b \in Requests : b # c => onClose'[b] = onClose[b]
    BY <1>1, <1>3 DEF IInv, Types, BridgeTypes
  <1>10. \A u \in Requests : /\ todo'[reader(u)] = todo[reader(u)]
                             /\ todo'[watcher(u)] = todo[watcher(u)]
                             /\ u # r => todo'[closer(u)] = todo[closer(u)]
    BY <1>7, WorkerNames
  <1>11. "sending" \notin Early /\ "swap" # "sending"
    BY DEF Early
  <1>12. \A u \in Requests : pc'[u] \in Early \cup {"swap"} => pc'[u] = pc[u] /\ u # r
    BY <1>8, <1>11
  <1>13. Types'
    <2>1. SessionTypes'
      BY <1>1 DEF IInv, Types, SessionTypes, sessions, server, clients
    <2>2. BridgeTypes'
      BY <1>1, <1>9 DEF IInv, Types, BridgeTypes, server
    <2>3. TurnTypes'
      BY <1>1, <1>7, <1>8 DEF IInv, Types, TurnTypes, clients
    <2> QED
      BY <1>1, <2>1, <2>2, <2>3 DEF IInv, Types
  <1>14. turn' = turn /\ life' = life /\ taken' = taken /\ stored' = stored /\ gone' = gone
         /\ active' = active /\ onData' = onData
    BY <1>1 DEF clients, sessions
  <1>15. Placed'
    <2>1. ASSUME NEW u \in Requests, u # r PROVE PlacedAt(u)'
      <3>1. PlacedAt(u)
        BY DEF IInv, Placed
      <3>2. pc'[u] = pc[u] /\ (u \in watching' <=> u \in watching)
        BY <1>1, <1>8, <2>1
      <3> QED
        BY <1>10, <1>14, <2>1, <3>1, <3>2 DEF PlacedAt
    <2>2. PlacedAt(r)'
      BY <1>2, <1>3, <1>8, <1>10, <1>11, <1>14 DEF PlacedAt, c
    <2> QED
      BY <2>1, <2>2 DEF Placed
  <1>16. Wired'
    <2>1. ASSUME NEW b \in Requests, life[b] # "none"
          PROVE  /\ turn[b].bridge = b
                 /\ onData[b] # None /\ turn[onData[b]].bridge = b
                 /\ onClose'[b] # None /\ turn[onClose'[b]].bridge = b
                 /\ pc'[onClose'[b]] \notin Early \cup {"swap"}
      <3>1. /\ turn[b].bridge = b
            /\ onData[b] # None /\ turn[onData[b]].bridge = b
            /\ onClose[b] # None /\ turn[onClose[b]].bridge = b
            /\ pc[onClose[b]] \notin Early \cup {"swap"}
        BY <2>1 DEF IInv, Wired
      <3>2. onClose[b] \in Requests
        BY <3>1 DEF IInv, Types, BridgeTypes
      <3>3. CASE b = c
        BY <1>2, <1>3, <1>8, <1>9, <1>11, <3>1, <3>3
      <3>4. CASE b # c
        BY <1>9, <1>12, <3>1, <3>2, <3>4
      <3> QED
        BY <3>3, <3>4
    <2>2. /\ \A b \in Requests : life[b] = "none" => todo[reader(b)] = << >>
          /\ \A t \in Requests : turn[t].bridge # None => life[turn[t].bridge] # "none"
          /\ active # None => life[BridgeOf(active)] # "none"
      BY DEF IInv, Wired
    <2> QED
      BY <1>10, <1>14, <2>1, <2>2 DEF Wired
  <1>17. Programs'
    <2>1. Based' = Based /\ r \in Based
      BY <1>2, <1>3, <1>14 DEF Based
    <2>2. \A p \in Procs : About(todo'[p], Based')
      BY <1>4, <1>7, <2>1
    <2>3. \A b \in Requests : todo[reader(b)] # << >> =>
             \E t \in Requests : turn[t].bridge = b /\ Program(todo[reader(b)], t, b)
      BY DEF IInv, Programs
    <2>4. ASSUME NEW t \in Requests
          PROVE  /\ Program(todo'[closer(t)], t, turn[t].bridge)
                 /\ todo'[closer(t)] # << >> =>
                       /\ life[turn[t].bridge] = "dead" /\ ~Tells(todo[reader(turn[t].bridge)], t)
                       /\ turn[t].bridge \in Requests
      <3>1. CASE t = r
        <4>1. life[c] = "dead" => ~Tells(todo[reader(c)], r)
          BY <1>1, <1>3 DEF IInv, Programs
        <4> QED
          BY <1>2, <1>3, <1>4, <1>7, <3>1, <4>1
      <3>2. CASE t # r
        <4>1. todo[closer(t)] # << >> => turn[t].bridge \in Requests
          BY DEF IInv, Placed, PlacedAt, Types, TurnTypes, Turn
        <4> QED
          BY <1>10, <3>2, <4>1 DEF IInv, Programs
      <3> QED
        BY <3>1, <3>2
    <2>5. ASSUME NEW t \in Requests, todo[watcher(t)] # << >>
          PROVE  CtxDone(t)' /\ Program(todo[watcher(t)], t, turn[t].bridge) /\ Mute(todo[watcher(t)])
      <3>1. CtxDone(t) /\ Program(todo[watcher(t)], t, turn[t].bridge) /\ Mute(todo[watcher(t)])
        BY <2>5 DEF IInv, Programs
      <3>2. t # r
        BY <1>2, <2>5
      <3> QED
        BY <1>8, <1>14, <3>1, <3>2 DEF CtxDone
    <2>6. ASSUME NEW b \in Requests, NEW t \in Requests, life[b] = "dead", Tells(todo[reader(b)], t)
          PROVE  pc'[t] \notin Early \cup {"swap"}
      <3>1. pc[t] \notin Early \cup {"swap"}
        BY <2>6 DEF IInv, Programs
      <3> QED
        BY <1>12, <3>1
    <2> QED
      BY <1>7, <1>10, <1>14, <2>2, <2>3, <2>4, <2>5, <2>6 DEF Programs
  <1>18. Locked' /\ Endings'
    <2>1. ~OnlyFinish(todo[closer(r)], r) /\ ~OnlyFinish(q, r) /\ Program(todo[closer(r)], r, c)
      BY <1>2, <1>4, NothingToDo
    <2>2. \A u \in Requests : CtxDone(u) => CtxDone(u)'
      BY <1>1, <1>8, <1>14 DEF CtxDone
    <2>3. \A u \in Requests \ {r} : LockedAt(u)' /\ EndsAt(u)'
      BY <1>4, <1>5, <1>7, <1>14, <2>1, <2>2, OthersOn
    <2>4. LockedAt(r) /\ EndsAt(r) /\ turn[r] \in Turn
      BY DEF IInv, Locked, Endings, Types, TurnTypes
    <2>5. LockedAt(r)'
      <3>1. turn[r].emitMu # None => turn[r].emitMu \in Procs /\ turn[r].emitMu # closer(r)
        BY <1>2, <2>4 DEF LockedAt, Turn
      <3> QED
        BY <1>7, <1>14, <2>4, <3>1 DEF LockedAt
    <2>6. EndsAt(r)'
      <3>1. /\ turn'[r] = turn[r] /\ turn[r].bridge = c /\ todo'[reader(c)] = todo[reader(c)]
        BY <1>2, <1>3, <1>10, <1>14
      <3>2. ASSUME NEW w \in Procs, OnlyFinish(todo'[w], r) PROVE OnlyFinish(todo[w], r)
        BY <1>7, <2>1, <3>2
      <3>3. turn[r].ends = 1 /\ Live(r) => OnlyFinish(todo[reader(c)], r)
        BY <1>2, <2>1, <2>4 DEF EndsAt
      <3> QED
        BY <1>3, <2>2, <2>4, <3>1, <3>2, <3>3 DEF EndsAt, Live
    <2>7. \A u \in Requests : LockedAt(u)' /\ EndsAt(u)'
      BY <2>3, <2>5, <2>6
    <2> QED
      BY <2>7 DEF Locked, Endings
  <1> QED
    BY <1>13, <1>15, <1>16, <1>17, <1>18 DEF IInv
--------------------------------------------------------------------------------
(* The specification.                                                          *)

\* The invariant holds in the beginning: nobody has anything to do.
LEMMA InitInv ==
    ASSUME Init
    PROVE  IInv
  <1>1. NoEntry \in Entry
    BY DEF NoEntry, Entry
  <1>2. NewTurn \in Turn /\ NewTurn.bridge = None /\ NewTurn.state = "open" /\ NewTurn.ends = 0
        /\ NewTurn.emitMu = None /\ NewTurn.calls = {} /\ ~NewTurn.cancelled /\ ~NewTurn.stream
    <2> DEFINE e == << >>
    <2>1. e \in Seq(Chunk)
      BY EmptySeq
    <2>2. NewTurn = [bridge |-> None, stream |-> FALSE, out |-> e, state |-> "open", by |-> None,
                     emitMu |-> None, calls |-> {}, turnEnded |-> FALSE, terminal |-> FALSE,
                     cancelled |-> FALSE, latest |-> {}, ends |-> 0]
      BY DEF NewTurn
    <2> HIDE DEF e
    <2> QED
      BY <2>1, <2>2 DEF Turn
  <1>3. /\ \A t \in Requests : turn[t] = NewTurn /\ pc[t] = "new" /\ life[t] = "none"
                                  /\ taken[t] = None /\ onData[t] = None /\ onClose[t] = None
        /\ \A p \in Procs : todo[p] = << >>
        /\ turn \in [Requests -> Turn] /\ todo \in [Procs -> Seq(Instr)]
        /\ watching = {} /\ gone = {} /\ active = None
    <2>1. << >> \in Seq(Instr)
      BY NothingToDo
    <2> QED
      BY <1>2, <2>1 DEF Init
  <1>4. Types
    <2>1. SessionTypes
      BY <1>1 DEF Init, SessionTypes
    <2>2. BridgeTypes
      <3>1. limit.frames \in [Requests -> Nat]
        BY SessionAssumption DEF Init
      <3>2. frames = [b \in Requests |-> 0] /\ asked = [b \in Requests |-> 0] /\ MaxExecs \in Nat
        BY SessionAssumption DEF Init
      <3>3. /\ frames \in [Requests -> Nat] /\ asked \in [Requests -> 0 .. MaxExecs]
            /\ \A b \in Requests : frames[b] <= limit.frames[b]
        BY <3>1, <3>2
      <3> QED
        BY <3>3 DEF Init, BridgeTypes
    <2>3. TurnTypes
      <3>1. pc \in [Requests -> Stages]
        BY DEF Init, Stages, Early
      <3>2. ask \in [Requests -> SUBSET Execs] /\ taken \in [Requests -> Execs \cup {None}]
        BY DEF Init
      <3> QED
        BY <1>2, <1>3, <3>1, <3>2 DEF TurnTypes
    <2> QED
      BY <2>1, <2>2, <2>3 DEF Types, Init
  <1>5. Placed
    <2>1. "new" \notin {"taken", "relock", "resume", "swap", "sending", "prepare", "build"}
      OBVIOUS
    <2> QED
      BY <1>2, <1>3, <2>1, WorkerNames DEF Placed, PlacedAt
  <1>6. Wired
    BY <1>2, <1>3, WorkerNames DEF Wired
  <1>7. Programs
    <2>1. \A r \in Requests : /\ todo[main(r)] = << >> /\ todo[reader(r)] = << >>
                              /\ todo[closer(r)] = << >> /\ todo[watcher(r)] = << >>
      BY <1>3, WorkerNames
    <2> QED
      BY <1>3, <2>1, NothingToDo DEF Programs
  <1>8. Locked
    BY <1>2, <1>3 DEF Locked, LockedAt
  <1>9. Endings
    BY <1>2, <1>3, NothingToDo DEF Endings, EndsAt
  <1> QED
    BY <1>4, <1>5, <1>6, <1>7, <1>8, <1>9 DEF IInv

\* A request that opens a bridge, or none.
LEMMA OpenInv ==
    ASSUME IInv, NEW r \in Requests, Open(r), UNCHANGED limit
    PROVE  IInv'
  <1>1. CASE Goes(r, "over") /\ UNCHANGED <<bridges, turn, watching, todo>>
    BY <1>1, OpenOverInv DEF Open
  <1>2. ASSUME NEW l \in {"alive", "dead"}, NEW streamed \in limit.streamed,
               life' = [life EXCEPT ![r] = l], heart' = [heart EXCEPT ![r] = "on"],
               onData' = [onData EXCEPT ![r] = r], onClose' = [onClose EXCEPT ![r] = r],
               turn' = [turn EXCEPT ![r] = [NewTurn EXCEPT !.bridge = r, !.stream = streamed]],
               todo' = IF l = "dead"
                        THEN [todo EXCEPT ![<<"closer", r>>] = OnClosedFirst(r, "err")] ELSE todo,
               watching' = watching \cup {r}, Goes(r, "running"), UNCHANGED ended
        PROVE  IInv'
    <2>1. /\ pc[r] = "open" /\ UNCHANGED <<limit, ended>>
          /\ UNCHANGED <<sessions, server, ask, stored, taken, clients, panicked>>
      BY <1>2 DEF Open
    <2>2. todo' = IF l = "dead" THEN [todo EXCEPT ![closer(r)] = OnClosedFirst(r, "err")] ELSE todo
      BY <1>2 DEF closer
    <2> QED
      BY <1>2, <2>1, <2>2, OpenBridgeInv
  <1> QED
    BY <1>1, <1>2 DEF Open

\* What a request does goes on.
LEMMA RunChatInv ==
    ASSUME IInv, NEW r \in Requests, RunChat(r), UNCHANGED limit
    PROVE  IInv'
  BY CleanedInv, TakenInv, PrepareInv, BuildInv, OpenInv, StillPendingInv, SwapDataInv,
     SwapCloseInv, SendResultsInv DEF RunChat

\* Every step keeps the invariant.
LEMMA NextInv ==
    ASSUME IInv, [Next]_vars
    PROVE  IInv'
  <1>1. CASE UNCHANGED vars
    <2>1. UNCHANGED <<limit, sessions, bridges, server, requests, turn, watching, todo, clients, panicked>>
      BY <1>1 DEF vars
    <2>2. Onward /\ Quietly /\ todo' \in [Procs -> Seq(Instr)]
      BY <2>1, StillOnward, StillQuiet DEF bridges
    <2>3. Types'
      <3>1. known' \subseteq Execs
        BY <2>1 DEF clients, IInv, Types, SessionTypes
      <3>2. turn' \in [Requests -> Turn] /\ \A t \in Requests : turn'[t].stream => Len(turn'[t].out) <= Capacity
        BY <2>1 DEF IInv, Types, TurnTypes
      <3> QED
        BY <2>1, <2>2, <3>1, <3>2, TurnStepTypes DEF clients
    <2>4. Moves
      BY <2>1, StaysPut DEF bridges, requests, sessions, clients
    <2>5. SameEnds
      BY <2>1 DEF SameEnds
    <2> QED
      BY <2>2, <2>3, <2>4, <2>5, QuietInv
  <1>2. CASE Next
    <2>1. UNCHANGED limit
      BY <1>2 DEF Next
    <2>2. CASE Goroutines
      BY <2>1, <2>2, StepInv, RunChatInv, LeaveInv, WatchCtxInv, ReceiveInv, AnswerInv DEF Goroutines
    <2>3. CASE Environment
      BY <2>1, <2>3, EnterInv, LeaveInv, DeliverInv, CloseInv DEF Environment
    <2> QED
      BY <1>2, <2>2, <2>3 DEF Next
  <1> QED
    BY <1>1, <1>2

\* The inductive invariant: who may still speak on a stream, and who ends it.
THEOREM Invariance == Spec => []IInv
  <1>1. Init => IInv
    BY InitInv
  <1>2. IInv /\ [Next]_vars => IInv'
    BY NextInv
  <1> QED
    BY <1>1, <1>2, PTL DEF Spec

\* Every variable keeps its type, and a channel never holds more than its capacity.
THEOREM TypeCorrect == Spec => []TypeOK
  <1>1. IInv => TypeOK
    <2> SUFFICES ASSUME IInv PROVE TypeOK
      OBVIOUS
    <2>1. SessionTypes /\ BridgeTypes /\ TurnTypes /\ panicked \in {"no", "close"}
      BY DEF IInv, Types
    <2>2. ASSUME NEW o \in Requests
          PROVE  /\ entry[o].id \in Requests \cup {None}
                 /\ entry[o].checkpoint \in Requests \cup {None}
                 /\ entry[o].blobs \cup blobs[o] \subseteq Requests \X Nat
      BY <2>1 DEF SessionTypes, Entry, Blobs
    <2>3. ASSUME NEW b \in Requests PROVE asked[b] <= MaxExecs /\ frames[b] <= limit.frames[b]
      <3>1. asked[b] \in 0 .. MaxExecs
        BY <2>1 DEF BridgeTypes
      <3> QED
        BY <2>1, <3>1, SessionAssumption DEF BridgeTypes
    <2>4. ASSUME NEW x \in Execs PROVE BridgeOf(x) \in Requests /\ sent[x] \in Nat
      BY <2>1 DEF SessionTypes, BridgeOf, Execs
    <2>5. ASSUME NEW t \in Requests
          PROVE  /\ turn[t].state \in {"open", "closing", "closed"}
                 /\ turn[t].stream => Len(turn[t].out) <= Capacity
                 /\ turn[t].emitMu \in Procs \cup {None}
      BY <2>1 DEF TurnTypes, Turn
    <2> QED
      BY <2>1, <2>2, <2>3, <2>4, <2>5 DEF TypeOK, SessionTypes, BridgeTypes, TurnTypes
  <1> QED
    BY <1>1, Invariance, PTL

\* emit never sends on the channel that finish has closed: who waits there with emitMu in
\* hand keeps finish from closing it, and nobody comes to wait behind it.
THEOREM NoSendOnClosedAlways == Spec => []NoSendOnClosed
  <1>1. IInv => NoSendOnClosed
    BY DEF IInv, Types, NoSendOnClosed
  <1> QED
    BY <1>1, Invariance, PTL

\* A stream says how it ended at most once, and one that is over while its request still
\* waits for it has said so.
THEOREM OneEndingAlways == Spec => []OneEnding
  <1>1. IInv => OneEnding
    <2> SUFFICES ASSUME IInv, NEW t \in Requests
                 PROVE  /\ turn[t].ends <= 1
                        /\ turn[t].state = "closed" /\ pc[t] = "running" /\ t \notin gone
                              => turn[t].ends = 1
      BY DEF OneEnding
    <2>1. EndsAt(t)
      BY DEF IInv, Endings
    <2> QED
      BY <2>1 DEF EndsAt, CtxDone
  <1> QED
    BY <1>1, Invariance, PTL
================================================================================
