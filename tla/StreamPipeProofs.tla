---------------------------- MODULE StreamPipeProofs ----------------------------
(* Proofs about StreamPipe: no line is lost or doubled, a chat gets one [DONE],  *)
(* and the usage event tells how the answer ended, for any number of events,     *)
(* lines and slots and however the goroutines are scheduled.                     *)
EXTENDS StreamPipe, SequenceTheorems, TLAPS

USE DEF vars, upstream, channels, state, pumping, serving

\* A line is in the pump's hands or in the handler's only while they send and write.
HandsEmpty ==
    /\ pump \in {"range", "record", "closed"} => lines = << >>
    /\ handler # "write" => line = << >>

\* Behind the range nothing is left upstream, the usage event is written between the
\* last line and the close, and StreamSSE outlives them as long as its client reads.
Phases ==
    /\ ~route.relayed => relayed = << >>
    /\ pump \in {"tail", "record", "closed"} =>
          body = "ended" /\ parsed = << >> /\ relayed = << >>
    /\ metered # "none" <=> pump \in {"record", "closed"}
    /\ metered = "ok" => finished /\ ~failed
    /\ handler = "returned" /\ client = "reading" => pump = "closed"

\* What StreamState knows of the events so far; an event of the provider that reported
\* an error was received, or is still in a channel.
Heard ==
    /\ finished => Contains(said, "final") /\ route.form # "identity"
    /\ route.form = "identity" \/ failed \/
          \A e \in 1 .. Len(said) :
             said[e] = "failed" => e \in ToSet(parsed) \cup ToSet(relayed)

Single(s) == \A i, j \in DOMAIN s : s[i] = Done /\ s[j] = Done => i = j

\* sentDone says whether [DONE] was made in the range; the tail makes up for it.
DoneOnce ==
    /\ Single(made)
    /\ sentDone => finished /\ route.form = "chat"
    /\ IF pump \in {"range", "send"}
         THEN Done \in ToSet(made) <=> sentDone
         ELSE Done \in ToSet(made) <=> route.form = "chat"

IInv == TypeOK /\ HandsEmpty /\ Phases /\ Heard /\ DoneOnce /\ NothingLost

--------------------------------------------------------------------------------
(* Sequences.                                                              *)

\* A sequence that is not empty is its head and its tail.
LEMMA HeadAndTail ==
    ASSUME NEW S, NEW s \in Seq(S), s # << >>
    PROVE  /\ Head(s) \in S /\ Tail(s) \in Seq(S)
           /\ s = <<Head(s)>> \o Tail(s)
           /\ ToSet(s) = {Head(s)} \cup ToSet(Tail(s))
           /\ Len(Tail(s)) = Len(s) - 1
  <1>1. /\ Head(s) \in S /\ Tail(s) \in Seq(S) /\ Len(Tail(s)) = Len(s) - 1
        /\ \A i \in 1 .. Len(Tail(s)) : Tail(s)[i] = s[i + 1]
    BY HeadTailProperties
  <1>2. Len(s) \in Nat \ {0} /\ Head(s) = s[1]
    BY EmptySeq
  <1>3. s = <<Head(s)>> \o Tail(s)
    <2>1. <<Head(s)>> \in Seq(S) /\ Len(<<Head(s)>>) = 1 /\ <<Head(s)>>[1] = Head(s)
      BY <1>1
    <2>2. /\ <<Head(s)>> \o Tail(s) \in Seq(S)
          /\ Len(<<Head(s)>> \o Tail(s)) = 1 + Len(Tail(s))
          /\ \A i \in 1 .. 1 + Len(Tail(s)) : (<<Head(s)>> \o Tail(s))[i] =
                IF i <= 1 THEN <<Head(s)>>[i] ELSE Tail(s)[i - 1]
      BY <1>1, <2>1, ConcatProperties
    <2>3. \A i \in 1 .. Len(s) : s[i] = (<<Head(s)>> \o Tail(s))[i]
      BY <1>1, <1>2, <2>1, <2>2
    <2> QED
      BY <1>1, <1>2, <2>2, <2>3, SeqEqual
  <1>4. ToSet(s) = {Head(s)} \cup ToSet(Tail(s))
    <2>1. DOMAIN s = 1 .. Len(s) /\ DOMAIN Tail(s) = 1 .. Len(s) - 1
      BY <1>1, LenProperties
    <2>2. ToSet(s) \subseteq {Head(s)} \cup ToSet(Tail(s))
      <3> SUFFICES ASSUME NEW i \in 1 .. Len(s) PROVE s[i] \in {Head(s)} \cup ToSet(Tail(s))
        BY <2>1 DEF ToSet
      <3>1. CASE i = 1
        BY <3>1, <1>2
      <3>2. CASE i # 1
        <4>1. i - 1 \in DOMAIN Tail(s) /\ s[i] = Tail(s)[i - 1]
          BY <3>2, <1>1, <1>2, <2>1
        <4> QED
          BY <4>1 DEF ToSet
      <3> QED
        BY <3>1, <3>2
    <2>3. Head(s) \in ToSet(s)
      BY <1>2, <2>1 DEF ToSet
    <2>4. ToSet(Tail(s)) \subseteq ToSet(s)
      <3> SUFFICES ASSUME NEW i \in 1 .. Len(s) - 1 PROVE Tail(s)[i] \in ToSet(s)
        BY <2>1 DEF ToSet
      <3>1. i + 1 \in DOMAIN s /\ Tail(s)[i] = s[i + 1]
        BY <1>1, <1>2, <2>1
      <3> QED
        BY <3>1 DEF ToSet
    <2> QED
      BY <2>2, <2>3, <2>4
  <1> QED
    BY <1>1, <1>3, <1>4

\* What a sequence has when an element is appended.
LEMMA AppendedSet ==
    ASSUME NEW S, NEW s \in Seq(S), NEW e \in S
    PROVE  /\ Append(s, e) \in Seq(S) /\ Len(Append(s, e)) = Len(s) + 1
           /\ ToSet(Append(s, e)) = ToSet(s) \cup {e}
  <1>1. /\ Append(s, e) \in Seq(S) /\ Len(Append(s, e)) = Len(s) + 1
        /\ \A i \in 1 .. Len(s) : Append(s, e)[i] = s[i]
        /\ Append(s, e)[Len(s) + 1] = e
    BY AppendProperties
  <1>2. ToSet(Append(s, e)) = ToSet(s) \cup {e}
    BY <1>1, LenProperties DEF ToSet
  <1> QED
    BY <1>1, <1>2

\* What two sequences have one behind the other.
LEMMA ConcatSet ==
    ASSUME NEW S, NEW s \in Seq(S), NEW t \in Seq(S)
    PROVE  s \o t \in Seq(S) /\ ToSet(s \o t) = ToSet(s) \cup ToSet(t)
  <1>1. ToSet(s \o t) = Range(s \o t) /\ ToSet(s) = Range(s) /\ ToSet(t) = Range(t)
    BY DEF ToSet, Range
  <1> QED
    BY <1>1, ConcatProperties, RangeConcatenation

\* [DONE] is single in two sequences together when it is in each and one has none.
LEMMA ConcatSingle ==
    ASSUME NEW s \in Seq(Line), NEW t \in Seq(Line), Single(s), Single(t),
           Done \notin ToSet(s) \/ Done \notin ToSet(t)
    PROVE  Single(s \o t)
  <1> DEFINE st == s \o t
  <1>1. /\ st \in Seq(Line) /\ Len(st) = Len(s) + Len(t)
        /\ \A i \in 1 .. Len(s) + Len(t) :
              st[i] = IF i <= Len(s) THEN s[i] ELSE t[i - Len(s)]
    BY ConcatProperties
  <1>2. /\ Len(s) \in Nat /\ Len(t) \in Nat
        /\ DOMAIN s = 1 .. Len(s) /\ DOMAIN t = 1 .. Len(t) /\ DOMAIN st = 1 .. Len(s) + Len(t)
    BY <1>1, LenProperties
  <1>3. ASSUME NEW i \in DOMAIN st, NEW j \in DOMAIN st, st[i] = Done, st[j] = Done
        PROVE  i = j
    <2>1. CASE i <= Len(s) /\ j <= Len(s)
      <3>1. i \in DOMAIN s /\ j \in DOMAIN s /\ s[i] = Done /\ s[j] = Done
        BY <1>1, <1>2, <1>3, <2>1
      <3> QED
        BY <3>1 DEF Single
    <2>2. CASE ~(i <= Len(s)) /\ ~(j <= Len(s))
      <3>1. /\ i - Len(s) \in DOMAIN t /\ j - Len(s) \in DOMAIN t
            /\ t[i - Len(s)] = Done /\ t[j - Len(s)] = Done
        BY <1>1, <1>2, <1>3, <2>2
      <3>2. i - Len(s) = j - Len(s)
        BY <3>1 DEF Single
      <3> QED
        BY <1>2, <3>2
    <2>3. ASSUME NEW m \in DOMAIN st, NEW n \in DOMAIN st, st[m] = Done, st[n] = Done,
                 m <= Len(s), ~(n <= Len(s))
          PROVE  FALSE
      <3>1. m \in DOMAIN s /\ s[m] = Done
        BY <1>1, <1>2, <2>3
      <3>2. n - Len(s) \in DOMAIN t /\ t[n - Len(s)] = Done
        BY <1>1, <1>2, <2>3
      <3> QED
        BY <3>1, <3>2 DEF ToSet
    <2> QED
      BY <1>3, <2>1, <2>2, <2>3
  <1> QED
    BY <1>3 DEF Single

--------------------------------------------------------------------------------
(* The steps.                                                              *)

\* Nothing has been said, and nothing is on its way.
LEMMA InitIInv == Init => IInv
  <1> SUFFICES ASSUME Init PROVE IInv
    OBVIOUS
  <1>1. /\ said = << >> /\ parsed = << >> /\ relayed = << >> /\ lines = << >> /\ line = << >>
        /\ made = << >> /\ delivered = << >>
    BY DEF Init
  <1>2. TypeOK
    <2>1. /\ MaxEvents \in Nat /\ Capacity \in Nat \ {0}
      BY StreamAssumption
    <2>2. Len(said) = 0 /\ Len(parsed) = 0 /\ Len(relayed) = 0
      BY <1>1
    <2>3. /\ said \in Seq(Kind) /\ lines \in Seq(Line) /\ line \in Seq(Line)
          /\ made \in Seq(Line) /\ delivered \in Seq(Line)
          /\ parsed \in Seq(1 .. Len(said)) /\ relayed \in Seq(1 .. Len(said))
      BY <1>1, EmptySeq
    <2>4. \A ch \in {parsed, relayed} : ch \in Seq(1 .. Len(said)) /\ Len(ch) <= Capacity
      <3>1. Len(parsed) <= Capacity /\ Len(relayed) <= Capacity
        BY <2>1, <2>2
      <3> QED
        BY <2>3, <3>1
    <2>5. Len(said) <= MaxEvents
      BY <2>1, <2>2
    <2> QED
      BY <2>3, <2>4, <2>5 DEF Init, TypeOK
  <1>3. HandsEmpty /\ Phases
    BY DEF Init, HandsEmpty, Phases
  <1>4. Heard
    BY <1>1 DEF Init, Heard
  <1>5. ToSet(made) = {} /\ DOMAIN made = {}
    BY <1>1 DEF ToSet
  <1>6. DoneOnce
    BY <1>5 DEF Init, DoneOnce, Single
  <1>7. NothingLost
    BY <1>1, EmptySeq, ConcatEmptySeq DEF NothingLost
  <1> QED
    BY <1>2, <1>3, <1>4, <1>6, <1>7 DEF IInv

\* An event the provider says is in the first channel.
LEMMA ParseStep ==
    ASSUME IInv, NEW kind \in Kind, Parse(kind)
    PROVE  IInv'
  <1>1. /\ said \in Seq(Kind) /\ Len(said) \in Nat
        /\ parsed \in Seq(1 .. Len(said)) /\ relayed \in Seq(1 .. Len(said))
        /\ said' = Append(said, kind) /\ parsed' = Append(parsed, Len(said'))
    BY LenProperties DEF IInv, TypeOK, Parse
  <1>2. /\ said' \in Seq(Kind) /\ Len(said') = Len(said) + 1
        /\ \A i \in 1 .. Len(said) : said'[i] = said[i]
    BY <1>1, AppendProperties
  <1>3. 1 .. Len(said) \subseteq 1 .. Len(said')
    BY <1>1, <1>2
  <1>4. parsed \in Seq(1 .. Len(said')) /\ relayed \in Seq(1 .. Len(said'))
    BY <1>1, <1>3, SeqMonotonic
  <1>5. /\ parsed' \in Seq(1 .. Len(said')) /\ Len(parsed') = Len(parsed) + 1
        /\ ToSet(parsed') = ToSet(parsed) \cup {Len(said')}
    <2>1. Len(said') \in 1 .. Len(said')
      BY <1>1, <1>2
    <2> QED
      BY <1>1, <1>4, <2>1, AppendedSet
  <1>6. TypeOK'
    <2>1. Len(said') <= MaxEvents /\ Len(parsed') <= Capacity
      BY <1>1, <1>2, <1>5, StreamAssumption, LenProperties DEF Parse
    <2>2. relayed' = relayed
      BY DEF Parse
    <2> QED
      BY <1>2, <1>4, <1>5, <2>1, <2>2 DEF IInv, TypeOK, Parse
  <1>7. HandsEmpty' /\ Phases' /\ DoneOnce' /\ NothingLost'
    BY DEF IInv, HandsEmpty, Phases, DoneOnce, NothingLost, Parse
  <1>8. Heard'
    <2>1. Contains(said, "final") => Contains(said', "final")
      BY <1>1, <1>2 DEF Contains
    <2>2. UNCHANGED <<route, finished, failed, relayed>>
      BY DEF Parse
    <2>3. \A e \in 1 .. Len(said') : e \in 1 .. Len(said) \/ e = Len(said')
      BY <1>1, <1>2
    <2> QED
      BY <1>2, <1>5, <2>1, <2>2, <2>3 DEF IInv, Heard
  <1> QED
    BY <1>6, <1>7, <1>8 DEF IInv

\* The relay takes an event from one channel to the other.
LEMMA RelayStep ==
    ASSUME IInv, Relay
    PROVE  IInv'
  <1>1. /\ parsed \in Seq(1 .. Len(said)) /\ parsed # << >> /\ relayed \in Seq(1 .. Len(said))
        /\ relayed' = Append(relayed, Head(parsed)) /\ parsed' = Tail(parsed)
    BY DEF IInv, TypeOK, Relay
  <1>2. /\ Head(parsed) \in 1 .. Len(said) /\ parsed' \in Seq(1 .. Len(said))
        /\ ToSet(parsed) = {Head(parsed)} \cup ToSet(parsed')
        /\ Len(parsed') = Len(parsed) - 1
    BY <1>1, HeadAndTail
  <1>3. /\ relayed' \in Seq(1 .. Len(said)) /\ Len(relayed') = Len(relayed) + 1
        /\ ToSet(relayed') = ToSet(relayed) \cup {Head(parsed)}
    BY <1>1, <1>2, AppendedSet
  <1>4. TypeOK'
    <2>1. Len(parsed') <= Capacity /\ Len(relayed') <= Capacity
      BY <1>1, <1>2, <1>3, StreamAssumption, LenProperties DEF IInv, TypeOK, Relay
    <2> QED
      BY <1>2, <1>3, <2>1 DEF IInv, TypeOK, Relay
  <1>5. HandsEmpty' /\ Phases' /\ DoneOnce' /\ NothingLost'
    BY DEF IInv, HandsEmpty, Phases, DoneOnce, NothingLost, Relay
  <1>6. Heard'
    BY <1>2, <1>3 DEF IInv, Heard, Relay
  <1> QED
    BY <1>4, <1>5, <1>6 DEF IInv

\* [DONE] alone.
LEMMA DoneLine ==
    /\ Done \in Line /\ <<Done>> \in Seq(Line) /\ Single(<<Done>>) /\ ToSet(<<Done>>) = {Done}
    /\ << >> \in Seq(Line) /\ Single(<< >>) /\ ToSet(<< >>) = {}
  <1>1. Done \in Line
    BY StreamAssumption DEF Done, Line
  <1>2. DOMAIN <<Done>> = {1} /\ <<Done>>[1] = Done /\ DOMAIN << >> = {}
    OBVIOUS
  <1>3. <<Done>> \in Seq(Line) /\ << >> \in Seq(Line)
    BY <1>1
  <1>4. ToSet(<<Done>>) = {Done} /\ ToSet(<< >>) = {}
    BY <1>2 DEF ToSet
  <1> QED
    BY <1>1, <1>2, <1>3, <1>4 DEF Single

\* The translator makes lines of its event, and [DONE] behind them at the first end of
\* a chat.
LEMMA TranslateLines ==
    ASSUME IInv, NEW e \in 1 .. Len(said), NEW k \in 0 .. MaxLines, Translate(e, k)
    PROVE  /\ lines' \in Seq(Line) /\ Single(lines')
           /\ Done \in ToSet(lines') <=>
                 route.form = "chat" /\ said[e] = "final" /\ ~finished
  <1> DEFINE own == [i \in 1 .. k |-> e]
  <1>1. e \in Line \ {Done} /\ k \in Nat
    BY StreamAssumption, LenProperties DEF IInv, TypeOK, Line, Done
  <1>2. own \in Seq(Line) /\ DOMAIN own = 1 .. k
    <2>1. own \in [1 .. k -> Line]
      BY <1>1
    <2> QED
      BY <1>1, <2>1, SeqDef
  <1>3. Done \notin ToSet(own) /\ Single(own)
    BY <1>1, <1>2 DEF ToSet, Single
  <1> HIDE DEF own
  <1>4. /\ Append(own, Done) \in Seq(Line) /\ ToSet(Append(own, Done)) = ToSet(own) \cup {Done}
        /\ Append(own, Done) = own \o <<Done>>
    BY <1>2, DoneLine, AppendedSet, AppendIsConcat
  <1>5. Single(Append(own, Done))
    BY <1>2, <1>3, <1>4, DoneLine, ConcatSingle
  <1>6. lines' = IF route.form = "chat" /\ said[e] = "final" /\ ~finished
                   THEN Append(own, Done) ELSE own
    BY DEF Translate, own
  <1> QED
    BY <1>2, <1>3, <1>4, <1>5, <1>6

\* What the pump makes joins what it has made, and is in its hands.
LEMMA MadeJoins ==
    ASSUME IInv, lines = << >>, lines' \in Seq(Line), made' = made \o lines',
           UNCHANGED <<client, delivered, line>>
    PROVE  /\ made' \in Seq(Line) /\ NothingLost'
           /\ ToSet(made') = ToSet(made) \cup ToSet(lines')
  <1>1. made \in Seq(Line) /\ delivered \in Seq(Line) /\ line \in Seq(Line)
    BY DEF IInv, TypeOK
  <1>2. made' \in Seq(Line) /\ ToSet(made') = ToSet(made) \cup ToSet(lines')
    BY <1>1, ConcatSet
  <1>3. delivered \o line \in Seq(Line)
    BY <1>1, ConcatProperties
  <1>4. client = "reading" => made = delivered \o line
    BY <1>3, ConcatEmptySeq DEF IInv, NothingLost
  <1>5. NothingLost'
    BY <1>4 DEF NothingLost
  <1> QED
    BY <1>2, <1>5

\* The pump receives an event and translates it.
LEMMA ReceiveStep ==
    ASSUME IInv, NEW k \in 0 .. MaxLines, Receive(k)
    PROVE  IInv'
  <1> DEFINE e == Head(Incoming)
  <1>1. /\ pump = "range" /\ pump' = "send" /\ lines = << >> /\ metered = "none"
        /\ Translate(e, k) /\ made' = made \o lines'
        /\ UNCHANGED <<route, body, said, metered, handler, line, client, delivered>>
    BY DEF IInv, HandsEmpty, Phases, Receive
  <1>2. /\ e \in 1 .. Len(said)
        /\ parsed' \in Seq(1 .. Len(said)) /\ relayed' \in Seq(1 .. Len(said))
        /\ Len(parsed') <= Capacity /\ Len(relayed') <= Capacity
        /\ ToSet(parsed) \cup ToSet(relayed) \subseteq {e} \cup ToSet(parsed') \cup ToSet(relayed')
        /\ ~route.relayed => relayed' = << >>
    <2>1. /\ parsed \in Seq(1 .. Len(said)) /\ relayed \in Seq(1 .. Len(said))
          /\ Len(parsed) \in Nat /\ Len(relayed) \in Nat /\ Capacity \in Nat
          /\ Len(parsed) <= Capacity /\ Len(relayed) <= Capacity
          /\ ~route.relayed => relayed = << >>
      BY StreamAssumption, LenProperties DEF IInv, TypeOK, Phases
    <2>2. CASE route.relayed
      <3>1. relayed # << >> /\ e = Head(relayed) /\ relayed' = Tail(relayed) /\ parsed' = parsed
        BY <2>2 DEF Receive, Incoming
      <3>2. /\ e \in 1 .. Len(said) /\ relayed' \in Seq(1 .. Len(said))
            /\ ToSet(relayed) = {e} \cup ToSet(relayed') /\ Len(relayed') = Len(relayed) - 1
        BY <2>1, <3>1, HeadAndTail
      <3> QED
        BY <2>1, <2>2, <3>1, <3>2
    <2>3. CASE ~route.relayed
      <3>1. parsed # << >> /\ e = Head(parsed) /\ parsed' = Tail(parsed) /\ relayed' = relayed
        BY <2>3 DEF Receive, Incoming
      <3>2. /\ e \in 1 .. Len(said) /\ parsed' \in Seq(1 .. Len(said))
            /\ ToSet(parsed) = {e} \cup ToSet(parsed') /\ Len(parsed') = Len(parsed) - 1
        BY <2>1, <3>1, HeadAndTail
      <3> QED
        BY <2>1, <2>3, <3>1, <3>2
    <2> QED
      BY <2>2, <2>3
  <1> HIDE DEF e
  <1>3. /\ lines' \in Seq(Line) /\ Single(lines')
        /\ Done \in ToSet(lines') <=> route.form = "chat" /\ said[e] = "final" /\ ~finished
    BY <1>1, <1>2, TranslateLines
  <1>4. /\ made' \in Seq(Line) /\ NothingLost'
        /\ ToSet(made') = ToSet(made) \cup ToSet(lines')
    BY <1>1, <1>3, MadeJoins
  <1>5. /\ finished' = (finished \/ (said[e] = "final" /\ route.form # "identity"))
        /\ failed' = (failed \/ (said[e] = "failed" /\ route.form # "identity"))
        /\ sentDone' = (sentDone \/ Done \in ToSet(lines'))
    BY <1>1 DEF Translate
  <1>6. TypeOK'
    <2>1. finished' \in BOOLEAN /\ failed' \in BOOLEAN /\ sentDone' \in BOOLEAN
      BY <1>5
    <2>2. \A ch \in {parsed', relayed'} : ch \in Seq(1 .. Len(said')) /\ Len(ch) <= Capacity
      BY <1>1, <1>2
    <2> QED
      BY <1>1, <1>3, <1>4, <2>1, <2>2 DEF IInv, TypeOK
  <1>7. HandsEmpty' /\ Phases'
    BY <1>1, <1>2 DEF IInv, HandsEmpty, Phases
  <1>8. Heard'
    <2>1. said[e] = "final" => Contains(said, "final")
      BY <1>2 DEF Contains
    <2> QED
      BY <1>1, <1>2, <1>5, <2>1 DEF IInv, Heard
  <1>9. DoneOnce'
    <2>1. Single(made) /\ (Done \in ToSet(made) <=> sentDone) /\ (sentDone => finished)
      BY <1>1 DEF IInv, DoneOnce
    <2>2. made \in Seq(Line)
      BY DEF IInv, TypeOK
    <2>3. Single(made')
      BY <1>1, <1>3, <2>1, <2>2, ConcatSingle
    <2>4. Done \in ToSet(made') <=> sentDone'
      BY <1>4, <1>5, <2>1
    <2>5. sentDone' => finished' /\ route'.form = "chat"
      BY <1>1, <1>3, <1>5 DEF IInv, DoneOnce
    <2> QED
      BY <1>1, <2>3, <2>4, <2>5 DEF DoneOnce
  <1> QED
    BY <1>4, <1>6, <1>7, <1>8, <1>9 DEF IInv

\* The end of the range: the tail makes [DONE] for a chat that has not had it.
LEMMA RangeEndsStep ==
    ASSUME IInv, RangeEnds
    PROVE  IInv'
  <1>1. /\ pump = "range" /\ pump' = "tail" /\ lines = << >> /\ metered = "none"
        /\ made' = made \o lines'
        /\ lines' = IF route.form = "chat" /\ ~sentDone THEN <<Done>> ELSE << >>
        /\ body = "ended" /\ parsed = << >> /\ relayed = << >>
        /\ UNCHANGED <<upstream, channels, state, metered, serving>>
    BY DEF IInv, HandsEmpty, Phases, RangeEnds
  <1>2. /\ lines' \in Seq(Line) /\ Single(lines')
        /\ Done \in ToSet(lines') <=> route.form = "chat" /\ ~sentDone
    BY <1>1, DoneLine
  <1>3. /\ made' \in Seq(Line) /\ NothingLost'
        /\ ToSet(made') = ToSet(made) \cup ToSet(lines')
    BY <1>1, <1>2, MadeJoins
  <1>4. TypeOK'
    BY <1>1, <1>2, <1>3 DEF IInv, TypeOK
  <1>5. HandsEmpty' /\ Phases' /\ Heard'
    BY <1>1 DEF IInv, HandsEmpty, Phases, Heard
  <1>6. DoneOnce'
    <2>1. /\ Single(made) /\ (Done \in ToSet(made) <=> sentDone)
          /\ sentDone => finished /\ route.form = "chat"
      BY <1>1 DEF IInv, DoneOnce
    <2>2. made \in Seq(Line)
      BY DEF IInv, TypeOK
    <2>3. Single(made')
      BY <1>1, <1>2, <2>1, <2>2, ConcatSingle
    <2>4. Done \in ToSet(made') <=> route.form = "chat"
      BY <1>2, <1>3, <2>1
    <2> QED
      BY <1>1, <2>1, <2>3, <2>4 DEF DoneOnce
  <1> QED
    BY <1>3, <1>4, <1>5, <1>6 DEF IInv

\* The handler takes the first of the lines.
LEMMA SendStep ==
    ASSUME IInv, Send
    PROVE  IInv'
  <1>1. /\ lines \in Seq(Line) /\ lines # << >> /\ line = << >>
        /\ line' = <<Head(lines)>> /\ lines' = Tail(lines)
        /\ pump \in {"send", "tail"} /\ handler = "select" /\ handler' = "write"
        /\ UNCHANGED <<upstream, channels, pump, state, made, client, delivered, metered>>
    BY DEF IInv, TypeOK, HandsEmpty, Send
  <1>2. Head(lines) \in Line /\ lines' \in Seq(Line) /\ lines = line' \o lines'
    BY <1>1, HeadAndTail
  <1>3. line' \in Seq(Line)
    BY <1>1, <1>2
  <1>4. TypeOK'
    BY <1>1, <1>2, <1>3 DEF IInv, TypeOK
  <1>5. HandsEmpty' /\ Phases' /\ Heard' /\ DoneOnce'
    BY <1>1 DEF IInv, HandsEmpty, Phases, Heard, DoneOnce
  <1>6. NothingLost'
    <2>1. delivered \in Seq(Line)
      BY DEF IInv, TypeOK
    <2>2. client = "reading" => made = delivered \o lines
      BY <1>1, <2>1, ConcatEmptySeq DEF IInv, NothingLost
    <2>3. delivered \o (line' \o lines') = (delivered \o line') \o lines'
      <3>1. lines' \in Seq(Line)
        BY <1>2
      <3>2. QED
        BY <1>3, <2>1, <3>1, ConcatAssociative
    <2>4. delivered \o lines = (delivered \o line') \o lines'
      BY <1>2, <2>3, Zenon
    <2> QED
      BY <1>1, <2>2, <2>4 DEF NothingLost
  <1> QED
    BY <1>4, <1>5, <1>6 DEF IInv

\* The end of the body, and what the pump does between and behind its lines.
LEMMA QuietStep ==
    ASSUME IInv, BodyEnds \/ NextEvent \/ Record \/ Close
    PROVE  IInv'
  <1>1. UNCHANGED <<route, said, channels, lines, state, made, serving>>
    BY DEF BodyEnds, NextEvent, Record, Close
  <1>2. TypeOK'
    <2>1. /\ body' \in {"open", "ended"}
          /\ pump' \in {"range", "send", "tail", "record", "closed"}
          /\ metered' \in {"none", "ok", "error"}
      BY DEF IInv, TypeOK, BodyEnds, NextEvent, Record, Close
    <2> QED
      BY <1>1, <2>1 DEF IInv, TypeOK
  <1>3. HandsEmpty' /\ Phases' /\ DoneOnce'
    <2>1. CASE BodyEnds
      <3>1. HandsEmpty'
        BY <1>1, <2>1 DEF IInv, HandsEmpty, BodyEnds, pumping
      <3>2. Phases'
        BY <1>1, <2>1 DEF IInv, TypeOK, Phases, BodyEnds, pumping
      <3>3. DoneOnce'
        BY <1>1, <2>1 DEF IInv, TypeOK, DoneOnce, BodyEnds, pumping
      <3> QED
        BY <3>1, <3>2, <3>3
    <2>2. CASE NextEvent
      <3>1. HandsEmpty'
        BY <1>1, <2>2 DEF IInv, HandsEmpty, NextEvent, upstream
      <3>2. Phases'
        BY <1>1, <2>2 DEF IInv, TypeOK, Phases, NextEvent, upstream
      <3>3. DoneOnce'
        BY <1>1, <2>2 DEF IInv, TypeOK, DoneOnce, NextEvent, upstream
      <3> QED
        BY <3>1, <3>2, <3>3
    <2>3. CASE Record
      <3>1. HandsEmpty'
        BY <1>1, <2>3 DEF IInv, HandsEmpty, Record, upstream
      <3>2. Phases'
        BY <1>1, <2>3 DEF IInv, TypeOK, Phases, Record, upstream
      <3>3. DoneOnce'
        BY <1>1, <2>3 DEF IInv, TypeOK, DoneOnce, Record, upstream
      <3> QED
        BY <3>1, <3>2, <3>3
    <2>4. CASE Close
      <3>1. HandsEmpty'
        BY <1>1, <2>4 DEF IInv, HandsEmpty, Close, upstream
      <3>2. Phases'
        BY <1>1, <2>4 DEF IInv, TypeOK, Phases, Close, upstream
      <3>3. DoneOnce'
        BY <1>1, <2>4 DEF IInv, TypeOK, DoneOnce, Close, upstream
      <3> QED
        BY <3>1, <3>2, <3>3
    <2> QED
      BY <2>1, <2>2, <2>3, <2>4
  <1>4. Heard' /\ NothingLost'
    BY <1>1 DEF IInv, Heard, NothingLost
  <1> QED
    BY <1>2, <1>3, <1>4 DEF IInv

\* A line is written, or the client has gone.
LEMMA WriteStep ==
    ASSUME IInv, Write
    PROVE  IInv'
  <1>1. /\ delivered \in Seq(Line) /\ line \in Seq(Line) /\ lines \in Seq(Line)
        /\ handler = "write" /\ line' = << >>
        /\ UNCHANGED <<upstream, channels, pumping, client>>
        /\ \/ delivered' = delivered \o line /\ handler' = "select"
           \/ client = "gone" /\ handler' = "returned" /\ delivered' = delivered
    BY DEF IInv, TypeOK, Write
  <1>2. delivered \o line \in Seq(Line)
    BY <1>1, ConcatProperties
  <1>3. TypeOK'
    <2>1. delivered' \in Seq(Line) /\ line' \in Seq(Line)
      BY <1>1, <1>2, EmptySeq
    <2> QED
      BY <1>1, <2>1 DEF IInv, TypeOK
  <1>4. HandsEmpty' /\ Phases' /\ Heard' /\ DoneOnce'
    BY <1>1 DEF IInv, HandsEmpty, Phases, Heard, DoneOnce
  <1>5. NothingLost'
    <2>1. CASE delivered' = delivered \o line
      <3>1. delivered' \o line' = delivered \o line
        BY <1>1, <1>2, <2>1, ConcatEmptySeq
      <3> QED
        BY <1>1, <3>1 DEF IInv, NothingLost
    <2>2. CASE client = "gone"
      BY <1>1, <2>2 DEF NothingLost
    <2> QED
      BY <1>1, <2>1, <2>2
  <1> QED
    BY <1>3, <1>4, <1>5 DEF IInv

\* StreamSSE returns, or its client goes away.
LEMMA EndStep ==
    ASSUME IInv, Return \/ ClientLeaves
    PROVE  IInv'
  <1>1. UNCHANGED <<upstream, channels, pumping, line, delivered>>
    BY DEF Return, ClientLeaves
  <1>2. TypeOK'
    <2>1. handler' \in {"select", "write", "returned"} /\ client' \in {"reading", "gone"}
      BY DEF IInv, TypeOK, Return, ClientLeaves
    <2> QED
      BY <1>1, <2>1 DEF IInv, TypeOK
  <1>3. HandsEmpty' /\ Phases'
    BY <1>1 DEF IInv, HandsEmpty, Phases, Return, ClientLeaves
  <1>4. Heard' /\ DoneOnce' /\ NothingLost'
    BY <1>1 DEF IInv, Heard, DoneOnce, NothingLost, Return, ClientLeaves
  <1> QED
    BY <1>2, <1>3, <1>4 DEF IInv

\* Every step keeps the invariant.
LEMMA NextIInv == IInv /\ [Next]_vars => IInv'
  <1> SUFFICES ASSUME IInv, [Next]_vars PROVE IInv'
    OBVIOUS
  <1>1. CASE Next
    BY <1>1, ParseStep, RelayStep, ReceiveStep, RangeEndsStep, SendStep, QuietStep, WriteStep,
       EndStep DEF Next, Pump, Serve, Kind
  <1>2. CASE UNCHANGED vars
    BY <1>2 DEF IInv, TypeOK, HandsEmpty, Phases, Heard, DoneOnce, NothingLost
  <1> QED
    BY <1>1, <1>2

--------------------------------------------------------------------------------
(* What every stream keeps.                                                *)

\* The strengthened invariant holds in every reachable state.
THEOREM Invariance == Spec => []IInv
  BY InitIInv, NextIInv, PTL DEF Spec

\* The variables keep their types, and no channel holds more than its slots.
THEOREM TypeCorrect == Spec => []TypeOK
  <1>1. IInv => TypeOK
    BY DEF IInv
  <1> QED
    BY <1>1, Invariance, PTL

\* As long as its client reads, every line made is delivered or on its way, in order.
THEOREM NothingLostAlways == Spec => []NothingLost
  <1>1. IInv => NothingLost
    BY DEF IInv
  <1> QED
    BY <1>1, Invariance, PTL

\* A client that has read to the end has every line, and its usage event is written:
\* StreamSSE returns before its client leaves only from a closed channel, and the pump
\* closes it behind the last line and the usage event.
THEOREM EndsMeteredAlways == Spec => []EndsMetered
  <1>1. IInv => EndsMetered
    <2> SUFFICES ASSUME IInv, handler = "returned", client = "reading"
                 PROVE  metered # "none" /\ delivered = made
      BY DEF EndsMetered
    <2>1. metered # "none" /\ lines = << >> /\ line = << >> /\ delivered \in Seq(Line)
      BY DEF IInv, TypeOK, HandsEmpty, Phases
    <2> QED
      BY <2>1, ConcatEmptySeq DEF IInv, NothingLost
  <1> QED
    BY <1>1, Invariance, PTL

\* A chat that ran to its end has one [DONE], from the translator or from the tail,
\* and no other stream has any.
THEOREM OneDoneAlways == Spec => []OneDone
  <1>1. IInv => OneDone
    BY DEF IInv, DoneOnce, Single, Phases, OneDone
  <1> QED
    BY <1>1, Invariance, PTL

\* "ok" is recorded only of an answer that came to its end, with nothing of it left in a
\* channel and no error reported: what was said is in a channel or was looked at.
THEOREM OkIsCompleteAlways == Spec => []OkIsComplete
  <1>1. IInv => OkIsComplete
    <2> SUFFICES ASSUME IInv, metered = "ok"
                 PROVE  /\ parsed = << >> /\ relayed = << >> /\ lines = << >>
                        /\ Contains(said, "final") /\ ~Contains(said, "failed")
      BY DEF OkIsComplete
    <2>1. /\ parsed = << >> /\ relayed = << >> /\ lines = << >>
          /\ finished /\ ~failed
      BY DEF IInv, HandsEmpty, Phases
    <2>2. ToSet(parsed) = {} /\ ToSet(relayed) = {}
      BY <2>1 DEF ToSet
    <2> QED
      BY <2>1, <2>2 DEF IInv, Heard, Contains
  <1> QED
    BY <1>1, Invariance, PTL
================================================================================
