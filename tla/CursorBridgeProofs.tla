--------------------------- MODULE CursorBridgeProofs ---------------------------
(* Proofs about the bridges of CursorSession: a tool result is sent once, and    *)
(* the client that was told of a call finds the bridge that waits for it.  And   *)
(* about its stored conversations: which checkpoints a request may resume.       *)
EXTENDS CursorSessionProofs

\* The struct of a bridge is in the hands of a request.
Holding == {"taken", "resume", "swap", "sending"}

IsCalls(o) == o.do = "emit" /\ o.chunk.kind = "calls"
Registers(s, x) == \E i \in DOMAIN s : s[i].do = "register" /\ s[i].chunk = x
Silent(s) == \A i \in DOMAIN s : s[i].do # "register" /\ ~IsCalls(s[i])

\* A program registers one call, and announces it behind that.
Scripted(s) ==
    \A i, j \in DOMAIN s : s[j].do = "register" =>
        (s[i].do = "register" => i = j) /\ (IsCalls(s[i]) => j < i)

\* The server has asked for a tool call; its bridge has been put in activeBridges.
Issued(x) == x[2] <= asked[BridgeOf(x)]
Registered(x) == Issued(x) /\ ~Registers(todo[reader(BridgeOf(x))], x)

\* A call is registered for the turn that heard of it.  When another turn has the callbacks
\* by then, that turn has others.
Sound(p, o) ==
    /\ o.do = "register" =>
          LET b == BridgeOf(o.chunk) IN
          /\ p = reader(b) /\ o.chunk \in turn[o.turn].calls
          /\ b \in stray \/ o.turn = onData[b] \/ turn[o.turn].calls # {o.chunk}
    /\ IsCalls(o) => p = reader(BridgeOf(o.chunk.exec)) /\ Issued(o.chunk.exec)

Scripts ==
    /\ \A b \in Requests : Scripted(todo[reader(b)])
    /\ \A p \in Procs : \A i \in DOMAIN todo[p] : Sound(p, todo[p][i])

\* What a struct waits for is of its bridge, and so is what a turn was asked for.
Pendings == \A a, x \in Execs : x \in pending[a] => BridgeOf(x) = BridgeOf(a) /\ Registered(x)
Asked ==
    \A x \in Execs : (sent[x] > 0 => Registered(x)) /\ (Issued(x) => life[BridgeOf(x)] # "none")
Calls ==
    /\ \A t \in Requests : \A x \in turn[t].calls : BridgeOf(x) = turn[t].bridge /\ Issued(x)
    /\ \A t, u \in Requests : \A x \in turn[t].calls \cap turn[u].calls : t = u
Boxes ==
    /\ active # None => pending[active] # {}
    /\ \A r \in Requests : taken[r] # None => pending[taken[r]] # {}
    /\ \A r \in Requests : pc[r] \in {"swap", "sending"} => turn[r].bridge = BridgeOf(taken[r])

Accounts == Pendings /\ Asked /\ Calls /\ Boxes

\* The struct of a bridge that is not stray is in activeBridges or with one request.
Holds(r, b) == pc[r] \in Holding /\ BridgeOf(taken[r]) = b
Waits(b) == active # None /\ BridgeOf(active) = b
OneHolder(b) ==
    /\ \A r, q \in Requests : Holds(r, b) /\ Holds(q, b) => r = q
    /\ \A r \in Requests : Holds(r, b) => ~Waits(b)

\* It waits for calls of the turn that has the callbacks, until their results come along
\* with the next turn.
Waiting(b) ==
    Waits(b) => pending[active] \subseteq turn[onData[b]].calls
                   /\ pc[onData[b]] \notin {"swap", "sending"}
InHand(b) ==
    \A r \in Requests : Holds(r, b) /\ pc[r] \in {"taken", "resume"} =>
        pending[taken[r]] \subseteq turn[onData[b]].calls
OnTheWay(b) ==
    \A r \in Requests : Holds(r, b) /\ pc[r] \in {"swap", "sending"} =>
        /\ onData[b] = r /\ pending[taken[r]] \subseteq ask[r]
        /\ \A x \in pending[taken[r]] : x \notin turn[r].calls /\ sent[x] = 0
SentOnce(b) ==
    \A x \in Execs : BridgeOf(x) = b =>
        sent[x] <= 1 /\ (sent[x] > 0 => x \notin turn[onData[b]].calls)

OwnedAt(b) == OneHolder(b) /\ Waiting(b) /\ InHand(b) /\ OnTheWay(b) /\ SentOnce(b)
Owned == \A b \in Requests : life[b] # "none" /\ b \notin stray => OwnedAt(b)

\* Who brings the result of a call that was registered finds the bridge.
Lost(b) == life[b] = "dead" \/ b \in ended \/ b \in stray \cup displaced
Found(x) ==
    \/ sent[x] > 0 \/ Lost(BridgeOf(x))
    \/ \E r \in Requests : Held(x, r)
    \/ active # None /\ x \in pending[active]
AllFound == \A x \in Execs : Registered(x) => Found(x)

\* The client hears of registered calls only.
Announced ==
    /\ \A x \in known : Registered(x)
    /\ \A t \in Requests : \A i \in DOMAIN turn[t].out :
          turn[t].out[i].kind = "calls" => Registered(turn[t].out[i].exec)

\* A request that cleans up a bridge holds the lock, and ends the bridge before it is through.
CleansAt(r) ==
    pc[r] = "cleaning" =>
        /\ lock = r /\ active # None
        /\ \/ Lost(BridgeOf(active))
           \/ /\ todo[main(r)] # << >> /\ todo[main(r)][1].do \in {"cleanup", "cleanupClose"}
              /\ todo[main(r)][1].turn = BridgeOf(active)
Cleaning == \A r \in Requests : CleansAt(r)

BInv == Scripts /\ Accounts /\ Owned /\ AllFound /\ Announced

--------------------------------------------------------------------------------
(* Programs, and steps aside of the bridges.                                   *)

\* Program q takes the place of s and registers and announces what that does.
Narrows(s, q) ==
    /\ \A i \in DOMAIN q : q[i].do = "register" \/ IsCalls(q[i]) => \E j \in DOMAIN s : s[j] = q[i]
    /\ Scripted(s) => Scripted(q)
    /\ \A x : Registers(s, x) => Registers(q, x)

\* A step has been done.
LEMMA TailNarrows ==
    ASSUME NEW s \in Seq(Instr), s # << >>
    PROVE  /\ s[1].do # "register" => Narrows(s, Tail(s))
           /\ \A i \in DOMAIN Tail(s) : \E j \in DOMAIN s : s[j] = Tail(s)[i]
           /\ Scripted(s) => Scripted(Tail(s))
           /\ \A x : Registers(s, x) => Registers(Tail(s), x) \/ (s[1].do = "register" /\ s[1].chunk = x)
           /\ Scripted(s) /\ (s[1].do = "register" \/ IsCalls(s[1])) =>
                 \A x : ~Registers(Tail(s), x)
  <1> DEFINE q == Tail(s)
  <1>1. /\ Len(s) \in Nat /\ Len(s) >= 1 /\ DOMAIN s = 1 .. Len(s)
        /\ DOMAIN q = 1 .. Len(s) - 1
        /\ \A i \in 1 .. Len(s) - 1 : q[i] = s[i + 1]
    BY Parts
  <1> HIDE DEF q
  <1>2. \A i \in DOMAIN q : i \in Nat /\ i + 1 \in DOMAIN s /\ q[i] = s[i + 1] /\ i + 1 # 1
    BY <1>1
  <1>3. \A i \in DOMAIN s : i = 1 \/ (i - 1 \in DOMAIN q /\ q[i - 1] = s[i])
    BY <1>1
  <1>4. \A i \in DOMAIN q : \E j \in DOMAIN s : s[j] = q[i]
    BY <1>2
  <1>5. ASSUME Scripted(s) PROVE Scripted(q)
    <2> SUFFICES ASSUME NEW i \in DOMAIN q, NEW j \in DOMAIN q, q[j].do = "register"
                 PROVE  (q[i].do = "register" => i = j) /\ (IsCalls(q[i]) => j < i)
      BY DEF Scripted
    <2>1. (s[i + 1].do = "register" => i + 1 = j + 1) /\ (IsCalls(s[i + 1]) => j + 1 < i + 1)
      BY <1>2, <1>5 DEF Scripted
    <2>2. i \in Nat /\ j \in Nat /\ q[i] = s[i + 1]
      BY <1>2
    <2> QED
      BY <2>1, <2>2
  <1>6. \A x : Registers(s, x) => Registers(q, x) \/ (s[1].do = "register" /\ s[1].chunk = x)
    BY <1>3 DEF Registers
  <1>7. ASSUME Scripted(s), s[1].do = "register" \/ IsCalls(s[1]), NEW x PROVE ~Registers(q, x)
    <2> SUFFICES ASSUME NEW i \in DOMAIN q, q[i].do = "register" PROVE FALSE
      BY DEF Registers
    <2>1. 1 \in DOMAIN s /\ i + 1 \in DOMAIN s /\ s[i + 1].do = "register" /\ i \in Nat
      BY <1>1, <1>2
    <2>2. (s[1].do = "register" => 1 = i + 1) /\ (IsCalls(s[1]) => i + 1 < 1)
      BY <1>7, <2>1 DEF Scripted
    <2> QED
      BY <1>2, <1>7, <2>1, <2>2
  <1> QED
    BY <1>4, <1>5, <1>6, <1>7 DEF Narrows, q

\* Silent programs.
LEMMA SilentNarrows ==
    /\ \A s, q : Silent(s) /\ Silent(q) => Narrows(s, q)
    /\ \A s : Narrows(s, s)
    /\ \A s : Silent(s) => Scripted(s) /\ \A x : ~Registers(s, x)
    /\ Silent(<< >>)
  BY DEF Silent, Narrows, Scripted, Registers

\* A step aside of the bridges: what waits for results stays where it is, with those it
\* waits for, programs go on, and clients hear of registered calls.
SameHands ==
    /\ UNCHANGED <<active, pending, sent, asked, onData, taken, stray, displaced>>
    /\ \A b \in Requests : life'[b] = life[b] \/ (life[b] = "alive" /\ life'[b] = "dead")
    /\ ended \subseteq ended'
    /\ \A r \in Requests :
          /\ pc'[r] \in Holding <=> pc[r] \in Holding
          /\ pc'[r] \in {"swap", "sending"} <=> pc[r] \in {"swap", "sending"}
          /\ pc[r] \in Holding => ask'[r] = ask[r]
GoesOn == \A p \in Procs : Narrows(todo[p], todo'[p])
SameCalls ==
    \A t \in Requests :
        /\ turn'[t].calls = turn[t].calls /\ turn'[t].bridge = turn[t].bridge
        /\ \A i \in DOMAIN turn'[t].out : turn'[t].out[i].kind = "calls" =>
              \/ \E j \in DOMAIN turn[t].out : turn[t].out[j] = turn'[t].out[i]
              \/ turn'[t].out[i].exec \in Execs /\ Registered(turn'[t].out[i].exec)
Heard == \A x \in known' : x \in known \/ (x \in Execs /\ Registered(x))
Aside == SameHands /\ GoesOn /\ SameCalls /\ Heard

\* The same calls have been asked for, and registered.
SameRegister == \A x \in Execs : (Registered(x)' <=> Registered(x)) /\ (Issued(x)' <=> Issued(x))

\* Calls stay registered, and programs sound.
LEMMA ScriptsOn ==
    ASSUME IInv, Scripts, GoesOn, SameCalls, UNCHANGED <<asked, onData>>, stray \subseteq stray'
    PROVE  Scripts' /\ SameRegister
  <1>1. \A b \in Requests : Scripted(todo[reader(b)])'
    <2> SUFFICES ASSUME NEW b \in Requests PROVE Scripted(todo'[reader(b)])
      OBVIOUS
    <2>1. reader(b) \in Procs
      BY WorkerNames
    <2> QED
      BY <2>1 DEF Scripts, GoesOn, Narrows
  <1>2. ASSUME NEW p \in Procs, NEW i \in DOMAIN todo'[p], NEW o, o = todo'[p][i] PROVE Sound(p, o)'
    <2>1. CASE o.do = "register" \/ IsCalls(o)
      <3>1. PICK j \in DOMAIN todo[p] : todo[p][j] = o
        BY <1>2, <2>1 DEF GoesOn, Narrows
      <3>2. Sound(p, o)
        BY <3>1 DEF Scripts
      <3>3. o \in Instr
        BY <3>1, ElementOfSeq DEF IInv, Types, TurnTypes
      <3>4. o.turn \in Requests
        BY <3>3 DEF Instr
      <3> QED
        BY <2>1, <3>2, <3>4 DEF Sound, SameCalls, Issued
    <2>2. CASE ~(o.do = "register" \/ IsCalls(o))
      BY <2>2 DEF Sound
    <2> QED
      BY <2>1, <2>2
  <1>3. ASSUME NEW x \in Execs
        PROVE  (Registered(x)' <=> Registered(x)) /\ (Issued(x)' <=> Issued(x))
    <2>1. reader(BridgeOf(x)) \in Procs
      BY WorkerNames DEF BridgeOf, Execs
    <2>2. Registers(todo'[reader(BridgeOf(x))], x) <=> Registers(todo[reader(BridgeOf(x))], x)
      BY <2>1 DEF GoesOn, Narrows, Registers
    <2> QED
      BY <2>2 DEF Registered, Issued
  <1> QED
    BY <1>1, <1>2, <1>3 DEF Scripts, SameRegister

\* What was asked for.
LEMMA AccountsOn ==
    ASSUME IInv, Accounts, SameRegister, SameCalls, pending' = pending, Boxes',
           \A x \in Execs : sent'[x] > 0 => Registered(x),
           \A b \in Requests : life[b] # "none" => life'[b] # "none"
    PROVE  Accounts'
  <1>1. Pendings'
    BY DEF Accounts, Pendings, SameRegister
  <1>2. Asked'
    <2>1. \A x \in Execs : BridgeOf(x) \in Requests
      BY DEF BridgeOf, Execs
    <2> QED
      BY <2>1 DEF Accounts, Asked, SameRegister
  <1>3. Calls'
    <2>1. \A t \in Requests : turn[t].calls \subseteq Execs
      BY DEF IInv, Types, TurnTypes, Turn
    <2> QED
      BY <2>1 DEF Accounts, Calls, SameCalls, SameRegister
  <1> QED
    BY <1>1, <1>2, <1>3 DEF Accounts

\* Nothing changes about who has the structs of bridge b.
Elsewhere(b) ==
    /\ \A r \in Requests : Holds(r, b)' =>
          /\ Holds(r, b) /\ taken'[r] = taken[r] /\ pending'[taken[r]] = pending[taken[r]]
          /\ ask'[r] = ask[r] /\ turn'[r].calls = turn[r].calls
          /\ pc'[r] \in {"swap", "sending"} <=> pc[r] \in {"swap", "sending"}
    /\ Waits(b)' => Waits(b) /\ active' = active /\ pending'[active] = pending[active]
    /\ onData'[b] = onData[b] /\ turn'[onData[b]].calls = turn[onData[b]].calls
    /\ pc'[onData[b]] \in {"swap", "sending"} => pc[onData[b]] \in {"swap", "sending"}
    /\ \A x \in Execs : BridgeOf(x) = b => sent'[x] = sent[x]

\* Who holds a struct holds one.
LEMMA HeldStruct ==
    ASSUME IInv, Accounts, NEW r \in Requests, pc[r] \in Holding
    PROVE  /\ taken[r] \in Execs /\ BridgeOf(taken[r]) \in Requests
           /\ life[BridgeOf(taken[r])] # "none"
           /\ pending[taken[r]] # {} /\ pending[taken[r]] \subseteq Execs
           /\ \A x \in pending[taken[r]] : BridgeOf(x) = BridgeOf(taken[r]) /\ Registered(x)
  <1>1. taken[r] # None /\ life[BridgeOf(taken[r])] # "none"
    BY DEF IInv, Placed, PlacedAt, Holding, Early
  <1>2. taken[r] \in Execs /\ pending \in [Execs -> SUBSET Execs]
    BY <1>1 DEF IInv, Types, SessionTypes, TurnTypes
  <1>3. BridgeOf(taken[r]) \in Requests
    BY <1>2 DEF BridgeOf, Execs
  <1>4. pending[taken[r]] # {}
    BY <1>1 DEF Accounts, Boxes
  <1>5. pending[taken[r]] \subseteq Execs
    BY <1>2
  <1>6. \A x \in pending[taken[r]] : BridgeOf(x) = BridgeOf(taken[r]) /\ Registered(x)
    BY <1>2, <1>5 DEF Accounts, Pendings
  <1> QED
    BY <1>1, <1>2, <1>3, <1>4, <1>5, <1>6

\* So does activeBridges.
LEMMA WaitingStruct ==
    ASSUME IInv, Accounts, active # None
    PROVE  /\ active \in Execs /\ BridgeOf(active) \in Requests
           /\ life[BridgeOf(active)] # "none"
           /\ pending[active] # {} /\ pending[active] \subseteq Execs
           /\ \A x \in pending[active] : BridgeOf(x) = BridgeOf(active) /\ Registered(x)
  <1>1. active \in Execs /\ pending \in [Execs -> SUBSET Execs]
    BY DEF IInv, Types, SessionTypes
  <1>2. BridgeOf(active) \in Requests /\ life[BridgeOf(active)] # "none"
    BY <1>1 DEF BridgeOf, Execs, IInv, Wired
  <1>3. pending[active] # {} /\ pending[active] \subseteq Execs
    BY <1>1 DEF Accounts, Boxes
  <1>4. \A x \in pending[active] : BridgeOf(x) = BridgeOf(active) /\ Registered(x)
    BY <1>1, <1>3 DEF Accounts, Pendings
  <1> QED
    BY <1>1, <1>2, <1>3, <1>4

\* Then they are owned as before.
LEMMA OwnedElsewhere ==
    ASSUME IInv, Accounts, NEW b \in Requests, OwnedAt(b), Elsewhere(b)
    PROVE  OwnedAt(b)'
  <1>1. OneHolder(b)' /\ SentOnce(b)'
    BY DEF OwnedAt, OneHolder, SentOnce, Elsewhere
  <1>2. Waiting(b)'
    BY DEF OwnedAt, Waiting, Elsewhere
  <1>3. InHand(b)'
    BY DEF OwnedAt, InHand, Elsewhere, Holds, Holding
  <1>4. OnTheWay(b)'
    <2> SUFFICES ASSUME NEW r \in Requests, Holds(r, b)', pc'[r] \in {"swap", "sending"}
                 PROVE  /\ onData'[b] = r /\ pending'[taken'[r]] \subseteq ask'[r]
                        /\ \A x \in pending'[taken'[r]] : x \notin turn'[r].calls /\ sent'[x] = 0
      BY DEF OnTheWay
    <2>1. /\ onData[b] = r /\ pending[taken[r]] \subseteq ask[r]
          /\ \A x \in pending[taken[r]] : x \notin turn[r].calls /\ sent[x] = 0
      BY DEF OwnedAt, OnTheWay, Elsewhere
    <2>2. pending[taken[r]] \subseteq Execs /\ \A x \in pending[taken[r]] : BridgeOf(x) = b
      BY HeldStruct DEF Elsewhere, Holds
    <2> QED
      BY <2>1, <2>2 DEF Elsewhere
  <1> QED
    BY <1>1, <1>2, <1>3, <1>4 DEF OwnedAt

\* Clients hear of registered calls.
LEMMA AnnouncedOn ==
    ASSUME IInv, Announced, SameRegister, SameCalls, Heard
    PROVE  Announced'
  <1>1. \A x \in known' : Registered(x)'
    <2>1. known \subseteq Execs
      BY DEF IInv, Types, SessionTypes
    <2> QED
      BY <2>1 DEF Announced, Heard, SameRegister
  <1>2. ASSUME NEW t \in Requests, NEW i \in DOMAIN turn'[t].out, turn'[t].out[i].kind = "calls",
               NEW x, x = turn'[t].out[i].exec
        PROVE  Registered(x)'
    <2>1. CASE \E j \in DOMAIN turn[t].out : turn[t].out[j] = turn'[t].out[i]
      <3>1. PICK j \in DOMAIN turn[t].out : turn[t].out[j] = turn'[t].out[i]
        BY <2>1
      <3>2. turn[t].out \in Seq(Chunk)
        BY DEF IInv, Types, TurnTypes, Turn
      <3>3. turn[t].out[j] \in Chunk
        BY <3>2, ElementOfSeq, LenProperties
      <3>4. x \in Execs /\ Registered(x)
        BY <1>2, <3>1, <3>3 DEF Announced, Chunk
      <3> QED
        BY <3>4 DEF SameRegister
    <2>2. CASE x \in Execs /\ Registered(x)
      BY <2>2 DEF SameRegister
    <2> QED
      BY <1>2, <2>1, <2>2 DEF SameCalls
  <1> QED
    BY <1>1, <1>2 DEF Announced

\* A step aside keeps all of it.
LEMMA AsideInv ==
    ASSUME IInv, BInv, Aside
    PROVE  BInv'
  <1>1. Scripts' /\ SameRegister
    BY ScriptsOn DEF BInv, Aside, SameHands
  <1>2. Accounts'
    <2>1. Boxes'
      BY DEF BInv, Accounts, Boxes, Aside, SameHands, SameCalls
    <2>2. \A x \in Execs : sent'[x] > 0 => Registered(x)
      BY DEF BInv, Accounts, Asked, Aside, SameHands
    <2>3. \A b \in Requests : life[b] # "none" => life'[b] # "none"
      BY DEF Aside, SameHands
    <2> QED
      BY <1>1, <2>1, <2>2, <2>3, AccountsOn DEF BInv, Aside, SameHands
  <1>3. Owned'
    <2> SUFFICES ASSUME NEW b \in Requests, life'[b] # "none", b \notin stray' PROVE OwnedAt(b)'
      BY DEF Owned
    <2>1. life[b] # "none" /\ b \notin stray /\ onData[b] \in Requests
      BY DEF Aside, SameHands, IInv, Wired, Types, BridgeTypes
    <2>2. Elsewhere(b)
      BY <2>1 DEF Elsewhere, Aside, SameHands, SameCalls, Holds, Waits
    <2> QED
      BY <2>1, <2>2, OwnedElsewhere DEF BInv, Owned
  <1>4. AllFound'
    <2> SUFFICES ASSUME NEW x \in Execs, Registered(x) PROVE Found(x)'
      BY <1>1 DEF AllFound, SameRegister
    <2>1. Found(x) /\ BridgeOf(x) \in Requests
      BY DEF BInv, AllFound, BridgeOf, Execs
    <2>2. Lost(BridgeOf(x)) => Lost(BridgeOf(x))'
      BY <2>1 DEF Lost, Aside, SameHands
    <2>3. \A r \in Requests : Held(x, r) => Held(x, r)'
      BY DEF Held, Aside, SameHands, Holding
    <2> QED
      BY <2>1, <2>2, <2>3 DEF Found, Aside, SameHands
  <1>5. Announced'
    BY <1>1, AnnouncedOn DEF BInv, Aside
  <1> QED
    BY <1>1, <1>2, <1>3, <1>4, <1>5 DEF BInv

--------------------------------------------------------------------------------
(* The steps of the programs.                                                   *)

\* Two programs that neither register nor announce a call.
LEMMA SilentJoin ==
    ASSUME NEW s \in Seq(Instr), NEW q \in Seq(Instr), Silent(s), Silent(q)
    PROVE  Silent(s \o q)
  <1>1. /\ s \o q \in Seq(Instr) /\ Len(s) \in Nat /\ Len(q) \in Nat
        /\ Len(s \o q) = Len(s) + Len(q)
        /\ \A i \in 1 .. Len(s) + Len(q) : (s \o q)[i] = IF i <= Len(s) THEN s[i] ELSE q[i - Len(s)]
    BY ConcatProperties, LenProperties
  <1>2. DOMAIN s = 1 .. Len(s) /\ DOMAIN q = 1 .. Len(q)
    BY LenProperties
  <1>3. DOMAIN (s \o q) = 1 .. Len(s) + Len(q)
    BY <1>1, LenProperties
  <1>4. ASSUME NEW i \in DOMAIN (s \o q)
        PROVE  (\E j \in DOMAIN s : (s \o q)[i] = s[j]) \/ (\E j \in DOMAIN q : (s \o q)[i] = q[j])
    <2>1. CASE i <= Len(s)
      BY <1>1, <1>2, <1>3, <2>1
    <2>2. CASE ~(i <= Len(s))
      <3>1. i - Len(s) \in DOMAIN q
        BY <1>1, <1>2, <1>3, <2>2
      <3> QED
        BY <1>1, <1>3, <2>2, <3>1
    <2> QED
      BY <2>1, <2>2
  <1> QED
    BY <1>4 DEF Silent

\* A step that is none of the two.
LEMMA SilentStep ==
    ASSUME NEW o \in Instr, o.do # "register", ~IsCalls(o)
    PROVE  <<o>> \in Seq(Instr) /\ Silent(<<o>>)
  <1>1. <<o>> \in Seq(Instr) /\ Len(<<o>>) = 1 /\ <<o>>[1] = o
    BY OneStep
  <1>2. DOMAIN <<o>> = 1 .. 1
    BY <1>1, LenProperties
  <1>3. \A i \in DOMAIN <<o>> : i = 1
    BY <1>2
  <1> QED
    BY <1>1, <1>3 DEF Silent

\* One goroutine goes on.
LEMMA OneGoesOn ==
    ASSUME todo \in [Procs -> Seq(Instr)], NEW p \in Procs, NEW q, Narrows(todo[p], q),
           todo' = [todo EXCEPT ![p] = q]
    PROVE  GoesOn
  <1>1. \A w \in Procs : todo'[w] = todo[w] \/ (w = p /\ todo'[w] = q)
    OBVIOUS
  <1> QED
    BY <1>1, SilentNarrows DEF GoesOn

\* A step that is no register has been done.
LEMMA PopGoesOn ==
    ASSUME IInv, NEW p \in Procs, todo[p] # << >>, todo[p][1].do # "register", Pop(p)
    PROVE  GoesOn
  <1>1. todo \in [Procs -> Seq(Instr)] /\ todo[p] \in Seq(Instr)
    BY DEF IInv, Types, TurnTypes
  <1>2. Narrows(todo[p], Tail(todo[p]))
    BY <1>1, TailNarrows
  <1> QED
    BY <1>1, <1>2, OneGoesOn DEF Pop

\* The look at a heartbeat that beats.
LEMMA HeartGoesOn ==
    ASSUME IInv, NEW p \in Procs, todo[p] # << >>, todo[p][1].do \in {"heart", "cleanup"},
           NEW what \in OfHeart, NEW b \in Requests, Then(p, <<Do(what, b)>>)
    PROVE  GoesOn
  <1> DEFINE s == todo[p]
             h == Do(what, b)
             q == <<h>> \o Tail(s)
  <1>1. todo \in [Procs -> Seq(Instr)] /\ s \in Seq(Instr)
    BY DEF IInv, Types, TurnTypes
  <1>2. h \in Instr /\ h.do \in OfHeart
    BY Steps DEF Do, Bare
  <1>3. /\ Len(s) \in Nat /\ Len(s) >= 1 /\ DOMAIN s = 1 .. Len(s)
        /\ Tail(s) \in Seq(Instr) /\ Len(Tail(s)) = Len(s) - 1
        /\ \A i \in 1 .. Len(s) - 1 : Tail(s)[i] = s[i + 1]
    BY <1>1, Parts
  <1>4. /\ DOMAIN q = 1 .. Len(Tail(s)) + 1 /\ q[1] = h
        /\ \A i \in 2 .. Len(Tail(s)) + 1 : q[i] = Tail(s)[i - 1]
    BY <1>2, <1>3, InFront
  <1>5. todo' = [todo EXCEPT ![p] = q]
    BY DEF Then
  <1> HIDE DEF q, h
  <1>6. DOMAIN q = DOMAIN s
    BY <1>3, <1>4
  <1>7. \A i \in DOMAIN s : i # 1 => q[i] = s[i]
    <2> SUFFICES ASSUME NEW i \in DOMAIN s, i # 1 PROVE q[i] = s[i]
      OBVIOUS
    <2>1. i \in 2 .. Len(Tail(s)) + 1 /\ i - 1 \in 1 .. Len(s) - 1 /\ (i - 1) + 1 = i
      BY <1>3
    <2> QED
      BY <1>3, <1>4, <2>1
  <1>8. /\ s[1].do # "register" /\ ~IsCalls(s[1])
        /\ q[1].do # "register" /\ ~IsCalls(q[1])
    BY <1>2, <1>4 DEF IsCalls, OfHeart
  <1>9. \A i \in DOMAIN s : q[i].do = "register" \/ s[i].do = "register" \/ IsCalls(q[i]) \/ IsCalls(s[i])
                               => q[i] = s[i]
    BY <1>7, <1>8
  <1>10. Narrows(s, q)
    BY <1>6, <1>9 DEF Narrows, Scripted, Registers
  <1> HIDE DEF s
  <1> QED
    BY <1>1, <1>5, <1>10, OneGoesOn DEF s

\* The rest of runStream's OnClose.
LEMMA FinalGoesOn ==
    ASSUME IInv, NEW p \in Procs, todo[p] # << >>, todo[p][1].do = "final",
           NEW t \in Requests, t = todo[p][1].turn, NEW code, Final(p, t, code)
    PROVE  GoesOn
  <1> DEFINE s == todo[p]
             f == <<Do("finish", t)>>
             er == <<Emit(t, "error", None)>>
             us == <<Emit(t, "usage", None)>>
             st == <<Emit(t, "stop", None)>>
             fail == <<Emit(t, "error", None), Emit(t, "usage", None)>>
             ok == <<Emit(t, "stop", None), Emit(t, "usage", None)>>
             drop == <<Do("drop", t)>>
             T == turn[t]
             bad == ~T.turnEnded \/ (code # "eof" /\ ~T.terminal)
             rest ==
                CASE T.state # "open" -> << >>
                  [] T.state = "open" /\ (T.cancelled \/ T.calls # {}) ->
                        IF T.calls # {} /\ code # "eof" THEN fail ELSE << >>
                  [] OTHER -> IF bad THEN drop \o fail ELSE ok
  <1>1. Program(s, t, turn[t].bridge) /\ s \in Seq(Instr) /\ todo \in [Procs -> Seq(Instr)]
    BY Whose DEF OfHeart, IInv, Types, TurnTypes
  <1>2. /\ Len(s) \in Nat /\ 1 \in DOMAIN s /\ DOMAIN s = 1 .. Len(s)
        /\ (Len(s) = 1 => Tail(s) = << >>)
    BY <1>1, Parts
  <1>3. Len(s) = 1
    BY <1>1, <1>2 DEF Program
  <1>4. Silent(s)
    <2>1. \A i \in DOMAIN s : i = 1
      BY <1>2, <1>3
    <2> QED
      BY <2>1 DEF Silent, IsCalls
  <1>5. /\ f \in Seq(Instr) /\ Silent(f) /\ drop \in Seq(Instr) /\ Silent(drop)
        /\ er \in Seq(Instr) /\ Silent(er) /\ us \in Seq(Instr) /\ Silent(us)
        /\ st \in Seq(Instr) /\ Silent(st)
    <2>1. Do("finish", t) \in Instr /\ Do("drop", t) \in Instr
      BY Steps DEF Bare
    <2>2. \A k \in {"error", "usage", "stop"} : Emit(t, k, None) \in Instr
      BY Steps
    <2>3. /\ Do("finish", t).do # "register" /\ ~IsCalls(Do("finish", t))
          /\ Do("drop", t).do # "register" /\ ~IsCalls(Do("drop", t))
      BY DEF Do, IsCalls
    <2>4. \A k \in {"error", "usage", "stop"} :
             Emit(t, k, None).do # "register" /\ ~IsCalls(Emit(t, k, None))
      BY DEF Emit, IsCalls
    <2> QED
      BY <2>1, <2>2, <2>3, <2>4, SilentStep
  <1>6. fail = er \o us /\ ok = st \o us
    OBVIOUS
  <1>7. todo' = [todo EXCEPT ![p] = (rest \o f) \o Tail(s)]
    BY DEF Final, Then
  <1>8. Silent(<< >>) /\ << >> \in Seq(Instr)
    BY SilentNarrows, EmptySeq
  <1> HIDE DEF f, er, us, st, fail, ok, drop, bad
  <1>9. fail \in Seq(Instr) /\ Silent(fail) /\ ok \in Seq(Instr) /\ Silent(ok)
    BY <1>5, <1>6, SilentJoin, ConcatProperties
  <1>10. drop \o fail \in Seq(Instr) /\ Silent(drop \o fail)
    BY <1>5, <1>9, SilentJoin, ConcatProperties
  <1>11. rest \in Seq(Instr) /\ Silent(rest)
    <2>1. rest \in {<< >>, fail, drop \o fail, ok}
      OBVIOUS
    <2> HIDE DEF rest
    <2> QED
      BY <1>8, <1>9, <1>10, <2>1
  <1> HIDE DEF rest
  <1>12. rest \o f \in Seq(Instr) /\ Silent(rest \o f)
    BY <1>5, <1>11, SilentJoin, ConcatProperties
  <1>13. (rest \o f) \o Tail(s) = rest \o f
    BY <1>2, <1>3, <1>12, ConcatEmptySeq
  <1>14. Narrows(s, rest \o f)
    BY <1>4, <1>12, SilentNarrows
  <1> QED
    BY <1>1, <1>7, <1>13, <1>14, OneGoesOn

\* A stream is changed, not what it was asked for and what it has said of that.
LEMMA OneTurnCalls ==
    ASSUME turn \in [Requests -> Turn], NEW t \in Requests, NEW T, turn' = [turn EXCEPT ![t] = T],
           T.calls = turn[t].calls, T.bridge = turn[t].bridge, T.out = turn[t].out
    PROVE  SameCalls
  <1>1. \A u \in Requests : /\ turn'[u].calls = turn[u].calls /\ turn'[u].bridge = turn[u].bridge
                            /\ turn'[u].out = turn[u].out
    OBVIOUS
  <1> QED
    BY <1>1 DEF SameCalls

\* Nothing is said.
LEMMA StillCalls ==
    ASSUME turn' = turn
    PROVE  SameCalls
  BY DEF SameCalls

\* No goroutine goes on.
LEMMA StillGoesOn ==
    ASSUME todo' = todo
    PROVE  GoesOn
  BY SilentNarrows DEF GoesOn

\* Nothing changes hands.
LEMMA StillHands ==
    ASSUME UNCHANGED <<active, pending, sent, asked, onData, taken, stray, displaced>>,
           UNCHANGED <<life, pc, ask>>, ended \subseteq ended'
    PROVE  SameHands
  BY DEF SameHands

\* One chunk more in a channel.
LEMMA OneMore ==
    ASSUME NEW s \in Seq(Chunk), NEW c \in Chunk
    PROVE  /\ Append(s, c) \in Seq(Chunk)
           /\ \A i \in DOMAIN Append(s, c) :
                 Append(s, c)[i] = c \/ \E j \in DOMAIN s : s[j] = Append(s, c)[i]
  <1> DEFINE o == Append(s, c)
  <1>1. /\ o \in Seq(Chunk) /\ Len(o) = Len(s) + 1
        /\ \A i \in 1 .. Len(s) : o[i] = s[i]
        /\ o[Len(s) + 1] = c
    BY AppendProperties
  <1>2. DOMAIN s = 1 .. Len(s) /\ Len(s) \in Nat
    BY LenProperties
  <1>3. DOMAIN o = 1 .. Len(o)
    BY <1>1, LenProperties
  <1> HIDE DEF o
  <1>4. ASSUME NEW i \in DOMAIN o PROVE o[i] = c \/ \E j \in DOMAIN s : s[j] = o[i]
    <2>1. i \in 1 .. Len(s) \/ i = Len(s) + 1
      BY <1>1, <1>2, <1>3
    <2> QED
      BY <1>1, <1>2, <2>1
  <1> QED
    BY <1>1, <1>4 DEF o

\* A chunk is sent, an announcement of a call behind its registration.
LEMMA SendCalls ==
    ASSUME IInv, Scripts, NEW p \in Procs, todo[p] # << >>, todo[p][1].do = "emit",
           NEW t \in Requests, t = todo[p][1].turn, NEW chunk, chunk = todo[p][1].chunk,
           EmitSend(p, t, chunk)
    PROVE  SameCalls
  <1> DEFINE s == todo[p]
             e == IF chunk.kind \in Terminal THEN turn[t].ends + 1 ELSE turn[t].ends
             o == Append(turn[t].out, chunk)
  <1>1. /\ turn \in [Requests -> Turn] /\ turn[t] \in Turn /\ s \in Seq(Instr) /\ s[1] \in Instr
        /\ 1 \in DOMAIN s
    <2>1. turn \in [Requests -> Turn] /\ turn[t] \in Turn /\ s \in Seq(Instr)
      BY DEF IInv, Types, TurnTypes
    <2> QED
      BY <2>1, Parts
  <1>2. chunk \in Chunk
    BY <1>1 DEF Instr, Bare, OfHeart
  <1>3. turn[t].out \in Seq(Chunk) /\ turn[t].ends \in Nat
    BY <1>1 DEF Turn
  <1>4. e \in Nat /\ o \in Seq(Chunk)
    BY <1>2, <1>3, OneMore
  <1>10. \A i \in DOMAIN o : o[i] = chunk \/ \E j \in DOMAIN turn[t].out : turn[t].out[j] = o[i]
    BY <1>2, <1>3, OneMore
  <1>5. turn' = [turn EXCEPT ![t] = Sent(turn[t], o, e)]
    BY DEF EmitSend, Sent
  <1> HIDE DEF e, o
  <1>6. /\ Sent(turn[t], o, e).bridge = turn[t].bridge /\ Sent(turn[t], o, e).calls = turn[t].calls
        /\ Sent(turn[t], o, e).out = o
    BY <1>1, <1>4, SentField
  <1>7. \A u \in Requests : turn'[u] = IF u = t THEN Sent(turn[t], o, e) ELSE turn[u]
    BY <1>1, <1>5
  <1>8. ASSUME chunk.kind = "calls" PROVE chunk.exec \in Execs /\ Registered(chunk.exec)
    <2>1. IsCalls(s[1])
      BY <1>8 DEF IsCalls
    <2>2. p = reader(BridgeOf(chunk.exec)) /\ Issued(chunk.exec)
      BY <1>1, <2>1 DEF Scripts, Sound
    <2>3. chunk.exec \in Execs
      BY <1>2, <1>8 DEF Chunk
    <2>4. Scripted(s)
      BY <2>2, <2>3 DEF Scripts, BridgeOf, Execs
    <2>5. ~Registers(s, chunk.exec)
      BY <1>1, <2>1, <2>4, TailNarrows
    <2> QED
      BY <2>2, <2>3, <2>5 DEF Registered
  <1>9. ASSUME NEW i \in DOMAIN o, o[i].kind = "calls"
        PROVE  \/ \E j \in DOMAIN turn[t].out : turn[t].out[j] = o[i]
               \/ o[i].exec \in Execs /\ Registered(o[i].exec)
    BY <1>8, <1>9, <1>10
  <1> QED
    BY <1>6, <1>7, <1>9 DEF SameCalls

\* A step that is no register leaves what waits where it is.
LEMMA StepHands ==
    ASSUME NEW p \in Procs, Step(p), todo[p][1].do # "register"
    PROVE  SameHands /\ known' = known
  <1> DEFINE o == todo[p][1]
             t == o.turn
             b == turn[t].bridge
  <1> USE StillHands DEF sessions, bridges, server, requests, clients, history
  <1>1. CASE EmitSkip(p, t) \/ EmitWait(p, t) \/ EmitSend(p, t, o.chunk)
    BY <1>1 DEF EmitSkip, EmitWait, EmitSend
  <1>2. CASE FinishBegin(p, t) \/ FinishEnd(p, t) \/ FinishAgain(p, t)
    BY <1>2 DEF FinishBegin, FinishEnd, FinishAgain
  <1>3. ASSUME NEW c, NEW cancel, Heart(p, c, cancel) \/ CloseHeart(p, c, cancel)
        PROVE  SameHands /\ known' = known
    <2>1. ended \subseteq ended'
      BY <1>3 DEF Heart, CloseHeart, EndsBridge
    <2>2. UNCHANGED <<sessions, life, onData, server, requests, clients, history>>
      BY <1>3 DEF Heart, CloseHeart
    <2> QED
      BY <2>1, <2>2
  <1>4. CASE Drop(p) \/ Checkpoint(p, t) \/ Keep(p, t)
    BY <1>4 DEF Drop, Checkpoint, Keep
  <1>5. CASE Final(p, t, o.chunk) \/ TurnEnded(p, t)
    BY <1>5 DEF Final, TurnEnded
  <1> HIDE DEF t, b
  <1> QED
    BY <1>1, <1>2, <1>3, <1>4, <1>5 DEF Step, t, b

\* Its goroutine goes on.
LEMMA StepGoesOn ==
    ASSUME IInv, NEW p \in Procs, Step(p), todo[p][1].do # "register"
    PROVE  GoesOn
  <1> DEFINE o == todo[p][1]
             t == o.turn
             b == turn[t].bridge
  <1>1. todo[p] # << >>
    BY DEF Step
  <1>2. CASE Pop(p)
    BY <1>1, <1>2, PopGoesOn
  <1>3. CASE todo' = todo
    BY <1>3, StillGoesOn
  <1>4. ASSUME NEW c \in Requests, NEW cancel, o.do \in {"heart", "cleanup"}, Heart(p, c, cancel)
        PROVE  GoesOn
    <2>1. CASE heart[c] = "on"
      <3>1. Then(p, <<Do(IF cancel THEN "cleanupClose" ELSE "heartClose", c)>>)
        BY <1>4, <2>1 DEF Heart
      <3>2. (IF cancel THEN "cleanupClose" ELSE "heartClose") \in OfHeart
        BY DEF OfHeart
      <3> QED
        BY <1>1, <1>4, <3>1, <3>2, HeartGoesOn
    <2>2. CASE heart[c] # "on"
      BY <1>2, <1>4, <2>2 DEF Heart
    <2> QED
      BY <2>1, <2>2
  <1>5. ASSUME o.do \in {"heart", "cleanup"} PROVE b \in Requests
    <2>1. todo[p] \in Seq(Instr) /\ About(todo[p], Based)
      BY DEF IInv, Types, TurnTypes, Programs
    <2>2. 1 \in DOMAIN todo[p]
      BY <1>1, <2>1, Parts
    <2>3. t \in Based
      BY <2>1, <2>2 DEF About
    <2> QED
      BY <2>3 DEF Based, IInv, Types, TurnTypes, Turn
  <1>6. ASSUME o.do = "final", Final(p, t, o.chunk) PROVE GoesOn
    <2>1. t \in Requests
      BY <1>1, <1>6, Whose DEF OfHeart
    <2> QED
      BY <1>1, <1>6, <2>1, FinalGoesOn
  <1>7. CASE EmitSkip(p, t) \/ EmitSend(p, t, o.chunk)
    BY <1>2, <1>7 DEF EmitSkip, EmitSend
  <1>8. CASE EmitWait(p, t)
    BY <1>3, <1>8 DEF EmitWait
  <1>9. CASE FinishBegin(p, t) \/ FinishEnd(p, t) \/ FinishAgain(p, t)
    BY <1>2, <1>3, <1>9 DEF FinishBegin, FinishEnd, FinishAgain
  <1>10. CASE Drop(p) \/ Checkpoint(p, t) \/ Keep(p, t) \/ TurnEnded(p, t)
    BY <1>2, <1>10 DEF Drop, Checkpoint, Keep, TurnEnded
  <1>11. ASSUME NEW c, NEW cancel, CloseHeart(p, c, cancel) PROVE GoesOn
    BY <1>2, <1>11 DEF CloseHeart
  <1>12. ASSUME NEW cancel, o.do \in {"heart", "cleanup"}, Heart(p, b, cancel) PROVE GoesOn
    BY <1>4, <1>5, <1>12
  <1>13. \/ EmitSkip(p, t) \/ EmitWait(p, t) \/ EmitSend(p, t, o.chunk)
         \/ FinishBegin(p, t) \/ FinishEnd(p, t) \/ FinishAgain(p, t)
         \/ \E cancel \in BOOLEAN : o.do \in {"heart", "cleanup"} /\ Heart(p, b, cancel)
         \/ \E cancel \in BOOLEAN : CloseHeart(p, t, cancel)
         \/ Drop(p) \/ Checkpoint(p, t) \/ Keep(p, t) \/ TurnEnded(p, t)
         \/ o.do = "final" /\ Final(p, t, o.chunk)
    BY DEF Step
  <1> HIDE DEF t, b
  <1> QED
    BY <1>6, <1>7, <1>8, <1>9, <1>10, <1>11, <1>12, <1>13

\* And its stream has been asked for the same calls.
LEMMA StepCalls ==
    ASSUME IInv, Scripts, NEW p \in Procs, Step(p), todo[p][1].do # "register"
    PROVE  SameCalls
  <1> DEFINE o == todo[p][1]
             t == o.turn
             b == turn[t].bridge
  <1>1. todo[p] # << >> /\ turn \in [Requests -> Turn]
    BY DEF Step, IInv, Types, TurnTypes
  <1>2. CASE turn' = turn
    BY <1>2, StillCalls
  <1>3. ASSUME o.do \notin OfHeart \cup {"cleanup"} PROVE t \in Requests /\ turn[t] \in Turn
    BY <1>1, <1>3, Whose
  <1>4. ASSUME o.do = "emit", EmitSend(p, t, o.chunk) PROVE SameCalls
    BY <1>1, <1>3, <1>4, SendCalls DEF OfHeart
  <1>5. ASSUME NEW field \in {"emitMu", "state", "turnEnded"}, NEW v, SetTurn(t, field, v),
               o.do \notin OfHeart \cup {"cleanup"}
        PROVE  SameCalls
    <2> DEFINE T == [turn[t] EXCEPT ![field] = v]
    <2>1. t \in Requests /\ turn[t] \in Turn
      BY <1>3, <1>5
    <2>2. T.calls = turn[t].calls /\ T.bridge = turn[t].bridge /\ T.out = turn[t].out
      BY <2>1 DEF Turn
    <2>3. turn' = [turn EXCEPT ![t] = T]
      BY <1>5 DEF SetTurn
    <2> HIDE DEF T, t
    <2> QED
      BY <1>1, <2>1, <2>2, <2>3, OneTurnCalls
  <1>6. ASSUME o.do = "emit", EmitWait(p, t) PROVE SameCalls
    BY <1>5, <1>6 DEF EmitWait, OfHeart
  <1>7. ASSUME o.do = "ended", TurnEnded(p, t) PROVE SameCalls
    BY <1>5, <1>7 DEF TurnEnded, OfHeart
  <1>8. ASSUME o.do = "finish", FinishBegin(p, t) \/ FinishEnd(p, t) PROVE SameCalls
    <2>1. CASE SetTurn(t, "state", "closed")
      BY <1>5, <1>8, <2>1 DEF OfHeart
    <2>2. CASE turn' = [turn EXCEPT ![t] = [@ EXCEPT !.state = "closing", !.by = p]]
      <3> DEFINE T == [turn[t] EXCEPT !.state = "closing", !.by = p]
      <3>1. t \in Requests /\ turn[t] \in Turn
        BY <1>3, <1>8 DEF OfHeart
      <3>2. T.calls = turn[t].calls /\ T.bridge = turn[t].bridge /\ T.out = turn[t].out
        BY <3>1 DEF Turn
      <3>3. turn' = [turn EXCEPT ![t] = T]
        BY <2>2
      <3> HIDE DEF T, t
      <3> QED
        BY <1>1, <3>1, <3>2, <3>3, OneTurnCalls
    <2> QED
      BY <1>8, <2>1, <2>2 DEF FinishBegin, FinishEnd
  <1>9. ASSUME o.do = "checkpoint", Checkpoint(p, t) PROVE SameCalls
    <2> DEFINE l == IF Opened(t) THEN {blobs[t]} ELSE turn[t].latest
               m == turn[t].terminal \/ (Opened(t) /\ turn[t].turnEnded)
    <2>1. t \in Requests /\ turn[t] \in Turn /\ blobs[t] \in SUBSET Blobs
      BY <1>3, <1>9 DEF OfHeart, IInv, Types, SessionTypes
    <2>2. l \in SUBSET (SUBSET Blobs) /\ m \in BOOLEAN
      BY <2>1 DEF Turn
    <2>3. turn' = [turn EXCEPT ![t] = Noted(turn[t], l, m)]
      BY <1>9 DEF Checkpoint, Noted
    <2> HIDE DEF l, m, t
    <2>4. /\ Noted(turn[t], l, m).calls = turn[t].calls /\ Noted(turn[t], l, m).bridge = turn[t].bridge
          /\ Noted(turn[t], l, m).out = turn[t].out
      BY <2>1, <2>2, CheckpointField
    <2> QED
      BY <1>1, <2>1, <2>3, <2>4, OneTurnCalls
  <1>10. ASSUME EmitSkip(p, t) \/ FinishAgain(p, t) \/ Drop(p) \/ Keep(p, t) \/ Final(p, t, o.chunk)
         PROVE  SameCalls
    BY <1>2, <1>10 DEF EmitSkip, FinishAgain, Drop, Keep, Final
  <1>11. ASSUME NEW c, NEW cancel, Heart(p, c, cancel) \/ CloseHeart(p, c, cancel) PROVE SameCalls
    BY <1>2, <1>11 DEF Heart, CloseHeart
  <1> HIDE DEF t, b
  <1> QED
    BY <1>4, <1>6, <1>7, <1>8, <1>9, <1>10, <1>11 DEF Step, t, b

\* So it goes aside of the bridges.
LEMMA StepAside ==
    ASSUME IInv, Scripts, NEW p \in Procs, Step(p), todo[p][1].do # "register"
    PROVE  Aside
  BY StepHands, StepGoesOn, StepCalls DEF Aside, Heard

--------------------------------------------------------------------------------
(* The other steps aside.                                                       *)

\* The programs of a stream that is closed, of a watcher and of a request that cleans up
\* are about no call.
LEMMA SilentPrograms ==
    ASSUME NEW t \in Requests
    PROVE  /\ Silent(Cleanup(t))
           /\ \A code \in Codes : Silent(OnClosedFirst(t, code)) /\ Silent(OnClosed(t, code))
           /\ \A opened \in BOOLEAN :
                 Silent((IF opened THEN <<Do("drop", t)>> ELSE << >>) \o Cleanup(t) \o <<Do("finish", t)>>)
  <1>1. \A what \in Bare : <<Do(what, t)>> \in Seq(Instr) /\ Silent(<<Do(what, t)>>)
    <2>1. \A what \in Bare : Do(what, t) \in Instr
      BY Steps
    <2>2. \A what \in Bare : Do(what, t).do # "register" /\ ~IsCalls(Do(what, t))
      BY DEF Do, IsCalls, Bare, OfHeart
    <2> QED
      BY <2>1, <2>2, SilentStep
  <1>2. \A k \in {"stop", "error"} : <<Emit(t, k, None)>> \in Seq(Instr) /\ Silent(<<Emit(t, k, None)>>)
    <2>1. \A k \in {"stop", "error"} : Emit(t, k, None) \in Instr
      BY Steps
    <2>2. \A k \in {"stop", "error"} : Emit(t, k, None).do # "register" /\ ~IsCalls(Emit(t, k, None))
      BY DEF Emit, IsCalls
    <2> QED
      BY <2>1, <2>2, SilentStep
  <1>3. /\ "drop" \in Bare /\ "finish" \in Bare /\ "cleanup" \in Bare /\ "heart" \in Bare
        /\ "keep" \in Bare
    BY DEF Bare
  <1>4. Cleanup(t) \in Seq(Instr) /\ Silent(Cleanup(t))
    BY <1>1, <1>3 DEF Cleanup
  <1>5. << >> \in Seq(Instr) /\ Silent(<< >>)
    BY SilentNarrows, EmptySeq
  <1>6. ASSUME NEW code \in Codes PROVE Silent(OnClosedFirst(t, code))
    <2> DEFINE a == Do("heart", t)
               b == Do("keep", t)
               c == [do |-> "final", turn |-> t, chunk |-> code]
    <2>1. /\ a.do # "register" /\ ~IsCalls(a) /\ b.do # "register" /\ ~IsCalls(b)
          /\ c.do # "register" /\ ~IsCalls(c)
      BY DEF Do, IsCalls
    <2>2. OnClosedFirst(t, code) = <<a, b, c>>
      BY DEF OnClosedFirst
    <2> HIDE DEF a, b, c
    <2>3. \A i \in DOMAIN <<a, b, c>> : <<a, b, c>>[i] \in {a, b, c}
      OBVIOUS
    <2> QED
      BY <2>1, <2>2, <2>3 DEF Silent
  <1>7. ASSUME NEW code \in Codes PROVE Silent(OnClosed(t, code))
    <2> DEFINE f == Do("finish", t)
    <2>1. ASSUME NEW k \in {"stop", "error"} PROVE Silent(<<Emit(t, k, None), f>>)
      <3>1. <<Emit(t, k, None), f>> = <<Emit(t, k, None)>> \o <<f>>
        OBVIOUS
      <3>2. <<f>> \in Seq(Instr) /\ Silent(<<f>>)
        BY <1>1, <1>3
      <3> HIDE DEF f
      <3> QED
        BY <1>2, <3>1, <3>2, SilentJoin
    <2>2. CASE Opened(t)
      BY <1>6, <2>2 DEF OnClosed
    <2>3. CASE ~Opened(t)
      BY <2>1, <2>3 DEF OnClosed
    <2> QED
      BY <2>2, <2>3
  <1>8. ASSUME NEW opened \in BOOLEAN
        PROVE  Silent((IF opened THEN <<Do("drop", t)>> ELSE << >>) \o Cleanup(t) \o <<Do("finish", t)>>)
    <2> DEFINE d == IF opened THEN <<Do("drop", t)>> ELSE << >>
               f == <<Do("finish", t)>>
    <2>1. d \in Seq(Instr) /\ Silent(d) /\ f \in Seq(Instr) /\ Silent(f)
      BY <1>1, <1>3, <1>5
    <2> HIDE DEF d, f
    <2>2. d \o Cleanup(t) \in Seq(Instr) /\ Silent(d \o Cleanup(t))
      BY <1>4, <2>1, SilentJoin, ConcatProperties
    <2>3. Silent(d \o Cleanup(t) \o f)
      BY <2>1, <2>2, SilentJoin
    <2> QED
      BY <2>3 DEF d, f
  <1> QED
    BY <1>4, <1>6, <1>7, <1>8

\* A goroutine that has nothing to do, or cleans up, gets a program that is about no call.
LEMMA SilentGoesOn ==
    ASSUME IInv, NEW p \in Procs, Silent(todo[p]), NEW q, Silent(q), todo' = [todo EXCEPT ![p] = q]
    PROVE  GoesOn
  <1>1. todo \in [Procs -> Seq(Instr)]
    BY DEF IInv, Types, TurnTypes
  <1>2. Narrows(todo[p], q)
    BY SilentNarrows
  <1> QED
    BY <1>1, <1>2, OneGoesOn

\* A request that cleans up a bridge is about no call.
LEMMA MainSilent ==
    ASSUME IInv, NEW r \in Requests
    PROVE  Silent(todo[main(r)])
  BY DEF IInv, Programs, HeartOnly, Silent, IsCalls, OfHeart

\* Nothing but the hands of the requests changes.
LEMMA QuietAside ==
    ASSUME SameHands, todo' = todo, turn' = turn, known' = known
    PROVE  Aside
  BY StillGoesOn, StillCalls DEF Aside, Heard

\* A request goes on, with no struct in its hands before and after.
LEMMA GoesHands ==
    ASSUME pc \in [Requests -> Stages], NEW r \in Requests, NEW where, Goes(r, where),
           pc[r] \in Holding <=> where \in Holding,
           pc[r] \in {"swap", "sending"} <=> where \in {"swap", "sending"},
           UNCHANGED <<active, pending, sent, asked, onData, taken, stray, displaced>>,
           UNCHANGED <<life, ended>>, pc[r] \notin Holding \/ ask' = ask,
           \A q \in Requests : q # r => ask'[q] = ask[q]
    PROVE  SameHands
  <1>1. \A q \in Requests : pc'[q] = IF q = r THEN where ELSE pc[q]
    BY DEF Goes
  <1> QED
    BY <1>1 DEF SameHands

\* The steps of a request that has no struct in its hands, and of its client.
LEMMA AloneAside ==
    ASSUME IInv, NEW r \in Requests,
           \/ Relock(r) \/ Prepare(r) \/ Build(r)
           \/ Taken(r) /\ life[BridgeOf(taken[r])] = "alive"
           \/ WatchDone(r) \/ Leave(r) \/ Evict
    PROVE  Aside
  <1> USE DEF sessions, bridges, server, requests, clients, history
  <1>1. pc \in [Requests -> Stages]
    BY DEF IInv, Types, TurnTypes
  <1>2. todo' = todo /\ turn' = turn /\ known' = known
    BY DEF Relock, Prepare, Build, Taken, WatchDone, Leave, Evict
  <1>3. CASE Relock(r)
    <2>1. /\ pc[r] = "relock" /\ Goes(r, "prepare") /\ ask' = ask /\ UNCHANGED <<life, ended>>
          /\ UNCHANGED <<active, pending, sent, asked, onData, taken, stray, displaced>>
      BY <1>3 DEF Relock
    <2> QED
      BY <1>1, <1>2, <2>1, GoesHands, QuietAside DEF Holding
  <1>4. CASE Prepare(r)
    <2>1. /\ pc[r] = "prepare" /\ Goes(r, "build") /\ ask' = ask /\ UNCHANGED <<life, ended>>
          /\ UNCHANGED <<active, pending, sent, asked, onData, taken, stray, displaced>>
      BY <1>4 DEF Prepare
    <2> QED
      BY <1>1, <1>2, <2>1, GoesHands, QuietAside DEF Holding
  <1>5. CASE Build(r)
    <2>1. /\ pc[r] = "build" /\ Goes(r, "open") /\ ask' = ask /\ UNCHANGED <<life, ended>>
          /\ UNCHANGED <<active, pending, sent, asked, onData, taken, stray, displaced>>
      BY <1>5 DEF Build
    <2> QED
      BY <1>1, <1>2, <2>1, GoesHands, QuietAside DEF Holding
  <1>6. CASE Taken(r) /\ life[BridgeOf(taken[r])] = "alive"
    <2>1. /\ pc[r] = "taken" /\ Goes(r, "resume") /\ ask' = ask /\ UNCHANGED <<life, ended>>
          /\ UNCHANGED <<active, pending, sent, asked, onData, taken, stray, displaced>>
      BY <1>6 DEF Taken
    <2> QED
      BY <1>1, <1>2, <2>1, GoesHands, QuietAside DEF Holding
  <1>7. CASE WatchDone(r) \/ Leave(r) \/ Evict
    <2>1. /\ UNCHANGED <<active, pending, sent, asked, onData, taken, stray, displaced>>
          /\ UNCHANGED <<life, pc, ask, ended>>
      BY <1>7 DEF WatchDone, Leave, Evict
    <2> QED
      BY <1>2, <2>1, StillHands, QuietAside
  <1> QED
    BY <1>3, <1>4, <1>5, <1>6, <1>7

\* A client hears of calls that were announced.
LEMMA ToldRegistered ==
    ASSUME IInv, Announced, NEW t \in Requests, NEW s \in Seq(Chunk),
           \A i \in DOMAIN s : \E j \in DOMAIN turn[t].out : turn[t].out[j] = s[i],
           known' \subseteq known \cup Told(s)
    PROVE  Heard
  <1> SUFFICES ASSUME NEW i \in DOMAIN s, s[i].kind = "calls"
               PROVE  s[i].exec \in Execs /\ Registered(s[i].exec)
    BY DEF Heard, Told, ToSet
  <1>1. s[i] \in Chunk
    OBVIOUS
  <1>2. s[i].exec \in Execs
    BY <1>1 DEF Chunk
  <1>3. Registered(s[i].exec)
    BY DEF Announced
  <1> QED
    BY <1>2, <1>3

\* The client reads a chunk.
LEMMA ReceiveAside ==
    ASSUME IInv, Announced, NEW t \in Requests, Receive(t)
    PROVE  Aside
  <1> DEFINE s == turn[t].out
             U == [turn[t] EXCEPT !["out"] = Tail(s)]
  <1>1. /\ s # << >> /\ known' = known \cup Told(<<s[1]>>)
        /\ turn' = [turn EXCEPT ![t] = U]
        /\ UNCHANGED <<sessions, bridges, server, requests, todo, history>>
    BY DEF Receive, SetTurn
  <1>2. turn \in [Requests -> Turn] /\ turn[t] \in Turn /\ s \in Seq(Chunk)
    BY DEF IInv, Types, TurnTypes, Turn
  <1>3. /\ Len(s) \in Nat /\ DOMAIN s = 1 .. Len(s) /\ s[1] \in Chunk /\ 1 \in DOMAIN s
        /\ Tail(s) \in Seq(Chunk) /\ DOMAIN Tail(s) = 1 .. Len(s) - 1
        /\ \A i \in 1 .. Len(s) - 1 : Tail(s)[i] = s[i + 1]
    BY <1>1, <1>2, Parts
  <1>4. \A i \in DOMAIN Tail(s) : \E j \in DOMAIN s : s[j] = Tail(s)[i]
    <2> SUFFICES ASSUME NEW i \in DOMAIN Tail(s) PROVE i + 1 \in DOMAIN s /\ s[i + 1] = Tail(s)[i]
      OBVIOUS
    <2> QED
      BY <1>3
  <1>5. U.out = Tail(s) /\ U.calls = turn[t].calls /\ U.bridge = turn[t].bridge
    BY <1>2, <1>3, OutField
  <1>6. SameCalls
    <2> HIDE DEF U
    <2>1. \A u \in Requests : turn'[u] = IF u = t THEN U ELSE turn[u]
      BY <1>1, <1>2
    <2> QED
      BY <1>4, <1>5, <2>1 DEF SameCalls
  <1>7. Heard
    <2>1. <<s[1]>> \in Seq(Chunk) /\ Len(<<s[1]>>) = 1 /\ <<s[1]>>[1] = s[1]
      BY <1>3, OneStep
    <2>2. DOMAIN <<s[1]>> = 1 .. 1
      BY <2>1, LenProperties
    <2>3. \A i \in DOMAIN <<s[1]>> : \E j \in DOMAIN turn[t].out : turn[t].out[j] = <<s[1]>>[i]
      BY <1>3, <2>1, <2>2
    <2> QED
      BY <1>1, <2>1, <2>3, ToldRegistered
  <1>8. SameHands
    BY <1>1, StillHands DEF sessions, bridges, server, requests, history
  <1> QED
    BY <1>1, <1>6, <1>7, <1>8, StillGoesOn DEF Aside

\* The handler returns, or never opens a bridge.
LEMMA OverAside ==
    ASSUME IInv, Announced, NEW r \in Requests,
           \/ Answer(r)
           \/ Open(r) /\ Goes(r, "over") /\ UNCHANGED <<bridges, turn, watching, todo>>
    PROVE  Aside
  <1>1. /\ Goes(r, "over") /\ pc[r] \in {"running", "open"} /\ UNCHANGED <<bridges, turn, todo>>
        /\ UNCHANGED <<sessions, server, ask, taken, history>>
        /\ known' \subseteq known \cup Told(turn[r].out)
    BY DEF Answer, Open, clients
  <1>2. turn[r].out \in Seq(Chunk) /\ pc \in [Requests -> Stages]
    BY DEF IInv, Types, TurnTypes, Turn
  <1>3. Heard
    BY <1>1, <1>2, ToldRegistered
  <1>4. SameHands
    BY <1>1, <1>2, GoesHands DEF Holding, sessions, bridges, server, history
  <1> QED
    BY <1>1, <1>3, <1>4, StillGoesOn, StillCalls DEF Aside

\* The watcher hears that the context is done.
LEMMA WatchCtxAside ==
    ASSUME IInv, NEW t \in Requests, WatchCtx(t)
    PROVE  Aside
  <1> DEFINE U == [turn[t] EXCEPT !.cancelled = TRUE]
  <1>1. PICK opened \in BOOLEAN : opened = Opened(t)
    BY DEF Opened
  <1> DEFINE q == (IF opened THEN <<Do("drop", t)>> ELSE << >>) \o Cleanup(t) \o <<Do("finish", t)>>
  <1>2. /\ t \in watching /\ todo' = [todo EXCEPT ![watcher(t)] = q]
        /\ turn' = turn \/ turn' = [turn EXCEPT ![t] = U]
        /\ UNCHANGED <<sessions, bridges, server, requests, clients, history>>
    BY <1>1 DEF WatchCtx, watcher
  <1>3. Silent(q)
    BY SilentPrograms
  <1> HIDE DEF q
  <1>4. watcher(t) \in Procs /\ Silent(todo[watcher(t)])
    <2>1. todo[watcher(t)] = << >>
      BY <1>2 DEF IInv, Placed, PlacedAt
    <2> QED
      BY <2>1, WorkerNames, SilentNarrows
  <1>5. GoesOn
    BY <1>2, <1>3, <1>4, SilentGoesOn
  <1>6. turn \in [Requests -> Turn] /\ turn[t] \in Turn
    BY DEF IInv, Types, TurnTypes
  <1>7. U.calls = turn[t].calls /\ U.bridge = turn[t].bridge /\ U.out = turn[t].out
    BY <1>6, CancelledField
  <1> HIDE DEF U
  <1>8. SameCalls
    BY <1>2, <1>6, <1>7, OneTurnCalls, StillCalls
  <1>9. SameHands /\ Heard
    BY <1>2, StillHands DEF Heard, sessions, bridges, server, requests, clients, history
  <1> QED
    BY <1>5, <1>8, <1>9 DEF Aside

\* A bridge closes.
LEMMA CloseAside ==
    ASSUME IInv, NEW b \in Requests, NEW code \in Codes, Close(b, code)
    PROVE  Aside
  <1>1. /\ Idle(b) /\ life' = [life EXCEPT ![b] = "dead"]
        /\ todo' = [todo EXCEPT ![reader(b)] = OnClosed(onClose[b], code)]
        /\ UNCHANGED <<sessions, ended, onData, server, requests, turn, clients, history>>
    BY DEF Close, reader
  <1>2. life \in [Requests -> {"none", "alive", "dead"}]
    BY DEF IInv, Types, BridgeTypes
  <1>3. onClose[b] \in Requests
    BY <1>1, <1>2 DEF IInv, Types, BridgeTypes, Wired, Idle
  <1>4. GoesOn
    <2>1. reader(b) \in Procs /\ Silent(todo[reader(b)])
      BY <1>1, WorkerNames, SilentNarrows DEF Idle, reader
    <2>2. PICK t \in Requests : t = onClose[b]
      BY <1>3
    <2>3. Silent(OnClosed(t, code))
      BY SilentPrograms
    <2> QED
      BY <1>1, <2>1, <2>2, <2>3, SilentGoesOn
  <1>5. SameHands
    <2>1. \A c \in Requests : life'[c] = life[c] \/ (life[c] = "alive" /\ life'[c] = "dead")
      BY <1>1, <1>2 DEF Idle
    <2> QED
      BY <1>1, <2>1 DEF SameHands, sessions, server, requests, history
  <1> QED
    BY <1>1, <1>4, <1>5, StillCalls DEF Aside, Heard, clients

\* The callback for the end of the bridge is set.
LEMMA SwapCloseAside ==
    ASSUME IInv, NEW r \in Requests, SwapClose(r)
    PROVE  Aside
  <1>1. /\ pc[r] = "swap" /\ Goes(r, "sending")
        /\ todo' = todo \/ todo' = [todo EXCEPT ![closer(r)] = OnClosed(r, "err")]
        /\ UNCHANGED <<sessions, life, ended, onData, server, ask, taken, turn, clients, history>>
    BY DEF SwapClose, closer
  <1>2. GoesOn
    <2>1. todo[closer(r)] = << >> /\ closer(r) \in Procs
      BY <1>1, WorkerNames DEF IInv, Placed, PlacedAt
    <2>2. Silent(OnClosed(r, "err")) /\ Silent(todo[closer(r)])
      BY <2>1, SilentPrograms, SilentNarrows DEF Codes
    <2> QED
      BY <1>1, <2>1, <2>2, SilentGoesOn, StillGoesOn
  <1>3. SameHands
    <2>1. pc \in [Requests -> Stages]
      BY DEF IInv, Types, TurnTypes
    <2>2. \A u \in Requests : pc'[u] = IF u = r THEN "sending" ELSE pc[u]
      BY <1>1, <2>1 DEF Goes
    <2> QED
      BY <1>1, <2>2 DEF SameHands, Holding, sessions, server, history
  <1> QED
    BY <1>1, <1>2, <1>3, StillCalls DEF Aside, Heard, clients

\* A request comes, and takes no bridge.
LEMMA EnterAside ==
    ASSUME IInv, NEW r \in Requests, Enter(r), active' = active
    PROVE  Aside
  <1>1. PICK results \in SUBSET known, where \in {"cleaning", "prepare"} :
           /\ ask' = [ask EXCEPT ![r] = results] /\ Goes(r, where) /\ taken' = taken
           /\ \/ todo' = todo
              \/ active # None /\ todo' = [todo EXCEPT ![main(r)] = Cleanup(BridgeOf(active))]
    BY DEF Enter
  <1>2. /\ pc[r] = "new"
        /\ UNCHANGED <<pending, bridges, server, turn, clients, stray, displaced>>
    BY DEF Enter
  <1>3. GoesOn
    <2>1. main(r) \in Procs /\ Silent(todo[main(r)])
      BY WorkerNames, MainSilent
    <2>2. ASSUME active # None PROVE Silent(Cleanup(BridgeOf(active)))
      <3>1. BridgeOf(active) \in Requests
        BY <2>2 DEF IInv, Types, SessionTypes, BridgeOf, Execs
      <3> QED
        BY <3>1, SilentPrograms
    <2> QED
      BY <1>1, <2>1, <2>2, SilentGoesOn, StillGoesOn
  <1>4. SameHands
    <2>1. pc \in [Requests -> Stages] /\ ask \in [Requests -> SUBSET Execs]
      BY DEF IInv, Types, TurnTypes
    <2>2. \A q \in Requests : q # r => ask'[q] = ask[q]
      BY <1>1, <2>1
    <2> QED
      BY <1>1, <1>2, <2>1, <2>2, GoesHands DEF Holding, bridges, server
  <1> QED
    BY <1>2, <1>3, <1>4, StillCalls DEF Aside, Heard, clients

--------------------------------------------------------------------------------
(* A struct goes from hand to hand.                                             *)

\* Only a request changes what it holds.
LEMMA HandOver ==
    ASSUME IInv, BInv, UNCHANGED <<pending, asked, onData, stray, life>>,
           UNCHANGED turn, GoesOn, Heard,
           ended \subseteq ended', displaced \subseteq displaced',
           NEW r \in Requests, \A q \in Requests : q # r => pc'[q] = pc[q] /\ taken'[q] = taken[q] /\ ask'[q] = ask[q],
           Boxes', \A x \in Execs : (sent[x] > 0 => sent'[x] > 0) /\ (sent'[x] > 0 => Registered(x)),
           \A b \in Requests : life[b] # "none" /\ b \notin stray /\ OwnedAt(b) => OwnedAt(b)',
           \A x \in Execs : Held(x, r) =>
              Held(x, r)' \/ sent'[x] > 0 \/ Lost(BridgeOf(x))' \/ (active' # None /\ x \in pending[active']),
           active # active' => \A x \in Execs : active # None /\ x \in pending[active] =>
              Held(x, r)' \/ sent'[x] > 0 \/ Lost(BridgeOf(x))' \/ (active' # None /\ x \in pending[active'])
    PROVE  BInv'
  <1>1. SameCalls
    BY StillCalls
  <1>2. Scripts' /\ SameRegister
    BY <1>1, ScriptsOn DEF BInv
  <1>3. Accounts'
    BY <1>1, <1>2, AccountsOn DEF BInv
  <1>4. Owned'
    BY DEF BInv, Owned
  <1>5. AllFound'
    <2> SUFFICES ASSUME NEW x \in Execs, Registered(x) PROVE Found(x)'
      BY <1>2 DEF AllFound, SameRegister
    <2>1. Found(x)
      BY DEF BInv, AllFound
    <2>2. CASE sent[x] > 0
      BY <2>2 DEF Found
    <2>3. CASE Lost(BridgeOf(x))
      BY <2>3 DEF Lost, Found
    <2>4. ASSUME NEW q \in Requests, Held(x, q) PROVE Found(x)'
      <3>1. CASE q = r
        BY <2>4, <3>1 DEF Found
      <3>2. CASE q # r
        BY <2>4, <3>2 DEF Found, Held
      <3> QED
        BY <3>1, <3>2
    <2>5. CASE active # None /\ x \in pending[active]
      BY <2>5 DEF Found
    <2> QED
      BY <2>1, <2>2, <2>3, <2>4, <2>5 DEF Found
  <1>6. Announced'
    BY <1>1, <1>2, AnnouncedOn DEF BInv
  <1> QED
    BY <1>2, <1>3, <1>4, <1>5, <1>6 DEF BInv

\* A request that brings results takes the struct that waits.
LEMMA TakesInv ==
    ASSUME IInv, BInv, NEW r \in Requests, Enter(r), active' # active
    PROVE  BInv'
  <1>1. /\ pc[r] = "new" /\ active # None /\ active' = None /\ todo' = todo
        /\ taken' = [taken EXCEPT ![r] = active] /\ Goes(r, "taken")
        /\ \E results \in SUBSET known : ask' = [ask EXCEPT ![r] = results]
        /\ UNCHANGED <<pending, bridges, server, turn, clients, stray, displaced>>
    BY DEF Enter
  <1>2. /\ taken \in [Requests -> Execs \cup {None}] /\ pc \in [Requests -> Stages]
        /\ ask \in [Requests -> SUBSET Execs]
    BY DEF IInv, Types, TurnTypes
  <1>3. /\ \A q \in Requests : q # r => pc'[q] = pc[q] /\ taken'[q] = taken[q] /\ ask'[q] = ask[q]
        /\ pc'[r] = "taken" /\ taken'[r] = active
    BY <1>1, <1>2 DEF Goes
  <1>4. Accounts
    BY DEF BInv
  <1>5. active \in Execs /\ pending[active] # {} /\ pending[active] \subseteq Execs
    BY <1>1, <1>4, WaitingStruct
  <1>6. Boxes'
    BY <1>1, <1>3, <1>4, <1>5 DEF Accounts, Boxes
  <1>7. ASSUME NEW b \in Requests, life[b] # "none", b \notin stray, OwnedAt(b) PROVE OwnedAt(b)'
    <2>1. CASE BridgeOf(active) = b
      <3>1. Waits(b) /\ \A q \in Requests : ~Holds(q, b)
        BY <1>1, <1>7, <2>1 DEF Waits, OwnedAt, OneHolder
      <3>2. \A q \in Requests : Holds(q, b)' => q = r
        BY <1>3, <3>1 DEF Holds
      <3>3. ~Waits(b)'
        BY <1>1 DEF Waits
      <3>4. pending[active] \subseteq turn[onData[b]].calls
        BY <1>7, <3>1 DEF OwnedAt, Waiting
      <3>5. OneHolder(b)' /\ Waiting(b)' /\ SentOnce(b)'
        BY <1>1, <1>7, <3>2, <3>3 DEF OneHolder, Waiting, SentOnce, OwnedAt, bridges, server
      <3>6. InHand(b)' /\ OnTheWay(b)'
        BY <1>1, <1>3, <3>2, <3>4 DEF InHand, OnTheWay, bridges
      <3> QED
        BY <3>5, <3>6 DEF OwnedAt
    <2>2. CASE BridgeOf(active) # b
      <3>1. \A q \in Requests : Holds(q, b)' => q # r /\ Holds(q, b)
        BY <1>3, <2>2 DEF Holds
      <3>2. onData[b] \in Requests
        BY <1>7 DEF IInv, Wired, Types, BridgeTypes
      <3>3. Elsewhere(b)
        BY <1>1, <1>3, <3>1, <3>2 DEF Elsewhere, Waits, bridges, server
      <3> QED
        BY <1>4, <1>7, <3>3, OwnedElsewhere
    <2> QED
      BY <2>1, <2>2
  <1>8. \A x \in Execs : x \in pending[active] => Held(x, r)'
    BY <1>1, <1>3 DEF Held
  <1>9. \A x \in Execs : ~Held(x, r)
    BY <1>1 DEF Held
  <1>10. \A x \in Execs : (sent[x] > 0 => sent'[x] > 0) /\ (sent'[x] > 0 => Registered(x))
    BY <1>1, <1>4 DEF Accounts, Asked, server
  <1>11. /\ UNCHANGED <<pending, asked, onData, stray, life, turn>>
         /\ ended \subseteq ended' /\ displaced \subseteq displaced' /\ Heard
    BY <1>1 DEF bridges, server, clients, Heard
  <1> QED
    BY <1>1, <1>3, <1>6, <1>7, <1>8, <1>9, <1>10, <1>11, HandOver, StillGoesOn

\* A request lets a bridge go that is lost.
LEMMA LetsGoInv ==
    ASSUME IInv, BInv, NEW r \in Requests,
           \/ Cleaned(r) /\ (active # None => Lost(BridgeOf(active)))
           \/ Taken(r) /\ life[BridgeOf(taken[r])] # "alive"
    PROVE  BInv'
  <1>1. PICK where \in {"prepare", "relock"} :
           /\ Goes(r, where) /\ pc[r] \in {"cleaning", "taken"}
           /\ active' \in {active, None}
           /\ UNCHANGED <<pending, bridges, server, ask, taken, turn, clients, history>>
           /\ active # active' => Cleaned(r) /\ (active # None => Lost(BridgeOf(active)))
           /\ pc[r] = "taken" => life[BridgeOf(taken[r])] # "alive"
    BY DEF Cleaned, Taken, sessions
  <1>2. pc \in [Requests -> Stages] /\ \A b \in Requests : life[b] \in {"none", "alive", "dead"}
    BY DEF IInv, Types, TurnTypes, BridgeTypes
  <1>3. (\A q \in Requests : q # r => pc'[q] = pc[q]) /\ pc'[r] = where
    BY <1>1, <1>2 DEF Goes
  <1>4. Accounts
    BY DEF BInv
  <1>5. Boxes'
    BY <1>1, <1>3, <1>4 DEF Accounts, Boxes
  <1>6. ASSUME NEW b \in Requests, life[b] # "none", b \notin stray, OwnedAt(b) PROVE OwnedAt(b)'
    <2>1. \A q \in Requests : Holds(q, b)' => q # r /\ Holds(q, b)
      BY <1>1, <1>3 DEF Holds, Holding
    <2>2. onData[b] \in Requests
      BY <1>6 DEF IInv, Wired, Types, BridgeTypes
    <2>3. Elsewhere(b)
      BY <1>1, <1>3, <2>1, <2>2 DEF Elsewhere, Waits, bridges, server
    <2> QED
      BY <1>4, <1>6, <2>3, OwnedElsewhere
  <1>7. ASSUME NEW x \in Execs, Held(x, r) PROVE Lost(BridgeOf(x))'
    <2>1. pc[r] = "taken" /\ x \in pending[taken[r]]
      BY <1>1, <1>7 DEF Held
    <2>2. BridgeOf(x) = BridgeOf(taken[r]) /\ BridgeOf(x) \in Requests /\ life[BridgeOf(x)] # "none"
      BY <1>4, <2>1, HeldStruct DEF Holding
    <2>3. life[BridgeOf(x)] = "dead"
      BY <1>1, <1>2, <2>1, <2>2
    <2> QED
      BY <1>1, <2>3 DEF Lost, bridges
  <1>8. ASSUME active # active', NEW x \in Execs, active # None, x \in pending[active]
        PROVE  Lost(BridgeOf(x))'
    <2>1. BridgeOf(x) = BridgeOf(active)
      BY <1>4, <1>8, WaitingStruct
    <2> QED
      BY <1>1, <1>8, <2>1 DEF Lost, bridges, history
  <1>9. \A x \in Execs : (sent[x] > 0 => sent'[x] > 0) /\ (sent'[x] > 0 => Registered(x))
    BY <1>1, <1>4 DEF Accounts, Asked, server
  <1>10. /\ UNCHANGED <<pending, asked, onData, stray, life, turn, taken, ask>>
         /\ ended \subseteq ended' /\ displaced \subseteq displaced' /\ Heard
    BY <1>1 DEF bridges, server, clients, history, Heard
  <1>11. GoesOn
    <2>1. CASE todo' = todo
      BY <2>1, StillGoesOn
    <2>2. CASE Taken(r) /\ life[BridgeOf(taken[r])] # "alive"
      <3>1. todo' = [todo EXCEPT ![main(r)] = Cleanup(BridgeOf(taken[r]))] /\ pc[r] = "taken"
        BY <2>2 DEF Taken
      <3>2. BridgeOf(taken[r]) \in Requests
        BY <1>4, <3>1, HeldStruct DEF Holding
      <3> QED
        BY <3>1, <3>2, WorkerNames, MainSilent, SilentPrograms, SilentGoesOn
    <2> QED
      BY <2>1, <2>2 DEF Cleaned
  <1> QED
    BY <1>3, <1>5, <1>6, <1>7, <1>8, <1>9, <1>10, <1>11, HandOver

\* A struct has one holder, as long as its bridge is not stray.
LEMMA Alone ==
    ASSUME IInv, BInv, NEW r \in Requests, pc[r] \in Holding, BridgeOf(taken[r]) \notin stray
    PROVE  LET b == BridgeOf(taken[r]) IN
           /\ b \in Requests /\ life[b] # "none" /\ Holds(r, b)
           /\ OwnedAt(b) /\ ~Waits(b) /\ \A q \in Requests : Holds(q, b) => q = r
           /\ onData[b] \in Requests /\ turn[onData[b]].bridge = b
  <1> DEFINE b == BridgeOf(taken[r])
  <1>1. b \in Requests /\ life[b] # "none"
    BY HeldStruct DEF BInv
  <1>2. OwnedAt(b) /\ Holds(r, b)
    BY <1>1 DEF BInv, Owned, Holds
  <1>3. onData[b] \in Requests /\ turn[onData[b]].bridge = b
    BY <1>1 DEF IInv, Wired, Types, BridgeTypes
  <1> HIDE DEF b
  <1> QED
    BY <1>1, <1>2, <1>3 DEF OwnedAt, OneHolder, b

\* Calls without a result: the struct waits again.
LEMMA PutsBackInv ==
    ASSUME IInv, BInv, NEW r \in Requests, StillPending(r)
    PROVE  BInv'
  <1> DEFINE c == BridgeOf(taken[r])
             rest == pending[taken[r]] \ ask[r]
  <1>1. /\ pc[r] = "resume" /\ active' = taken[r] /\ Goes(r, "over")
        /\ displaced' = displaced \cup Displaces(taken[r]) /\ known' = known \cup rest
        /\ UNCHANGED <<pending, bridges, server, ask, taken, turn, todo, stray>>
    BY DEF StillPending
  <1>2. pc \in [Requests -> Stages] /\ Accounts /\ pc[r] \in Holding
    BY <1>1 DEF IInv, Types, TurnTypes, BInv, Holding
  <1>3. (\A q \in Requests : q # r => pc'[q] = pc[q]) /\ pc'[r] = "over"
    BY <1>1, <1>2 DEF Goes
  <1>4. /\ taken[r] \in Execs /\ c \in Requests /\ life[c] # "none"
        /\ pending[taken[r]] # {} /\ pending[taken[r]] \subseteq Execs
        /\ \A x \in pending[taken[r]] : BridgeOf(x) = c /\ Registered(x)
    BY <1>2, HeldStruct
  <1>5. taken[r] # None
    BY <1>4, SessionAssumption
  <1>6. Boxes'
    BY <1>1, <1>2, <1>3, <1>4 DEF Accounts, Boxes
  <1>7. c \notin stray => /\ ~Waits(c) /\ \A q \in Requests : Holds(q, c) => q = r
                          /\ OwnedAt(c) /\ onData[c] \in Requests /\ turn[onData[c]].bridge = c
                          /\ Holds(r, c)
    BY <1>2, Alone
  <1>8. ASSUME NEW b \in Requests, life[b] # "none", b \notin stray, OwnedAt(b) PROVE OwnedAt(b)'
    <2>1. onData[b] \in Requests
      BY <1>8 DEF IInv, Wired, Types, BridgeTypes
    <2>2. CASE b = c
      <3>1. \A q \in Requests : ~Holds(q, b)'
        BY <1>1, <1>3, <1>7, <1>8, <2>2 DEF Holds, Holding
      <3>2. pending[taken[r]] \subseteq turn[onData[b]].calls
        BY <1>1, <1>7, <1>8, <2>2 DEF OwnedAt, InHand
      <3>3. pc'[onData[b]] \notin {"swap", "sending"}
        <4> SUFFICES ASSUME pc'[onData[b]] \in {"swap", "sending"} PROVE FALSE
          OBVIOUS
        <4>1. onData[b] # r /\ pc[onData[b]] \in {"swap", "sending"}
          BY <1>3, <2>1
        <4>2. BridgeOf(taken[onData[b]]) = b
          BY <1>2, <1>7, <1>8, <2>1, <2>2, <4>1 DEF Accounts, Boxes
        <4> QED
          BY <1>7, <1>8, <2>1, <2>2, <4>1, <4>2 DEF Holds, Holding
      <3>4. Waiting(b)'
        BY <1>1, <2>2, <3>2, <3>3 DEF Waiting, bridges
      <3>5. OneHolder(b)' /\ InHand(b)' /\ OnTheWay(b)'
        BY <3>1 DEF OneHolder, InHand, OnTheWay
      <3>6. SentOnce(b)'
        BY <1>1, <1>8 DEF OwnedAt, SentOnce, bridges, server
      <3> QED
        BY <3>4, <3>5, <3>6 DEF OwnedAt
    <2>3. CASE b # c
      <3>1. \A q \in Requests : Holds(q, b)' => q # r /\ Holds(q, b)
        BY <1>1, <1>3 DEF Holds, Holding
      <3>2. ~Waits(b)'
        BY <1>1, <2>3 DEF Waits
      <3>3. Elsewhere(b)
        BY <1>1, <1>3, <2>1, <3>1, <3>2 DEF Elsewhere, bridges, server
      <3> QED
        BY <1>2, <1>8, <3>3, OwnedElsewhere
    <2> QED
      BY <2>2, <2>3
  <1>9. \A x \in Execs : Held(x, r) => active' # None /\ x \in pending[active']
    BY <1>1, <1>5 DEF Held
  <1>10. ASSUME NEW x \in Execs, active # None, x \in pending[active] PROVE Lost(BridgeOf(x))'
    <2>1. BridgeOf(x) = BridgeOf(active)
      BY <1>2, <1>10, WaitingStruct
    <2>2. CASE BridgeOf(active) = c
      <3>1. c \in stray
        BY <1>7, <1>10, <2>2 DEF Waits
      <3> QED
        BY <1>1, <2>1, <2>2, <3>1 DEF Lost
    <2>3. CASE BridgeOf(active) # c
      <3>1. BridgeOf(active) \in displaced'
        BY <1>1, <1>10, <2>3 DEF Displaces
      <3> QED
        BY <2>1, <3>1 DEF Lost
    <2> QED
      BY <2>2, <2>3
  <1>11. \A x \in Execs : (sent[x] > 0 => sent'[x] > 0) /\ (sent'[x] > 0 => Registered(x))
    BY <1>1, <1>2 DEF Accounts, Asked, server
  <1>12. Heard
    BY <1>1, <1>4 DEF Heard
  <1>13. /\ UNCHANGED <<pending, asked, onData, stray, life, turn, taken, ask>>
         /\ ended \subseteq ended' /\ displaced \subseteq displaced'
    BY <1>1 DEF bridges, server
  <1> HIDE DEF c, rest
  <1> QED
    BY <1>1, <1>3, <1>6, <1>8, <1>9, <1>10, <1>11, <1>12, <1>13, HandOver, StillGoesOn

\* The results are sent.
LEMMA SendsInv ==
    ASSUME IInv, BInv, NEW r \in Requests, SendResults(r)
    PROVE  BInv'
  <1> DEFINE c == BridgeOf(taken[r])
             P == pending[taken[r]]
  <1>1. /\ pc[r] = "sending" /\ Goes(r, "running")
        /\ sent' = [x \in Execs |-> IF x \in P \cap ask[r] THEN sent[x] + 1 ELSE sent[x]]
        /\ UNCHANGED <<sessions, bridges, asked, ask, taken, turn, todo, clients, history>>
    BY DEF SendResults
  <1>2. /\ pc \in [Requests -> Stages] /\ Accounts /\ pc[r] \in Holding
        /\ sent \in [Execs -> Nat]
    BY <1>1 DEF IInv, Types, TurnTypes, SessionTypes, BInv, Holding
  <1>3. (\A q \in Requests : q # r => pc'[q] = pc[q]) /\ pc'[r] = "running"
    BY <1>1, <1>2 DEF Goes
  <1>4. /\ taken[r] \in Execs /\ c \in Requests /\ life[c] # "none"
        /\ P \subseteq Execs /\ \A x \in P : BridgeOf(x) = c /\ Registered(x)
    BY <1>2, HeldStruct
  <1>5. \A x \in Execs : /\ sent[x] \in Nat
                         /\ x \in P /\ x \in ask[r] => sent'[x] = sent[x] + 1
                         /\ ~(x \in P /\ x \in ask[r]) => sent'[x] = sent[x]
    BY <1>1, <1>2
  <1> HIDE DEF P
  <1>6. Boxes'
    BY <1>1, <1>2, <1>3 DEF Accounts, Boxes, sessions
  <1>7. c \notin stray => /\ ~Waits(c) /\ \A q \in Requests : Holds(q, c) => q = r
                          /\ OwnedAt(c) /\ Holds(r, c)
    BY <1>2, Alone
  <1>8. ASSUME NEW b \in Requests, life[b] # "none", b \notin stray, OwnedAt(b) PROVE OwnedAt(b)'
    <2>1. onData[b] \in Requests
      BY <1>8 DEF IInv, Wired, Types, BridgeTypes
    <2>2. CASE b = c
      <3>1. (\A q \in Requests : ~Holds(q, b)') /\ ~Waits(b)'
        BY <1>1, <1>3, <1>7, <1>8, <2>2 DEF Holds, Holding, Waits, sessions
      <3>2. onData[b] = r /\ \A x \in P : x \notin turn[r].calls /\ sent[x] = 0
        BY <1>1, <1>7, <1>8, <2>2 DEF OwnedAt, OnTheWay, P
      <3>3. ASSUME NEW x \in Execs, BridgeOf(x) = b
            PROVE  sent'[x] <= 1 /\ (sent'[x] > 0 => x \notin turn[onData[b]].calls)
        <4>1. sent[x] <= 1 /\ (sent[x] > 0 => x \notin turn[onData[b]].calls)
          BY <1>8, <3>3 DEF OwnedAt, SentOnce
        <4>2. CASE x \in P /\ x \in ask[r]
          <5>1. sent'[x] = 1
            BY <1>5, <3>2, <4>2
          <5> QED
            BY <3>2, <4>2, <5>1
        <4>3. CASE ~(x \in P /\ x \in ask[r])
          BY <1>5, <4>1, <4>3
        <4> QED
          BY <4>2, <4>3
      <3>4. SentOnce(b)'
        BY <1>1, <3>3 DEF SentOnce, bridges
      <3> QED
        BY <3>1, <3>4 DEF OwnedAt, OneHolder, Waiting, InHand, OnTheWay
    <2>3. CASE b # c
      <3>1. \A q \in Requests : Holds(q, b)' => q # r /\ Holds(q, b)
        BY <1>1, <1>3 DEF Holds, Holding
      <3>2. \A x \in Execs : BridgeOf(x) = b => sent'[x] = sent[x]
        BY <1>4, <1>5, <2>3
      <3>3. Elsewhere(b)
        BY <1>1, <1>3, <2>1, <3>1, <3>2 DEF Elsewhere, Waits, bridges, sessions
      <3> QED
        BY <1>2, <1>8, <3>3, OwnedElsewhere
    <2> QED
      BY <2>2, <2>3
  <1>9. ASSUME NEW x \in Execs, Held(x, r) PROVE sent'[x] > 0 \/ Lost(BridgeOf(x))'
    <2>1. x \in P
      BY <1>9 DEF Held, P
    <2>2. CASE c \in stray
      BY <1>1, <1>4, <2>1, <2>2 DEF Lost, history
    <2>3. CASE c \notin stray
      <3>1. x \in ask[r]
        BY <1>1, <1>7, <2>1, <2>3 DEF OwnedAt, OnTheWay, P
      <3> QED
        BY <1>5, <2>1, <3>1
    <2> QED
      BY <2>2, <2>3
  <1>10. \A x \in Execs : (sent[x] > 0 => sent'[x] > 0) /\ (sent'[x] > 0 => Registered(x))
    <2> SUFFICES ASSUME NEW x \in Execs
                 PROVE  (sent[x] > 0 => sent'[x] > 0) /\ (sent'[x] > 0 => Registered(x))
      OBVIOUS
    <2>1. sent[x] > 0 => Registered(x)
      BY <1>2 DEF Accounts, Asked
    <2> QED
      BY <1>4, <1>5, <2>1
  <1>11. /\ UNCHANGED <<pending, asked, onData, stray, life, turn, taken, ask, active>>
         /\ ended \subseteq ended' /\ displaced \subseteq displaced' /\ Heard
    BY <1>1 DEF bridges, sessions, clients, history, Heard
  <1> HIDE DEF c
  <1> QED
    BY <1>1, <1>3, <1>6, <1>8, <1>9, <1>10, <1>11, HandOver, StillGoesOn

--------------------------------------------------------------------------------
(* A tool call comes in, and is registered.                                     *)

\* One call more is registered, none is forgotten.
LEMMA RegisterMore ==
    ASSUME IInv, BInv, NEW p \in Procs, todo[p] # << >>, todo[p][1].do = "register",
           RegisterCall(p, todo[p][1].turn, todo[p][1].chunk)
    PROVE  LET t == todo[p][1].turn
               x == todo[p][1].chunk
           IN  /\ Scripts'
               /\ \A y \in Execs : (Issued(y)' <=> Issued(y)) /\ (Registered(y)' <=> Registered(y) \/ y = x)
               /\ \A y \in turn[t].calls : Registered(y)'
               /\ ~Registered(x)
  <1> DEFINE s == todo[p]
             t == s[1].turn
             x == s[1].chunk
             b == BridgeOf(x)
  <1>1. /\ Pop(p) /\ UNCHANGED <<turn, asked, onData>> /\ stray \subseteq stray'
    BY DEF RegisterCall, bridges, server
  <1>2. todo \in [Procs -> Seq(Instr)] /\ s \in Seq(Instr) /\ s # << >>
    BY DEF IInv, Types, TurnTypes
  <1>3. 1 \in DOMAIN s /\ s[1] \in Instr
    BY <1>2, Parts
  <1>4. t \in Requests /\ x \in Execs
    BY <1>3 DEF Instr, Bare, OfHeart
  <1>5. Sound(p, s[1])
    BY <1>3 DEF BInv, Scripts
  <1>6. p = reader(b) /\ x \in turn[t].calls /\ b \in Requests
    BY <1>4, <1>5 DEF Sound, BridgeOf, Execs
  <1>7. Scripted(s)
    BY <1>6 DEF BInv, Scripts
  <1>8. /\ Scripted(Tail(s)) /\ \A y : ~Registers(Tail(s), y)
        /\ \A i \in DOMAIN Tail(s) : \E j \in DOMAIN s : s[j] = Tail(s)[i]
    BY <1>2, <1>7, TailNarrows
  <1>9. todo'[p] = Tail(s) /\ \A w \in Procs : w # p => todo'[w] = todo[w]
    BY <1>1, <1>2 DEF Pop
  <1> HIDE DEF s
  <1>10. \A c \in Requests : Scripted(todo[reader(c)])'
    <2> SUFFICES ASSUME NEW c \in Requests PROVE Scripted(todo'[reader(c)])
      OBVIOUS
    <2>1. CASE reader(c) = p
      BY <1>8, <1>9, <2>1
    <2>2. CASE reader(c) # p
      BY <1>9, <2>2, WorkerNames DEF BInv, Scripts
    <2> QED
      BY <2>1, <2>2
  <1>11. ASSUME NEW w \in Procs, NEW i \in DOMAIN todo'[w], NEW o, o = todo'[w][i] PROVE Sound(w, o)'
    <2>1. PICK j \in DOMAIN todo[w] : todo[w][j] = o
      <3>1. CASE w = p
        BY <1>8, <1>9, <1>11, <3>1 DEF s
      <3>2. CASE w # p
        BY <1>9, <1>11, <3>2
      <3> QED
        BY <3>1, <3>2
    <2>2. Sound(w, o)
      BY <2>1 DEF BInv, Scripts
    <2> QED
      BY <1>1, <2>2 DEF Sound, Issued
  <1>12. \A y : Registers(s, y) <=> y = x
    <2>1. s[1].do = "register" /\ s[1].chunk = x
      BY DEF s
    <2>2. ASSUME NEW i \in DOMAIN s, s[i].do = "register" PROVE i = 1
      BY <1>3, <1>7, <2>1, <2>2 DEF Scripted
    <2> HIDE DEF x
    <2> QED
      BY <1>3, <2>1, <2>2 DEF Registers
  <1>13. Issued(x)
    BY <1>4, <1>6 DEF BInv, Accounts, Calls
  <1>14. ASSUME NEW y \in Execs
         PROVE  (Issued(y)' <=> Issued(y)) /\ (Registered(y)' <=> Registered(y) \/ y = x)
    <2>1. Issued(y)' <=> Issued(y)
      BY <1>1 DEF Issued
    <2>2. BridgeOf(y) \in Requests
      BY DEF BridgeOf, Execs
    <2>3. CASE BridgeOf(y) = b
      <3>1. ~Registers(todo'[reader(BridgeOf(y))], y)
        BY <1>6, <1>8, <1>9, <2>3
      <3>2. Registers(todo[reader(BridgeOf(y))], y) <=> y = x
        BY <1>6, <1>12, <2>3 DEF s
      <3> QED
        BY <1>13, <2>1, <3>1, <3>2 DEF Registered
    <2>4. CASE BridgeOf(y) # b
      <3>1. reader(BridgeOf(y)) # p /\ reader(BridgeOf(y)) \in Procs
        BY <1>6, <2>2, <2>4, WorkerNames DEF reader
      <3>2. todo'[reader(BridgeOf(y))] = todo[reader(BridgeOf(y))]
        BY <1>9, <3>1
      <3> QED
        BY <2>1, <2>4, <3>2 DEF Registered
    <2> QED
      BY <2>3, <2>4, <2>1
  <1>15. ~Registered(x)
    BY <1>6, <1>12 DEF Registered, s
  <1>16. ASSUME NEW y \in turn[t].calls PROVE Registered(y)'
    <2>1. y \in Execs /\ Issued(y)
      BY <1>4 DEF BInv, Accounts, Calls, IInv, Types, TurnTypes, Turn
    <2>2. BridgeOf(y) = b
      BY <1>4, <1>6 DEF BInv, Accounts, Calls
    <2>3. ~Registers(todo'[reader(BridgeOf(y))], y)
      BY <1>6, <1>8, <1>9, <2>2
    <2> QED
      BY <1>14, <2>1, <2>3 DEF Registered
  <1>17. Scripts'
    BY <1>10, <1>11 DEF Scripts
  <1> QED
    BY <1>14, <1>15, <1>16, <1>17 DEF s

\* The struct that waits for it takes the place of another, and of its own.
LEMMA RegistersInv ==
    ASSUME IInv, BInv, NEW p \in Procs, todo[p] # << >>, todo[p][1].do = "register",
           RegisterCall(p, todo[p][1].turn, todo[p][1].chunk)
    PROVE  BInv'
  <1> DEFINE t == todo[p][1].turn
             x == todo[p][1].chunk
             b == BridgeOf(x)
             box == IF Opened(t) THEN x ELSE taken[t]
             others == turn[t].calls \ {x}
             late == \/ \E y \in others : active = None \/ y \notin pending[active]
                     \/ pc[t] \in {"swap", "sending"}
  <1>1. /\ pending' = [pending EXCEPT ![box] = turn[t].calls]
        /\ active' = box
        /\ stray' = IF late THEN stray \cup {b} ELSE stray
        /\ displaced' = displaced \cup Displaces(box)
        /\ UNCHANGED <<bridges, server, requests, turn, clients>>
    BY DEF RegisterCall
  <1>2. /\ Scripts'
        /\ \A y \in Execs : (Issued(y)' <=> Issued(y)) /\ (Registered(y)' <=> Registered(y) \/ y = x)
        /\ \A y \in turn[t].calls : Registered(y)'
        /\ ~Registered(x)
    BY RegisterMore
  <1>3. t \in Requests /\ x \in Execs /\ Sound(p, todo[p][1])
    <2>1. todo[p] \in Seq(Instr)
      BY DEF IInv, Types, TurnTypes
    <2>2. 1 \in DOMAIN todo[p] /\ todo[p][1] \in Instr
      BY <2>1, Parts
    <2> QED
      BY <2>2 DEF Instr, Bare, OfHeart, BInv, Scripts
  <1>4. /\ b \in Requests /\ x \in turn[t].calls
        /\ b \in stray \/ t = onData[b] \/ turn[t].calls # {x}
    BY <1>3 DEF Sound, BridgeOf, Execs
  <1>5. Accounts
    BY DEF BInv
  <1>6. turn[t].bridge = b /\ turn[t].calls \subseteq Execs /\ \A y \in turn[t].calls : BridgeOf(y) = b
    BY <1>3, <1>4, <1>5 DEF Accounts, Calls, IInv, Types, TurnTypes, Turn
  <1>7. box \in Execs /\ BridgeOf(box) = b /\ box # None
    <2>1. CASE Opened(t)
      BY <1>3, <2>1, SessionAssumption
    <2>2. CASE ~Opened(t)
      <3>1. turn[t].bridge \notin {None, t}
        BY <1>4, <1>6, <2>2, SessionAssumption DEF Opened
      <3>2. taken[t] # None /\ turn[t].bridge = BridgeOf(taken[t])
        BY <1>3, <3>1 DEF IInv, Placed, PlacedAt
      <3> QED
        BY <1>3, <1>6, <2>2, <3>2 DEF IInv, Types, TurnTypes
    <2> QED
      BY <2>1, <2>2
  <1>8. pending \in [Execs -> SUBSET Execs]
    BY DEF IInv, Types, SessionTypes
  <1>9. pending'[box] = turn[t].calls /\ \A a \in Execs : a # box => pending'[a] = pending[a]
    BY <1>1, <1>7, <1>8
  <1>10. /\ UNCHANGED <<life, ended, onData, asked, sent, pc, ask, taken, turn, known>>
    BY <1>1 DEF bridges, server, requests, clients
  <1>11. stray \subseteq stray' /\ (late => b \in stray') /\ stray' \subseteq stray \cup {b}
    BY <1>1
  <1> HIDE DEF box
  <1>12. Accounts'
    <2>1. Pendings'
      <3> SUFFICES ASSUME NEW a \in Execs, NEW y \in Execs, y \in pending'[a]
                   PROVE  BridgeOf(y) = BridgeOf(a) /\ Registered(y)'
        BY DEF Pendings
      <3>1. CASE a = box
        BY <1>2, <1>6, <1>7, <1>9, <3>1
      <3>2. CASE a # box
        BY <1>2, <1>5, <1>9, <3>2 DEF Accounts, Pendings
      <3> QED
        BY <3>1, <3>2
    <2>2. Asked'
      BY <1>2, <1>5, <1>10 DEF Accounts, Asked
    <2>3. Calls'
      <3>1. \A u \in Requests : turn[u].calls \subseteq Execs
        BY DEF IInv, Types, TurnTypes, Turn
      <3> QED
        BY <1>2, <1>5, <1>10, <3>1 DEF Accounts, Calls
    <2>4. Boxes'
      <3>1. ASSUME NEW r \in Requests, taken[r] # None PROVE pending'[taken[r]] # {}
        <4>1. taken[r] \in Execs /\ pending[taken[r]] # {}
          BY <1>5, <3>1 DEF Accounts, Boxes, IInv, Types, TurnTypes
        <4> QED
          BY <1>4, <1>9, <4>1
      <3>2. pending'[active'] # {}
        BY <1>1, <1>4, <1>9
      <3>3. \A r \in Requests : pc[r] \in {"swap", "sending"} => turn[r].bridge = BridgeOf(taken[r])
        BY <1>5 DEF Accounts, Boxes
      <3> QED
        BY <1>10, <3>1, <3>2, <3>3 DEF Boxes
    <2> QED
      BY <2>1, <2>2, <2>3, <2>4 DEF Accounts
  <1>13. ASSUME b \notin stray'
         PROVE  /\ OwnedAt(b) /\ life[b] # "none" /\ t = onData[b] /\ pc[t] \notin {"swap", "sending"}
                /\ \A r \in Requests : ~Holds(r, b)
    <2>1. ~late /\ b \notin stray
      BY <1>11, <1>13
    <2>2. life[b] # "none"
      BY <1>3, <1>4, <1>6, SessionAssumption DEF IInv, Wired
    <2>3. OwnedAt(b) /\ onData[b] \in Requests
      BY <1>4, <2>1, <2>2 DEF BInv, Owned, IInv, Wired, Types, BridgeTypes
    <2>4. ASSUME NEW y \in others PROVE Waits(b) /\ t = onData[b]
      <3>1. active # None /\ y \in pending[active] /\ y \in Execs /\ BridgeOf(y) = b
        BY <1>6, <2>1
      <3>2. Waits(b)
        BY <1>5, <3>1, WaitingStruct DEF Waits
      <3>3. y \in turn[onData[b]].calls
        BY <2>3, <3>1, <3>2 DEF OwnedAt, Waiting
      <3>4. t = onData[b]
        BY <1>3, <1>5, <2>3, <3>3 DEF Accounts, Calls
      <3> QED
        BY <3>2, <3>4
    <2>5. t = onData[b]
      BY <1>4, <2>1, <2>4
    <2>6. ASSUME NEW r \in Requests, Holds(r, b) PROVE FALSE
      <3>1. others = {}
        BY <2>3, <2>4, <2>6 DEF OwnedAt, OneHolder
      <3>2. turn[t].calls = {x}
        BY <1>4, <3>1
      <3>3. PICK z \in pending[taken[r]] : Registered(z)
        BY <1>5, <2>6, HeldStruct DEF Holds
      <3>4. CASE pc[r] \in {"taken", "resume"}
        <4>1. z \in turn[onData[b]].calls
          BY <2>3, <2>6, <3>3, <3>4 DEF OwnedAt, InHand
        <4> QED
          BY <1>2, <2>5, <3>2, <3>3, <4>1
      <3>5. CASE pc[r] \in {"swap", "sending"}
        <4>1. onData[b] = r
          BY <2>3, <2>6, <3>5 DEF OwnedAt, OnTheWay
        <4> QED
          BY <2>1, <2>5, <3>5, <4>1
      <3> QED
        BY <2>6, <3>4, <3>5 DEF Holds, Holding
    <2> QED
      BY <2>1, <2>2, <2>3, <2>5, <2>6
  <1> HIDE DEF late, others
  <1>14. Owned'
    <2> SUFFICES ASSUME NEW c \in Requests, life'[c] # "none", c \notin stray' PROVE OwnedAt(c)'
      BY DEF Owned
    <2>1. CASE c = b
      <3>1. /\ OwnedAt(c) /\ t = onData[c] /\ pc[onData[c]] \notin {"swap", "sending"}
            /\ \A r \in Requests : ~Holds(r, c)
        BY <1>13, <2>1
      <3>2. \A r \in Requests : ~Holds(r, c)'
        BY <1>10, <3>1 DEF Holds
      <3>3. Waiting(c)'
        BY <1>1, <1>9, <1>10, <3>1 DEF Waiting
      <3>4. OneHolder(c)' /\ InHand(c)' /\ OnTheWay(c)'
        BY <3>2 DEF OneHolder, InHand, OnTheWay
      <3>5. SentOnce(c)'
        BY <1>10, <3>1 DEF OwnedAt, SentOnce
      <3> QED
        BY <3>3, <3>4, <3>5 DEF OwnedAt
    <2>2. CASE c # b
      <3>1. life[c] # "none" /\ c \notin stray
        BY <1>10, <1>11
      <3>2. OwnedAt(c)
        BY <3>1 DEF BInv, Owned
      <3>3. \A r \in Requests : Holds(r, c) => pending'[taken[r]] = pending[taken[r]]
        <4> SUFFICES ASSUME NEW r \in Requests, Holds(r, c)
                     PROVE  pending'[taken[r]] = pending[taken[r]]
          OBVIOUS
        <4>1. taken[r] \in Execs /\ BridgeOf(taken[r]) = c
          BY <1>5, HeldStruct DEF Holds
        <4>2. taken[r] # box
          BY <1>7, <2>2, <4>1
        <4> QED
          BY <1>9, <4>1, <4>2
      <3>4. ~Waits(c)'
        BY <1>1, <1>7, <2>2 DEF Waits
      <3>5. Elsewhere(c)
        BY <1>10, <3>3, <3>4 DEF Elsewhere, Holds
      <3> QED
        BY <1>5, <3>2, <3>5, OwnedElsewhere
    <2> QED
      BY <2>1, <2>2
  <1>15. AllFound'
    <2> SUFFICES ASSUME NEW y \in Execs, Registered(y)' PROVE Found(y)'
      BY DEF AllFound
    <2>1. CASE y \in turn[t].calls
      BY <1>1, <1>7, <1>9, <2>1 DEF Found
    <2>2. CASE y \notin turn[t].calls
      <3>1. Registered(y)
        BY <1>2, <1>4, <2>2
      <3>2. Found(y)
        BY <3>1 DEF BInv, AllFound
      <3>3. BridgeOf(y) = b /\ b \in stray' => Found(y)'
        BY DEF Found, Lost
      <3>4. CASE sent[y] > 0 \/ Lost(BridgeOf(y))
        BY <1>1, <1>10, <1>11, <3>4 DEF Found, Lost
      <3>5. ASSUME NEW r \in Requests, Held(y, r) PROVE Found(y)'
        <4>1. taken[r] \in Execs /\ BridgeOf(y) = BridgeOf(taken[r])
          BY <1>5, <3>5, HeldStruct DEF Held, Holding
        <4>2. CASE taken[r] = box
          <5>1. Holds(r, b)
            BY <1>7, <3>5, <4>2 DEF Holds, Held, Holding
          <5>2. b \in stray'
            BY <1>13, <5>1
          <5> QED
            BY <1>7, <3>3, <4>1, <4>2, <5>2
        <4>3. CASE taken[r] # box
          <5>1. Held(y, r)'
            BY <1>9, <1>10, <3>5, <4>1, <4>3 DEF Held
          <5> QED
            BY <5>1 DEF Found
        <4> QED
          BY <4>2, <4>3
      <3>6. CASE active # None /\ y \in pending[active]
        <4>1. BridgeOf(y) = BridgeOf(active)
          BY <1>5, <3>6, WaitingStruct
        <4>2. CASE BridgeOf(active) = b
          <5>1. ASSUME b \notin stray' PROVE FALSE
            <6>1. y \in turn[onData[b]].calls
              BY <1>13, <3>6, <4>2, <5>1 DEF OwnedAt, Waiting, Waits
            <6> QED
              BY <1>13, <2>2, <5>1, <6>1
          <5> QED
            BY <3>3, <4>1, <4>2, <5>1
        <4>3. CASE BridgeOf(active) # b
          <5>1. BridgeOf(active) \in displaced'
            BY <1>1, <1>7, <3>6, <4>3 DEF Displaces
          <5> QED
            BY <4>1, <5>1 DEF Found, Lost
        <4> QED
          BY <4>2, <4>3
      <3> QED
        BY <3>2, <3>4, <3>5, <3>6 DEF Found
    <2> QED
      BY <2>1, <2>2
  <1>16. Announced'
    <2>1. known \subseteq Execs
      BY DEF IInv, Types, SessionTypes
    <2>2. ASSUME NEW u \in Requests, NEW i \in DOMAIN turn[u].out, turn[u].out[i].kind = "calls",
                 NEW y, y = turn[u].out[i].exec
          PROVE  Registered(y)'
      <3>1. turn[u].out \in Seq(Chunk)
        BY DEF IInv, Types, TurnTypes, Turn
      <3>2. turn[u].out[i] \in Chunk
        BY <3>1, ElementOfSeq, LenProperties
      <3>3. y \in Execs /\ Registered(y)
        BY <2>2, <3>2 DEF BInv, Announced, Chunk
      <3> QED
        BY <1>2, <3>3
    <2>3. \A y \in known : Registered(y)'
      BY <1>2, <2>1 DEF BInv, Announced
    <2> QED
      BY <1>10, <2>2, <2>3 DEF Announced
  <1> QED
    BY <1>2, <1>12, <1>14, <1>15, <1>16 DEF BInv

\* A turn that begins has heard of no call.
LEMMA FreshCalls ==
    ASSUME NEW b \in Requests, NEW streamed \in BOOLEAN
    PROVE  LET U == Fresh(b, streamed) IN U.bridge = b /\ U.calls = {} /\ DOMAIN U.out = {}
  <1> DEFINE U == Fresh(b, streamed)
  <1>1. U \in Turn /\ U.bridge = b /\ U.calls = {} /\ Len(U.out) = 0
    BY NewTurnFields
  <1> HIDE DEF U
  <1>2. U.out \in Seq(Chunk)
    BY <1>1 DEF Turn
  <1>3. DOMAIN U.out = 1 .. 0
    BY <1>1, <1>2, LenProperties
  <1> QED
    BY <1>1, <1>3 DEF U

\* The next turn gets the callbacks of the bridge, before the results are sent.
LEMMA SwapsInv ==
    ASSUME IInv, BInv, NEW r \in Requests, SwapData(r)
    PROVE  BInv'
  <1> DEFINE b == BridgeOf(taken[r])
             P == pending[taken[r]]
  <1>1. PICK streamed \in BOOLEAN :
           /\ pc[r] = "resume" /\ P \subseteq ask[r] /\ Goes(r, "swap")
           /\ turn' = [turn EXCEPT ![r] = Fresh(b, streamed)]
           /\ onData' = [onData EXCEPT ![b] = r]
           /\ UNCHANGED <<sessions, life, ended, server, ask, taken, todo, clients, history>>
    <2>1. limit.streamed \subseteq BOOLEAN
      BY SessionAssumption DEF IInv, Types, SessionTypes
    <2> QED
      BY <2>1 DEF SwapData, Fresh
  <1>2. /\ pc \in [Requests -> Stages] /\ Accounts /\ pc[r] \in Holding
        /\ turn \in [Requests -> Turn] /\ onData \in [Requests -> Requests \cup {None}]
    BY <1>1 DEF IInv, Types, TurnTypes, BridgeTypes, BInv, Holding
  <1>3. (\A q \in Requests : q # r => pc'[q] = pc[q]) /\ pc'[r] = "swap"
    BY <1>1, <1>2 DEF Goes
  <1>4. /\ b \in Requests /\ life[b] # "none" /\ P # {} /\ P \subseteq Execs
        /\ \A x \in P : BridgeOf(x) = b /\ Registered(x)
    BY <1>2, HeldStruct
  <1>5. turn[r].bridge = None /\ turn[r].calls = {}
    BY <1>1 DEF IInv, Placed, PlacedAt, Early
  <1>6. /\ turn'[r].bridge = b /\ turn'[r].calls = {} /\ DOMAIN turn'[r].out = {}
        /\ \A q \in Requests : q # r => turn'[q] = turn[q]
    BY <1>1, <1>2, <1>4, FreshCalls
  <1>7. onData'[b] = r /\ \A c \in Requests : c # b => onData'[c] = onData[c]
    BY <1>1, <1>2, <1>4
  <1>8. b \notin stray => /\ ~Waits(b) /\ \A q \in Requests : Holds(q, b) => q = r
                          /\ OwnedAt(b) /\ Holds(r, b) /\ P \subseteq turn[onData[b]].calls
    <2>1. b \notin stray => /\ ~Waits(b) /\ \A q \in Requests : Holds(q, b) => q = r
                            /\ OwnedAt(b) /\ Holds(r, b)
      BY <1>2, Alone
    <2> QED
      BY <1>1, <2>1 DEF OwnedAt, InHand
  <1>9. UNCHANGED <<active, pending, life, ended, asked, sent, ask, taken, todo, known, stray, displaced>>
    BY <1>1 DEF sessions, server, clients, history
  <1> HIDE DEF P
  <1>10. \A x : (Issued(x)' <=> Issued(x)) /\ (Registered(x)' <=> Registered(x))
    BY <1>9 DEF Issued, Registered
  <1>11. Scripts'
    <2>1. ASSUME NEW p \in Procs, NEW i \in DOMAIN todo[p], NEW o, o = todo[p][i] PROVE Sound(p, o)'
      <3>1. Sound(p, o) /\ o \in Instr
        BY <2>1, ElementOfSeq DEF BInv, Scripts, IInv, Types, TurnTypes
      <3>2. IsCalls(o) => p = reader(BridgeOf(o.chunk.exec)) /\ Issued(o.chunk.exec)'
        BY <1>10, <3>1 DEF Sound
      <3>3. ASSUME o.do = "register"
            PROVE  LET c == BridgeOf(o.chunk) IN
                   /\ p = reader(c) /\ o.chunk \in turn'[o.turn].calls
                   /\ c \in stray' \/ o.turn = onData'[c] \/ turn'[o.turn].calls # {o.chunk}
        <4> DEFINE y == o.chunk
                   c == BridgeOf(o.chunk)
        <4>1. /\ p = reader(c) /\ y \in turn[o.turn].calls
              /\ c \in stray \/ o.turn = onData[c] \/ turn[o.turn].calls # {y}
          BY <3>1, <3>3 DEF Sound
        <4>2. o.turn \in Requests /\ y \in Execs /\ c \in Requests
          BY <3>1, <3>3 DEF Instr, Bare, OfHeart, BridgeOf, Execs
        <4>3. o.turn # r /\ turn'[o.turn] = turn[o.turn]
          BY <1>5, <1>6, <4>1, <4>2
        <4>4. ~Registered(y)
          BY <2>1, <3>3, <4>1 DEF Registered, Registers
        <4>5. CASE c = b /\ b \notin stray /\ turn[o.turn].calls = {y}
          <5>1. PICK z \in P : Registered(z)
            BY <1>4
          <5>2. z \in turn[o.turn].calls
            BY <1>8, <4>1, <4>5, <5>1
          <5> QED
            BY <4>4, <4>5, <5>1, <5>2
        <4>6. CASE ~(c = b /\ b \notin stray /\ turn[o.turn].calls = {y})
          BY <1>7, <1>9, <4>1, <4>2, <4>3, <4>6
        <4> QED
          BY <4>1, <4>3, <4>5, <4>6
      <3> QED
        BY <3>2, <3>3 DEF Sound
    <2>2. \A c \in Requests : Scripted(todo[reader(c)])
      BY DEF BInv, Scripts
    <2> QED
      BY <1>9, <2>1, <2>2 DEF Scripts
  <1>12. Accounts'
    <2>1. Pendings' /\ Asked'
      BY <1>2, <1>9, <1>10 DEF Accounts, Pendings, Asked
    <2>2. Calls'
      BY <1>2, <1>6, <1>10 DEF Accounts, Calls
    <2>3. Boxes'
      BY <1>2, <1>3, <1>6, <1>9 DEF Accounts, Boxes
    <2> QED
      BY <2>1, <2>2, <2>3 DEF Accounts
  <1>13. Owned'
    <2> SUFFICES ASSUME NEW c \in Requests, life'[c] # "none", c \notin stray' PROVE OwnedAt(c)'
      BY DEF Owned
    <2>1. OwnedAt(c) /\ life[c] # "none" /\ c \notin stray
      BY <1>9 DEF BInv, Owned
    <2>2. CASE c = b
      <3>1. ~Waits(c)' /\ \A q \in Requests : Holds(q, c)' => q = r
        BY <1>3, <1>8, <1>9, <2>1, <2>2 DEF Waits, Holds
      <3>2. OneHolder(c)' /\ Waiting(c)'
        BY <3>1 DEF OneHolder, Waiting
      <3>3. InHand(c)'
        BY <1>3, <3>1 DEF InHand
      <3>4. ASSUME NEW x \in P PROVE sent[x] = 0
        <4>1. x \in Execs /\ BridgeOf(x) = c /\ x \in turn[onData[c]].calls
          BY <1>4, <1>8, <2>1, <2>2
        <4>2. ~(sent[x] > 0)
          BY <2>1, <4>1 DEF OwnedAt, SentOnce
        <4>3. sent[x] \in Nat
          BY <4>1 DEF IInv, Types, SessionTypes
        <4> QED
          BY <4>2, <4>3
      <3>5. OnTheWay(c)'
        BY <1>1, <1>6, <1>7, <1>9, <2>2, <3>1, <3>4 DEF OnTheWay, P
      <3>6. SentOnce(c)'
        BY <1>6, <1>7, <1>9, <2>1, <2>2 DEF OwnedAt, SentOnce
      <3> QED
        BY <3>2, <3>3, <3>5, <3>6 DEF OwnedAt
    <2>3. CASE c # b
      <3>1. \A q \in Requests : Holds(q, c)' => q # r /\ Holds(q, c)
        BY <1>3, <1>9, <2>3 DEF Holds
      <3>2. onData[c] \in Requests /\ onData[c] # r
        <4>1. onData[c] \in Requests /\ turn[onData[c]].bridge = c
          BY <2>1 DEF IInv, Wired, Types, BridgeTypes
        <4> QED
          BY <1>5, <4>1, SessionAssumption
      <3>3. Elsewhere(c)
        BY <1>3, <1>6, <1>7, <1>9, <2>3, <3>1, <3>2 DEF Elsewhere, Waits
      <3> QED
        BY <1>2, <2>1, <3>3, OwnedElsewhere
    <2> QED
      BY <2>2, <2>3
  <1>14. AllFound'
    <2> SUFFICES ASSUME NEW x \in Execs, Registered(x) PROVE Found(x)'
      BY <1>10 DEF AllFound
    <2>1. Found(x)
      BY DEF BInv, AllFound
    <2>2. \A q \in Requests : Held(x, q) => Held(x, q)'
      BY <1>1, <1>3, <1>9 DEF Held
    <2> QED
      BY <1>9, <2>1, <2>2 DEF Found, Lost
  <1>15. Announced'
    BY <1>6, <1>9, <1>10 DEF BInv, Announced
  <1> QED
    BY <1>11, <1>12, <1>13, <1>14, <1>15 DEF BInv

\* A program that registers call x for turn t, and announces it behind that.
CallsFor(s, t, x) ==
    /\ Scripted(s) /\ Registers(s, x)
    /\ \A i \in DOMAIN s : s[i].do = "register" => s[i].turn = t /\ s[i].chunk = x
    /\ \A i \in DOMAIN s : IsCalls(s[i]) => s[i].chunk.exec = x

\* It goes on with steps that are about no call.
LEMMA CallsForJoin ==
    ASSUME NEW s \in Seq(Instr), NEW q \in Seq(Instr), NEW t, NEW x, CallsFor(s, t, x), Silent(q)
    PROVE  CallsFor(s \o q, t, x)
  <1> DEFINE w == s \o q
  <1>1. /\ s \o q \in Seq(Instr) /\ Len(s) \in Nat /\ Len(q) \in Nat
        /\ Len(s \o q) = Len(s) + Len(q)
        /\ \A i \in 1 .. Len(s) + Len(q) : (s \o q)[i] = IF i <= Len(s) THEN s[i] ELSE q[i - Len(s)]
    BY ConcatProperties, LenProperties
  <1>2. DOMAIN s = 1 .. Len(s) /\ DOMAIN q = 1 .. Len(q)
    BY LenProperties
  <1>3. DOMAIN w = 1 .. Len(s) + Len(q)
    BY <1>1, LenProperties
  <1>4. \A i \in DOMAIN s : i \in DOMAIN w /\ w[i] = s[i]
    BY <1>1, <1>2, <1>3
  <1>5. ASSUME NEW i \in DOMAIN w, w[i].do = "register" \/ IsCalls(w[i])
        PROVE  i \in DOMAIN s /\ w[i] = s[i]
    <2>1. CASE i <= Len(s)
      BY <1>1, <1>2, <1>3, <2>1
    <2>2. CASE ~(i <= Len(s))
      <3>1. i - Len(s) \in DOMAIN q /\ w[i] = q[i - Len(s)]
        BY <1>1, <1>2, <1>3, <2>2
      <3> HIDE DEF w
      <3> QED
        BY <1>5, <3>1 DEF Silent
    <2> QED
      BY <2>1, <2>2
  <1> HIDE DEF w
  <1>6. Registers(w, x)
    BY <1>4 DEF Registers, CallsFor
  <1>7. Scripted(w)
    BY <1>5 DEF Scripted, CallsFor
  <1>8. /\ \A i \in DOMAIN w : w[i].do = "register" => w[i].turn = t /\ w[i].chunk = x
        /\ \A i \in DOMAIN w : IsCalls(w[i]) => w[i].chunk.exec = x
    BY <1>5 DEF CallsFor
  <1> QED
    BY <1>6, <1>7, <1>8 DEF CallsFor, w

\* What the reader does with a tool call.
LEMMA CallProgram ==
    ASSUME NEW t \in Requests, NEW x \in Execs
    PROVE  CallsFor(OnFrame(t, "exec", x), t, x)
  <1> DEFINE a == Emit(t, "call", x)
             r == Register(t, x)
             c == Emit(t, "calls", x)
             f == Do("finish", t)
             d == Emit(t, "done", None)
  <1>1. a \in Instr /\ r \in Instr /\ c \in Instr /\ f \in Instr /\ d \in Instr
    BY Steps DEF Bare
  <1>2. /\ a.do # "register" /\ ~IsCalls(a) /\ r.do = "register" /\ r.turn = t /\ r.chunk = x
        /\ ~IsCalls(r) /\ c.do # "register" /\ IsCalls(c) /\ c.chunk.exec = x
        /\ f.do # "register" /\ ~IsCalls(f) /\ d.do # "register" /\ ~IsCalls(d)
    BY DEF Emit, Register, Do, IsCalls
  <1>3. /\ OnFrame(t, "exec", x) = IF Opened(t) THEN FirstCall(t, x) ELSE <<r, c, f>>
        /\ FirstCall(t, x) = (<<a, r, c>> \o Marker(t)) \o <<f>>
        /\ Marker(t) = IF turn[t].stream THEN <<d>> ELSE << >>
    BY DEF OnFrame, FirstCall, Marker
  <1> HIDE DEF a, r, c, f, d
  <1>4. /\ <<f>> \in Seq(Instr) /\ Silent(<<f>>)
        /\ Marker(t) \in Seq(Instr) /\ Silent(Marker(t))
    <2>1. /\ <<f>> \in Seq(Instr) /\ Silent(<<f>>)
          /\ <<d>> \in Seq(Instr) /\ Silent(<<d>>)
      BY <1>1, <1>2, SilentStep
    <2>2. << >> \in Seq(Instr) /\ Silent(<< >>)
      BY SilentNarrows, EmptySeq
    <2>3. Marker(t) \in {<<d>>, << >>}
      BY <1>3
    <2> QED
      BY <2>1, <2>2, <2>3
  <1>5. CASE Opened(t)
    <2> DEFINE s == <<a, r, c>>
    <2>1. /\ s \in Seq(Instr) /\ DOMAIN s = {1, 2, 3}
          /\ s[1] = a /\ s[2] = r /\ s[3] = c
      BY <1>1
    <2> HIDE DEF s
    <2>2. Registers(s, x)
      BY <1>2, <2>1 DEF Registers
    <2>3. Scripted(s)
      BY <1>2, <2>1 DEF Scripted
    <2>4. CallsFor(s, t, x)
      BY <1>2, <2>1, <2>2, <2>3 DEF CallsFor
    <2>5. s \o Marker(t) \in Seq(Instr) /\ CallsFor(s \o Marker(t), t, x)
      BY <1>4, <2>1, <2>4, CallsForJoin, ConcatProperties
    <2>6. CallsFor((s \o Marker(t)) \o <<f>>, t, x)
      BY <1>4, <2>5, CallsForJoin
    <2> QED
      BY <1>3, <1>5, <2>6 DEF s
  <1>6. CASE ~Opened(t)
    <2> DEFINE s == <<r, c, f>>
    <2>1. DOMAIN s = {1, 2, 3} /\ s[1] = r /\ s[2] = c /\ s[3] = f
      OBVIOUS
    <2> HIDE DEF s
    <2>2. Registers(s, x)
      BY <1>2, <2>1 DEF Registers
    <2>3. Scripted(s)
      BY <1>2, <2>1 DEF Scripted
    <2>4. CallsFor(s, t, x)
      BY <1>2, <2>1, <2>2, <2>3 DEF CallsFor
    <2> QED
      BY <1>3, <1>6, <2>4 DEF s
  <1> QED
    BY <1>5, <1>6

\* The other frames are about no call.
LEMMA SilentFrame ==
    ASSUME NEW t \in Requests, NEW x, NEW kind \in Kinds, kind # "exec"
    PROVE  Silent(OnFrame(t, kind, x))
  <1> DEFINE f == Do("finish", t)
             er == Emit(t, "error", None)
             us == Emit(t, "usage", None)
             dr == Do("drop", t)
             te == Emit(t, "text", None)
             en == Do("ended", t)
             ch == Do("checkpoint", t)
             S == {f, er, us, dr, te, en, ch}
  <1>1. \A o \in S : o.do # "register" /\ ~IsCalls(o)
    BY DEF Do, Emit, IsCalls
  <1>2. OnFrame(t, kind, x) \in {<< >>, <<te>>, <<en>>, <<ch>>, <<er, us, f>>, <<dr, er, us, f>>, <<er, f>>}
    BY DEF OnFrame, Kinds
  <1> HIDE DEF f, er, us, dr, te, en, ch
  <1>3. \A o1, o2, o3, o4 \in S :
           Silent(<< >>) /\ Silent(<<o1>>) /\ Silent(<<o1, o2>>) /\ Silent(<<o1, o2, o3>>)
              /\ Silent(<<o1, o2, o3, o4>>)
    <2> HIDE DEF S
    <2> SUFFICES ASSUME NEW o1 \in S, NEW o2 \in S, NEW o3 \in S, NEW o4 \in S
                 PROVE  Silent(<< >>) /\ Silent(<<o1>>) /\ Silent(<<o1, o2>>) /\ Silent(<<o1, o2, o3>>)
                           /\ Silent(<<o1, o2, o3, o4>>)
      OBVIOUS
    <2>1. \A i \in DOMAIN <<o1>> : <<o1>>[i] \in S
      OBVIOUS
    <2>2. \A i \in DOMAIN <<o1, o2>> : <<o1, o2>>[i] \in S
      OBVIOUS
    <2>3. \A i \in DOMAIN <<o1, o2, o3>> : <<o1, o2, o3>>[i] \in S
      OBVIOUS
    <2>4. \A i \in DOMAIN <<o1, o2, o3, o4>> : <<o1, o2, o3, o4>>[i] \in S
      OBVIOUS
    <2> QED
      BY <1>1, <2>1, <2>2, <2>3, <2>4, SilentNarrows DEF Silent
  <1>4. /\ te \in S /\ en \in S /\ ch \in S /\ er \in S /\ us \in S /\ f \in S /\ dr \in S
    OBVIOUS
  <1> HIDE DEF S
  <1> QED
    BY <1>2, <1>3, <1>4

\* A frame that is no tool call.
LEMMA FrameAside ==
    ASSUME IInv, NEW b \in Requests, NEW kind \in Kinds, kind # "exec", Deliver(b, kind)
    PROVE  Aside
  <1> DEFINE x == <<b, asked[b] + 1>>
  <1>1. /\ Idle(b) /\ todo' = [todo EXCEPT ![reader(b)] = OnFrame(onData[b], kind, x)]
        /\ asked' = asked /\ turn' = turn
        /\ UNCHANGED <<sessions, bridges, sent, requests, clients, history>>
    BY DEF Deliver, reader
  <1> HIDE DEF x
  <1>2. onData[b] \in Requests
    BY <1>1 DEF Idle, IInv, Wired, Types, BridgeTypes
  <1>3. GoesOn
    <2>1. reader(b) \in Procs /\ Silent(todo[reader(b)])
      BY <1>1, WorkerNames, SilentNarrows DEF Idle, reader
    <2>2. Silent(OnFrame(onData[b], kind, x))
      BY <1>2, SilentFrame
    <2> QED
      BY <1>1, <2>1, <2>2, SilentGoesOn
  <1>4. SameHands
    <2>1. /\ UNCHANGED <<active, pending, sent, asked, onData, taken, stray, displaced>>
          /\ UNCHANGED <<life, pc, ask, ended>>
      BY <1>1 DEF sessions, bridges, requests, history
    <2> QED
      BY <2>1, StillHands
  <1> QED
    BY <1>1, <1>3, <1>4, StillCalls DEF Aside, Heard, clients

\* The server asks for a call that nobody has heard of.
LEMMA CallIsNew ==
    ASSUME IInv, NEW b \in Requests, asked[b] < MaxExecs,
           asked' = [asked EXCEPT ![b] = asked[b] + 1]
    PROVE  LET x == <<b, asked[b] + 1>> IN
           /\ x \in Execs /\ BridgeOf(x) = b /\ ~Issued(x)
           /\ \A y \in Execs : Issued(y)' <=> Issued(y) \/ y = x
  <1> DEFINE n == asked[b]
             x == <<b, n + 1>>
  <1>1. asked \in [Requests -> 0 .. MaxExecs] /\ MaxExecs \in Nat
    BY SessionAssumption DEF IInv, Types, BridgeTypes
  <1>2. n \in Nat /\ n + 1 \in 1 .. MaxExecs /\ ~(n + 1 <= n)
    BY <1>1
  <1>3. asked'[b] = n + 1 /\ \A c \in Requests : c # b => asked'[c] = asked[c]
    BY <1>1
  <1> HIDE DEF n
  <1>4. x \in Execs /\ x[1] = b /\ x[2] = n + 1
    BY <1>2 DEF Execs
  <1>5. ~Issued(x)
    BY <1>2, <1>4 DEF Issued, BridgeOf, n
  <1>6. ASSUME NEW y \in Execs PROVE Issued(y)' <=> Issued(y) \/ y = x
    <2>1. PICK c \in Requests, m \in 1 .. MaxExecs : y = <<c, m>>
      BY DEF Execs
    <2>2. y[1] = c /\ y[2] = m /\ (y = x <=> c = b /\ m = n + 1) /\ m \in Nat
      BY <1>1, <2>1
    <2>3. CASE c = b
      <3>1. Issued(y) <=> m <= n
        BY <2>2, <2>3 DEF Issued, BridgeOf, n
      <3>2. Issued(y)' <=> m <= n + 1
        BY <1>3, <2>2, <2>3 DEF Issued, BridgeOf
      <3> QED
        BY <1>2, <2>2, <2>3, <3>1, <3>2
    <2>4. CASE c # b
      BY <1>3, <2>2, <2>4 DEF Issued, BridgeOf
    <2> QED
      BY <2>3, <2>4
  <1> QED
    BY <1>4, <1>5, <1>6 DEF BridgeOf, n

\* The tool call is for the turn that has the callbacks.
LEMMA CallsInv ==
    ASSUME IInv, BInv, NEW b \in Requests, Deliver(b, "exec")
    PROVE  BInv'
  <1> DEFINE x == <<b, asked[b] + 1>>
             t == onData[b]
             q == OnFrame(t, "exec", x)
  <1>1. /\ Idle(b) /\ asked[b] < MaxExecs /\ asked' = [asked EXCEPT ![b] = asked[b] + 1]
        /\ turn' = [turn EXCEPT ![t] = [turn[t] EXCEPT !.calls = turn[t].calls \cup {x}]]
        /\ todo' = [todo EXCEPT ![reader(b)] = q]
        /\ UNCHANGED <<sessions, bridges, sent, requests, clients, history>>
    BY DEF Deliver, reader
  <1>2. /\ x \in Execs /\ BridgeOf(x) = b /\ ~Issued(x)
        /\ \A y \in Execs : Issued(y)' <=> Issued(y) \/ y = x
    BY <1>1, CallIsNew
  <1> HIDE DEF x
  <1>3. t \in Requests /\ turn[t].bridge = b /\ life[b] = "alive" /\ todo[reader(b)] = << >>
    BY <1>1 DEF Idle, IInv, Wired, Types, BridgeTypes, reader
  <1>4. CallsFor(q, t, x)
    BY <1>2, <1>3, CallProgram
  <1> HIDE DEF q
  <1>5. /\ turn \in [Requests -> Turn] /\ todo \in [Procs -> Seq(Instr)]
        /\ \A u \in Requests : turn[u].calls \subseteq Execs
    BY DEF IInv, Types, TurnTypes, Turn
  <1>6. /\ turn'[t].calls = turn[t].calls \cup {x} /\ turn'[t].bridge = b
        /\ turn'[t].out = turn[t].out /\ \A u \in Requests : u # t => turn'[u] = turn[u]
    <2> DEFINE T == turn[t]
               v == turn[t].calls \cup {x}
               U == [turn[t] EXCEPT !.calls = v]
    <2>1. T \in Turn /\ v \in SUBSET Execs
      BY <1>2, <1>3, <1>5
    <2>2. U.bridge = T.bridge /\ U.calls = v /\ U.out = T.out
      BY <2>1, CallsField
    <2>3. turn' = [turn EXCEPT ![t] = U]
      BY <1>1
    <2> HIDE DEF U
    <2>4. turn'[t] = U /\ \A u \in Requests : u # t => turn'[u] = turn[u]
      BY <1>3, <1>5, <2>3
    <2> QED
      BY <1>3, <2>2, <2>4
  <1>7. todo'[reader(b)] = q /\ \A w \in Procs : w # reader(b) => todo'[w] = todo[w]
    BY <1>1, <1>3, <1>5, WorkerNames
  <1>8. UNCHANGED <<active, pending, life, ended, onData, sent, pc, ask, taken, known, stray, displaced>>
    BY <1>1 DEF sessions, bridges, requests, clients, history
  <1>9. \A y \in Execs : Registered(y)' <=> Registered(y)
    <2> SUFFICES ASSUME NEW y \in Execs PROVE Registered(y)' <=> Registered(y)
      OBVIOUS
    <2>1. BridgeOf(y) \in Requests
      BY DEF BridgeOf, Execs
    <2>2. CASE BridgeOf(y) = b
      <3>1. Registers(q, y) <=> y = x
        BY <1>4 DEF CallsFor, Registers
      <3>2. ~Registers(todo[reader(b)], y)
        BY <1>3, SilentNarrows
      <3> QED
        BY <1>2, <1>7, <2>2, <3>1, <3>2 DEF Registered
    <2>3. CASE BridgeOf(y) # b
      <3>1. reader(BridgeOf(y)) # reader(b) /\ reader(BridgeOf(y)) \in Procs
        BY <2>1, <2>3, WorkerNames DEF reader
      <3>2. todo'[reader(BridgeOf(y))] = todo[reader(BridgeOf(y))] /\ y # x
        BY <1>2, <1>7, <2>3, <3>1
      <3> QED
        BY <1>2, <3>2 DEF Registered
    <2> QED
      BY <2>2, <2>3
  <1>10. \A u \in Requests : turn'[u].calls \subseteq turn[u].calls \cup {x}
            /\ turn[u].calls \subseteq turn'[u].calls /\ turn'[u].bridge = turn[u].bridge
            /\ turn'[u].out = turn[u].out /\ (u # t => turn'[u].calls = turn[u].calls)
    BY <1>3, <1>6
  <1>11. Accounts
    BY DEF BInv
  <1>12. \A u \in Requests : x \notin turn[u].calls
    BY <1>2, <1>11 DEF Accounts, Calls
  <1>13. Scripts'
    <2>1. ASSUME NEW c \in Requests PROVE Scripted(todo'[reader(c)])
      <3>1. CASE c = b
        BY <1>4, <1>7, <3>1 DEF CallsFor
      <3>2. CASE c # b
        <4>1. reader(c) # reader(b) /\ reader(c) \in Procs
          BY <3>2, WorkerNames DEF reader
        <4> QED
          BY <1>7, <4>1 DEF BInv, Scripts
      <3> QED
        BY <3>1, <3>2
    <2>2. ASSUME NEW p \in Procs, NEW i \in DOMAIN todo'[p], NEW o, o = todo'[p][i] PROVE Sound(p, o)'
      <3>1. CASE p = reader(b)
        <4>1. /\ o.do = "register" => o.turn = t /\ o.chunk = x
              /\ IsCalls(o) => o.chunk.exec = x
          BY <1>4, <1>7, <2>2, <3>1 DEF CallsFor
        <4>2. x \in turn'[t].calls /\ t = onData'[b] /\ \A y \in Execs : y = x => Issued(y)'
          BY <1>2, <1>6, <1>8
        <4>3. IsCalls(o) => p = reader(BridgeOf(o.chunk.exec)) /\ Issued(o.chunk.exec)'
          BY <1>2, <3>1, <4>1, <4>2
        <4> QED
          BY <1>2, <3>1, <4>1, <4>2, <4>3 DEF Sound
      <3>2. CASE p # reader(b)
        <4>1. Sound(p, o) /\ o \in Instr
          BY <1>5, <1>7, <2>2, <3>2, ElementOfSeq DEF BInv, Scripts
        <4>2. ASSUME IsCalls(o) PROVE p = reader(BridgeOf(o.chunk.exec)) /\ Issued(o.chunk.exec)'
          <5>1. o.chunk.exec \in Execs
            BY <4>1, <4>2 DEF IsCalls, Instr, Bare, OfHeart, Chunk
          <5> QED
            BY <1>2, <4>1, <4>2, <5>1 DEF Sound
        <4>3. ASSUME o.do = "register"
              PROVE  LET c == BridgeOf(o.chunk) IN
                     /\ p = reader(c) /\ o.chunk \in turn'[o.turn].calls
                     /\ c \in stray' \/ o.turn = onData'[c] \/ turn'[o.turn].calls # {o.chunk}
          <5> DEFINE c == BridgeOf(o.chunk)
          <5>1. /\ p = reader(c) /\ o.chunk \in turn[o.turn].calls /\ o.turn \in Requests
                /\ c \in stray \/ o.turn = onData[c] \/ turn[o.turn].calls # {o.chunk}
            BY <4>1, <4>3 DEF Sound, Instr, Bare, OfHeart
          <5>2. o.chunk # x
            BY <1>12, <5>1
          <5>3. turn'[o.turn].calls = {o.chunk} => turn[o.turn].calls = {o.chunk}
            BY <1>10, <5>1
          <5> QED
            BY <1>8, <1>10, <5>1, <5>3
        <4> QED
          BY <4>2, <4>3 DEF Sound
      <3> QED
        BY <3>1, <3>2
    <2> QED
      BY <2>1, <2>2 DEF Scripts
  <1>14. Accounts'
    <2>1. Pendings'
      BY <1>8, <1>9, <1>11 DEF Accounts, Pendings
    <2>2. Asked'
      BY <1>2, <1>3, <1>8, <1>9, <1>11 DEF Accounts, Asked
    <2>3. Calls'
      <3>1. ASSUME NEW u \in Requests, NEW y \in turn'[u].calls
            PROVE  BridgeOf(y) = turn'[u].bridge /\ Issued(y)'
        <4>1. CASE y = x
          <5>1. u = t
            BY <1>10, <1>12, <3>1, <4>1
          <5> QED
            BY <1>2, <1>6, <4>1, <5>1
        <4>2. CASE y # x
          <5>1. y \in turn[u].calls /\ y \in Execs
            BY <1>5, <1>10, <3>1, <4>2
          <5> QED
            BY <1>2, <1>10, <1>11, <5>1 DEF Accounts, Calls
        <4> QED
          BY <4>1, <4>2
      <3>2. ASSUME NEW u \in Requests, NEW v \in Requests, NEW y \in turn'[u].calls \cap turn'[v].calls
            PROVE  u = v
        <4>1. CASE y = x
          BY <1>10, <1>12, <3>2, <4>1
        <4>2. CASE y # x
          <5>1. y \in turn[u].calls \cap turn[v].calls
            BY <1>10, <3>2, <4>2
          <5> QED
            BY <1>11, <5>1 DEF Accounts, Calls
        <4> QED
          BY <4>1, <4>2
      <3> QED
        BY <3>1, <3>2 DEF Calls
    <2>4. Boxes'
      BY <1>8, <1>10, <1>11 DEF Accounts, Boxes
    <2> QED
      BY <2>1, <2>2, <2>3, <2>4 DEF Accounts
  <1>15. \A y \in Execs : Registered(y) => y # x
    BY <1>2 DEF Registered
  <1>16. Owned'
    <2> SUFFICES ASSUME NEW c \in Requests, life'[c] # "none", c \notin stray' PROVE OwnedAt(c)'
      BY DEF Owned
    <2>1. OwnedAt(c) /\ onData[c] \in Requests
      BY <1>8 DEF BInv, Owned, IInv, Wired, Types, BridgeTypes
    <2>2. OneHolder(c)'
      BY <1>8, <2>1 DEF OwnedAt, OneHolder, Holds, Waits
    <2>3. Waiting(c)'
      BY <1>8, <1>10, <2>1 DEF OwnedAt, Waiting, Waits
    <2>4. InHand(c)'
      BY <1>8, <1>10, <2>1 DEF OwnedAt, InHand, Holds
    <2>5. OnTheWay(c)'
      <3> SUFFICES ASSUME NEW r \in Requests, Holds(r, c), pc[r] \in {"swap", "sending"}
                   PROVE  /\ onData[c] = r /\ pending[taken[r]] \subseteq ask[r]
                          /\ \A y \in pending[taken[r]] : y \notin turn'[r].calls /\ sent[y] = 0
        BY <1>8 DEF OnTheWay, Holds
      <3>1. /\ onData[c] = r /\ pending[taken[r]] \subseteq ask[r]
            /\ \A y \in pending[taken[r]] : y \notin turn[r].calls /\ sent[y] = 0
        BY <2>1 DEF OwnedAt, OnTheWay
      <3>2. \A y \in pending[taken[r]] : y # x
        BY <1>11, <1>15, HeldStruct DEF Holds
      <3> QED
        BY <1>10, <3>1, <3>2
    <2>6. SentOnce(c)'
      <3> SUFFICES ASSUME NEW y \in Execs, BridgeOf(y) = c
                   PROVE  sent[y] <= 1 /\ (sent[y] > 0 => y \notin turn'[onData[c]].calls)
        BY <1>8 DEF SentOnce
      <3>1. sent[y] <= 1 /\ (sent[y] > 0 => y \notin turn[onData[c]].calls)
        BY <2>1 DEF OwnedAt, SentOnce
      <3>2. sent[y] > 0 => y # x
        BY <1>11, <1>15 DEF Accounts, Asked
      <3> QED
        BY <1>10, <2>1, <3>1, <3>2
    <2> QED
      BY <2>2, <2>3, <2>4, <2>5, <2>6 DEF OwnedAt
  <1>17. AllFound'
    <2> SUFFICES ASSUME NEW y \in Execs, Registered(y) PROVE Found(y)'
      BY <1>9 DEF AllFound
    <2>1. Found(y)
      BY DEF BInv, AllFound
    <2> QED
      BY <1>8, <2>1 DEF Found, Lost, Held
  <1>18. Announced'
    <2>1. known \subseteq Execs
      BY DEF IInv, Types, SessionTypes
    <2>2. ASSUME NEW u \in Requests, NEW i \in DOMAIN turn[u].out, turn[u].out[i].kind = "calls",
                 NEW y, y = turn[u].out[i].exec
          PROVE  Registered(y)'
      <3>1. turn[u].out \in Seq(Chunk)
        BY DEF IInv, Types, TurnTypes, Turn
      <3>2. turn[u].out[i] \in Chunk
        BY <3>1, ElementOfSeq, LenProperties
      <3>3. y \in Execs /\ Registered(y)
        BY <2>2, <3>2 DEF BInv, Announced, Chunk
      <3> QED
        BY <1>9, <3>3
    <2>3. \A y \in known : Registered(y)'
      BY <1>9, <2>1 DEF BInv, Announced
    <2> QED
      BY <1>8, <1>10, <2>2, <2>3 DEF Announced
  <1> QED
    BY <1>13, <1>14, <1>16, <1>17, <1>18 DEF BInv

\* A bridge is opened: nobody has heard of it.
LEMMA OpensInv ==
    ASSUME IInv, BInv, NEW r \in Requests, Open(r), ~Goes(r, "over")
    PROVE  BInv'
  <1>1. PICK l \in {"alive", "dead"}, streamed \in BOOLEAN :
           /\ pc[r] = "open" /\ Goes(r, "running")
           /\ life' = [life EXCEPT ![r] = l] /\ onData' = [onData EXCEPT ![r] = r]
           /\ turn' = [turn EXCEPT ![r] = Fresh(r, streamed)]
           /\ todo' = todo \/ todo' = [todo EXCEPT ![closer(r)] = OnClosedFirst(r, "err")]
           /\ UNCHANGED <<sessions, ended, server, ask, taken, clients, history>>
    <2>1. limit.streamed \subseteq BOOLEAN
      BY SessionAssumption DEF IInv, Types, SessionTypes
    <2> QED
      BY <2>1 DEF Open, Fresh, closer
  <1>2. /\ pc \in [Requests -> Stages] /\ Accounts
        /\ turn \in [Requests -> Turn] /\ onData \in [Requests -> Requests \cup {None}]
        /\ life \in [Requests -> {"none", "alive", "dead"}]
    BY DEF IInv, Types, TurnTypes, BridgeTypes, BInv
  <1>3. (\A q \in Requests : q # r => pc'[q] = pc[q]) /\ pc'[r] = "running"
    BY <1>1, <1>2 DEF Goes
  <1>4. turn[r].bridge = None /\ turn[r].calls = {} /\ life[r] = "none" /\ todo[closer(r)] = << >>
    BY <1>1 DEF IInv, Placed, PlacedAt, Early
  <1>5. /\ turn'[r].bridge = r /\ turn'[r].calls = {} /\ DOMAIN turn'[r].out = {}
        /\ \A q \in Requests : q # r => turn'[q] = turn[q]
    BY <1>1, <1>2, FreshCalls
  <1>6. /\ onData'[r] = r /\ life'[r] # "none"
        /\ \A c \in Requests : c # r => onData'[c] = onData[c] /\ life'[c] = life[c]
    BY <1>1, <1>2
  <1>7. UNCHANGED <<active, pending, ended, asked, sent, ask, taken, known, stray, displaced>>
    BY <1>1 DEF sessions, server, clients, history
  <1>8. \A x \in Execs : Issued(x) => BridgeOf(x) # r
    BY <1>2, <1>4 DEF Accounts, Asked
  <1>9. GoesOn
    <2>1. closer(r) \in Procs /\ Silent(todo[closer(r)])
      BY <1>4, WorkerNames, SilentNarrows
    <2>2. Silent(OnClosedFirst(r, "err"))
      BY SilentPrograms DEF Codes
    <2> QED
      BY <1>1, <2>1, <2>2, SilentGoesOn, StillGoesOn
  <1>10. \A x \in Execs : (Issued(x)' <=> Issued(x)) /\ (Registered(x)' <=> Registered(x))
    <2> SUFFICES ASSUME NEW x \in Execs
                 PROVE  (Issued(x)' <=> Issued(x)) /\ (Registered(x)' <=> Registered(x))
      OBVIOUS
    <2>1. reader(BridgeOf(x)) \in Procs
      BY WorkerNames DEF BridgeOf, Execs
    <2>2. Registers(todo'[reader(BridgeOf(x))], x) <=> Registers(todo[reader(BridgeOf(x))], x)
      BY <1>9, <2>1 DEF GoesOn, Narrows, Registers
    <2> QED
      BY <1>7, <2>2 DEF Issued, Registered
  <1>11. Scripts'
    <2>1. ASSUME NEW p \in Procs, NEW i \in DOMAIN todo'[p], NEW o, o = todo'[p][i] PROVE Sound(p, o)'
      <3>1. CASE ~(o.do = "register" \/ IsCalls(o))
        BY <3>1 DEF Sound
      <3>2. CASE o.do = "register" \/ IsCalls(o)
        <4>1. PICK j \in DOMAIN todo[p] : todo[p][j] = o
          BY <1>9, <2>1, <3>2 DEF GoesOn, Narrows
        <4>2. Sound(p, o) /\ o \in Instr
          BY <4>1, ElementOfSeq DEF BInv, Scripts, IInv, Types, TurnTypes
        <4>3. ASSUME IsCalls(o) PROVE p = reader(BridgeOf(o.chunk.exec)) /\ Issued(o.chunk.exec)'
          <5>1. o.chunk.exec \in Execs
            BY <4>2, <4>3 DEF IsCalls, Instr, Bare, OfHeart, Chunk
          <5> QED
            BY <1>10, <4>2, <4>3, <5>1 DEF Sound
        <4>4. ASSUME o.do = "register"
              PROVE  LET c == BridgeOf(o.chunk) IN
                     /\ p = reader(c) /\ o.chunk \in turn'[o.turn].calls
                     /\ c \in stray' \/ o.turn = onData'[c] \/ turn'[o.turn].calls # {o.chunk}
          <5> DEFINE c == BridgeOf(o.chunk)
          <5>1. /\ p = reader(c) /\ o.chunk \in turn[o.turn].calls
                /\ c \in stray \/ o.turn = onData[c] \/ turn[o.turn].calls # {o.chunk}
                /\ o.turn \in Requests /\ o.chunk \in Execs /\ c \in Requests
            BY <4>2, <4>4 DEF Sound, Instr, Bare, OfHeart, BridgeOf, Execs
          <5>2. Issued(o.chunk)
            BY <1>2, <5>1 DEF Accounts, Calls
          <5>3. c # r /\ o.turn # r
            BY <1>4, <1>8, <5>1, <5>2
          <5> QED
            BY <1>5, <1>6, <1>7, <5>1, <5>3
        <4> QED
          BY <4>3, <4>4 DEF Sound
      <3> QED
        BY <3>1, <3>2
    <2>2. ASSUME NEW c \in Requests PROVE Scripted(todo'[reader(c)])
      <3>1. reader(c) \in Procs
        BY WorkerNames
      <3> QED
        BY <1>9, <3>1 DEF BInv, Scripts, GoesOn, Narrows
    <2> QED
      BY <2>1, <2>2 DEF Scripts
  <1>12. Accounts'
    <2>1. Pendings'
      BY <1>2, <1>7, <1>10 DEF Accounts, Pendings
    <2>2. Asked'
      <3>1. \A x \in Execs : BridgeOf(x) \in Requests
        BY DEF BridgeOf, Execs
      <3> QED
        BY <1>2, <1>6, <1>7, <1>10, <3>1 DEF Accounts, Asked
    <2>3. Calls'
      <3>1. \A u \in Requests : turn[u].calls \subseteq Execs
        BY DEF IInv, Types, TurnTypes, Turn
      <3> QED
        BY <1>2, <1>5, <1>10, <3>1 DEF Accounts, Calls
    <2>4. Boxes'
      BY <1>2, <1>3, <1>5, <1>7 DEF Accounts, Boxes
    <2> QED
      BY <2>1, <2>2, <2>3, <2>4 DEF Accounts
  <1>13. Owned'
    <2> SUFFICES ASSUME NEW c \in Requests, life'[c] # "none", c \notin stray' PROVE OwnedAt(c)'
      BY DEF Owned
    <2>1. CASE c = r
      <3>1. \A q \in Requests : ~Holds(q, c)'
        <4> SUFFICES ASSUME NEW q \in Requests, Holds(q, c)' PROVE FALSE
          OBVIOUS
        <4>1. Holds(q, c)
          BY <1>3, <1>7 DEF Holds, Holding
        <4> QED
          BY <1>2, <1>4, <2>1, <4>1, HeldStruct DEF Holds
      <3>2. ~Waits(c)'
        BY <1>2, <1>4, <1>7, <2>1, WaitingStruct DEF Waits
      <3>3. ASSUME NEW x \in Execs, BridgeOf(x) = c PROVE ~(sent'[x] > 0) /\ sent'[x] \in Nat
        <4>1. sent[x] > 0 => Issued(x)
          BY <1>2 DEF Accounts, Asked, Registered
        <4> QED
          BY <1>7, <1>8, <2>1, <3>3, <4>1 DEF IInv, Types, SessionTypes
      <3>4. SentOnce(c)'
        <4> SUFFICES ASSUME NEW x \in Execs, BridgeOf(x) = c
                     PROVE  sent'[x] <= 1 /\ (sent'[x] > 0 => x \notin turn'[onData'[c]].calls)
          BY DEF SentOnce
        <4>1. ~(sent'[x] > 0) /\ sent'[x] \in Nat
          BY <3>3
        <4> QED
          BY <4>1
      <3> QED
        BY <3>1, <3>2, <3>4 DEF OwnedAt, OneHolder, Waiting, InHand, OnTheWay
    <2>2. CASE c # r
      <3>1. life[c] # "none" /\ c \notin stray
        BY <1>6, <1>7, <2>2
      <3>2. OwnedAt(c) /\ onData[c] \in Requests /\ onData[c] # r
        <4>1. OwnedAt(c) /\ onData[c] \in Requests /\ turn[onData[c]].bridge = c
          BY <3>1 DEF BInv, Owned, IInv, Wired, Types, BridgeTypes
        <4> QED
          BY <1>4, <4>1, SessionAssumption
      <3>3. \A q \in Requests : Holds(q, c)' => q # r /\ Holds(q, c)
        BY <1>3, <1>7 DEF Holds, Holding
      <3>4. Elsewhere(c)
        BY <1>3, <1>5, <1>6, <1>7, <2>2, <3>2, <3>3 DEF Elsewhere, Waits
      <3> QED
        BY <1>2, <3>2, <3>4, OwnedElsewhere
    <2> QED
      BY <2>1, <2>2
  <1>14. AllFound'
    <2> SUFFICES ASSUME NEW x \in Execs, Registered(x) PROVE Found(x)'
      BY <1>10 DEF AllFound
    <2>1. Found(x) /\ BridgeOf(x) # r /\ BridgeOf(x) \in Requests
      BY <1>8 DEF BInv, AllFound, Registered, BridgeOf, Execs
    <2>2. \A q \in Requests : Held(x, q) => Held(x, q)'
      BY <1>1, <1>3, <1>7 DEF Held
    <2> QED
      BY <1>6, <1>7, <2>1, <2>2 DEF Found, Lost
  <1>15. Announced'
    <2>1. known \subseteq Execs
      BY DEF IInv, Types, SessionTypes
    <2>2. ASSUME NEW u \in Requests, NEW i \in DOMAIN turn[u].out, turn[u].out[i].kind = "calls",
                 NEW y, y = turn[u].out[i].exec
          PROVE  Registered(y)'
      <3>1. turn[u].out \in Seq(Chunk)
        BY DEF IInv, Types, TurnTypes, Turn
      <3>2. turn[u].out[i] \in Chunk
        BY <3>1, ElementOfSeq, LenProperties
      <3>3. y \in Execs /\ Registered(y)
        BY <2>2, <3>2 DEF BInv, Announced, Chunk
      <3> QED
        BY <1>10, <3>3
    <2>3. \A y \in known : Registered(y)'
      BY <1>10, <2>1 DEF BInv, Announced
    <2> QED
      BY <1>5, <1>7, <2>2, <2>3 DEF Announced
  <1> QED
    BY <1>11, <1>12, <1>13, <1>14, <1>15 DEF BInv

--------------------------------------------------------------------------------
(* A request that cleans up a bridge, with the lock in hand.                    *)

\* The lock is free: nobody cleans up.
LEMMA NobodyCleans ==
    ASSUME Cleaning, lock = None
    PROVE  \A r \in Requests : pc[r] # "cleaning"
  BY SessionAssumption DEF Cleaning, CleansAt

\* Steps of others.
LEMMA CleansOn ==
    ASSUME IInv, Cleaning, UNCHANGED <<lock, active>>,
           \A c \in Requests : life[c] = "dead" => life'[c] = "dead",
           ended \subseteq ended', stray \subseteq stray', displaced \subseteq displaced',
           \A q \in Requests : pc'[q] = "cleaning" => pc[q] = "cleaning" /\ todo'[main(q)] = todo[main(q)]
    PROVE  Cleaning'
  <1> SUFFICES ASSUME NEW q \in Requests, pc'[q] = "cleaning"
               PROVE  CleansAt(q)'
    BY DEF Cleaning, CleansAt
  <1>1. pc[q] = "cleaning" /\ todo'[main(q)] = todo[main(q)] /\ CleansAt(q)
    BY DEF Cleaning
  <1>2. active # None
    BY <1>1 DEF CleansAt
  <1>3. BridgeOf(active) \in Requests
    BY <1>2 DEF IInv, Types, SessionTypes, BridgeOf, Execs
  <1>4. Lost(BridgeOf(active)) => Lost(BridgeOf(active))'
    BY <1>3 DEF Lost
  <1> QED
    BY <1>1, <1>4 DEF CleansAt

\* Steps that nobody takes, or is left to take, while another cleans up.
LEMMA CleansNot ==
    ASSUME Cleaning, lock = None, \A q \in Requests : pc'[q] = "cleaning" => pc[q] = "cleaning"
    PROVE  Cleaning'
  BY NobodyCleans DEF Cleaning, CleansAt

\* Whether RunChat goes on is not for programs to say, nor who holds the lock.
LEMMA StepLock ==
    ASSUME NEW p \in Procs, Step(p)
    PROVE  /\ UNCHANGED <<lock, pc, life>> /\ ended \subseteq ended'
           /\ stray \subseteq stray' /\ displaced \subseteq displaced'
           /\ todo[p][1].do # "register" => active' = active
           /\ todo[p][1].do = "register" => lock = None
           /\ todo' = todo \/ Pop(p) \/ \E program : Then(p, program)
  <1> DEFINE o == todo[p][1]
             t == o.turn
             b == turn[t].bridge
             Q == /\ UNCHANGED <<lock, pc, life>> /\ ended \subseteq ended'
                  /\ stray \subseteq stray' /\ displaced \subseteq displaced'
                  /\ o.do # "register" => active' = active
                  /\ o.do = "register" => lock = None
                  /\ todo' = todo \/ Pop(p) \/ \E program : Then(p, program)
  <1> USE DEF sessions, bridges, requests, history
  <1>1. CASE o.do # "register" /\ (EmitSkip(p, t) \/ EmitWait(p, t) \/ EmitSend(p, t, o.chunk))
    BY <1>1 DEF EmitSkip, EmitWait, EmitSend
  <1>2. CASE o.do # "register" /\ (FinishBegin(p, t) \/ FinishEnd(p, t) \/ FinishAgain(p, t))
    BY <1>2 DEF FinishBegin, FinishEnd, FinishAgain
  <1>3. ASSUME NEW c, NEW cancel, o.do # "register", Heart(p, c, cancel) \/ CloseHeart(p, c, cancel)
        PROVE  Q
    <2>1. ended \subseteq ended'
      BY <1>3 DEF Heart, CloseHeart, EndsBridge
    <2>2. UNCHANGED <<sessions, life, requests, history>>
      BY <1>3 DEF Heart, CloseHeart
    <2>3. Pop(p) \/ \E program : Then(p, program)
      BY <1>3 DEF Heart, CloseHeart
    <2> QED
      BY <1>3, <2>1, <2>2, <2>3
  <1>4. CASE o.do # "register" /\ (Drop(p) \/ Checkpoint(p, t) \/ Keep(p, t))
    BY <1>4 DEF Drop, Checkpoint, Keep
  <1>5. CASE o.do # "register" /\ (Final(p, t, o.chunk) \/ TurnEnded(p, t))
    BY <1>5 DEF Final, TurnEnded
  <1>6. CASE o.do = "register" /\ RegisterCall(p, t, o.chunk)
    BY <1>6 DEF RegisterCall
  <1> HIDE DEF t, b, Q
  <1>7. Q
    BY <1>1, <1>2, <1>3, <1>4, <1>5, <1>6 DEF Step, t, b, Q
  <1> QED
    BY <1>7 DEF Q

\* cleanupActive ends the bridge.
LEMMA CleansStep ==
    ASSUME IInv, Cleaning, NEW p \in Procs, Step(p)
    PROVE  Cleaning'
  <1>1. /\ UNCHANGED <<lock, pc, life>> /\ ended \subseteq ended'
        /\ stray \subseteq stray' /\ displaced \subseteq displaced'
        /\ todo[p][1].do # "register" => active' = active
        /\ todo[p][1].do = "register" => lock = None
        /\ todo' = todo \/ Pop(p) \/ \E program : Then(p, program)
    BY StepLock
  <1>2. CASE todo[p][1].do = "register"
    BY <1>1, <1>2, CleansNot
  <1>3. CASE todo[p][1].do # "register"
    <2> SUFFICES ASSUME NEW q \in Requests, pc'[q] = "cleaning" PROVE CleansAt(q)'
      BY DEF Cleaning, CleansAt
    <2> DEFINE c == BridgeOf(active)
    <2>1. active' = active /\ lock' = lock /\ pc[q] = "cleaning" /\ CleansAt(q)
      BY <1>1, <1>3 DEF Cleaning
    <2>2. active # None /\ lock = q
      BY <2>1 DEF CleansAt
    <2>3. c \in Requests /\ life[c] # "none" /\ turn[c].bridge = c
      BY <2>2 DEF IInv, Types, SessionTypes, BridgeOf, Execs, Wired
    <2>4. Lost(c) => Lost(c)'
      BY <1>1, <2>1 DEF Lost
    <2>5. CASE Lost(c)
      BY <2>1, <2>2, <2>4, <2>5 DEF CleansAt
    <2>6. CASE ~Lost(c) /\ p # main(q)
      <3>1. todo \in [Procs -> Seq(Instr)] /\ main(q) \in Procs
        BY WorkerNames DEF IInv, Types, TurnTypes
      <3>2. todo'[main(q)] = todo[main(q)]
        BY <1>1, <2>6, <3>1 DEF Pop, Then
      <3> QED
        BY <2>1, <2>6, <3>2 DEF CleansAt
    <2>7. CASE ~Lost(c) /\ p = main(q)
      <3>1. todo[p] # << >> /\ todo[p][1].do \in {"cleanup", "cleanupClose"} /\ todo[p][1].turn = c
        BY <2>1, <2>7 DEF CleansAt
      <3>2. Heart(p, c, TRUE) \/ CloseHeart(p, c, TRUE)
        BY <2>3, <3>1 DEF Step
      <3>3. CASE ended' = EndsBridge(c, TRUE)
        <4>1. life[c] = "alive" \/ life[c] = "dead"
          BY <2>3 DEF IInv, Types, BridgeTypes
        <4>2. Lost(c)'
          BY <1>1, <2>1, <3>3, <4>1 DEF Lost, EndsBridge
        <4> QED
          BY <2>1, <2>2, <4>2 DEF CleansAt
      <3>4. CASE Then(p, <<Do("cleanupClose", c)>>)
        <4> DEFINE h == Do("cleanupClose", c)
                   s == <<h>> \o Tail(todo[p])
        <4>1. h \in Instr /\ h.do = "cleanupClose" /\ h.turn = c
          BY <2>3, Steps DEF Bare, OfHeart, Do
        <4>2. todo \in [Procs -> Seq(Instr)] /\ todo[p] \in Seq(Instr)
          BY DEF IInv, Types, TurnTypes
        <4>3. Tail(todo[p]) \in Seq(Instr)
          BY <3>1, <4>2, Parts
        <4>4. todo'[p] = s
          BY <3>4, <4>2 DEF Then
        <4> HIDE DEF h
        <4>5. s # << >> /\ s[1] = h
          BY <4>1, <4>3, InFront
        <4> HIDE DEF s
        <4>6. todo'[main(q)] # << >> /\ todo'[main(q)][1].do = "cleanupClose" /\ todo'[main(q)][1].turn = c
          BY <2>7, <4>1, <4>4, <4>5
        <4> QED
          BY <2>1, <2>2, <4>6 DEF CleansAt
      <3> QED
        BY <3>2, <3>3, <3>4 DEF Heart, CloseHeart
    <2> QED
      BY <2>5, <2>6, <2>7
  <1> QED
    BY <1>2, <1>3

\* A request comes: it cleans up the bridge that waits, takes it, or finds none.
LEMMA CleansEnter ==
    ASSUME IInv, Cleaning, NEW r \in Requests, Enter(r)
    PROVE  Cleaning'
  <1>1. lock = None /\ \A q \in Requests : pc[q] # "cleaning"
    BY NobodyCleans DEF Enter
  <1>2. pc \in [Requests -> Stages] /\ todo \in [Procs -> Seq(Instr)] /\ main(r) \in Procs
    BY WorkerNames DEF IInv, Types, TurnTypes
  <1>3. CASE Goes(r, "taken") \/ Goes(r, "prepare")
    <2>1. \A q \in Requests : pc'[q] # "cleaning"
      BY <1>1, <1>2, <1>3 DEF Goes
    <2> QED
      BY <2>1 DEF Cleaning, CleansAt
  <1>4. CASE /\ active # None /\ lock' = r /\ active' = active /\ Goes(r, "cleaning")
             /\ todo' = [todo EXCEPT ![main(r)] = Cleanup(BridgeOf(active))]
    <2> DEFINE c == BridgeOf(active)
               h == Do("cleanup", c)
    <2>1. h.do = "cleanup" /\ h.turn = c
      BY DEF Do
    <2>2. todo'[main(r)] = <<h>>
      BY <1>2, <1>4 DEF Cleanup
    <2> HIDE DEF h
    <2>3. todo'[main(r)] # << >> /\ todo'[main(r)][1] = h
      BY <2>2
    <2>4. \A q \in Requests : pc'[q] = "cleaning" => q = r
      BY <1>1, <1>2, <1>4 DEF Goes
    <2>5. CleansAt(r)'
      BY <1>4, <2>1, <2>3 DEF CleansAt
    <2> QED
      BY <2>4, <2>5 DEF Cleaning, CleansAt
  <1> QED
    BY <1>3, <1>4 DEF Enter

\* Where else RunChat is.
LEMMA CleansRunChat ==
    ASSUME IInv, Cleaning, NEW r \in Requests, RunChat(r)
    PROVE  Cleaning'
  <1> USE DEF sessions, bridges, requests, history
  <1>1. pc \in [Requests -> Stages] /\ todo \in [Procs -> Seq(Instr)]
    BY DEF IInv, Types, TurnTypes
  <1>2. \E where \in Stages \ {"cleaning"} : Goes(r, where)
    BY DEF RunChat, Cleaned, Taken, Relock, Prepare, Build, Open, StillPending, SwapData, SwapClose,
           SendResults, Stages, Early
  <1>3. \A q \in Requests : pc'[q] = "cleaning" => q # r /\ pc[q] = "cleaning"
    BY <1>1, <1>2 DEF Goes
  <1>4. CASE Cleaned(r)
    <2>1. \A q \in Requests : pc[q] = "cleaning" => lock = q
      BY DEF Cleaning, CleansAt
    <2>2. \A q \in Requests : pc'[q] # "cleaning"
      BY <1>3, <1>4, <2>1 DEF Cleaned
    <2> QED
      BY <2>2 DEF Cleaning, CleansAt
  <1>5. CASE Relock(r) \/ StillPending(r)
    BY <1>3, <1>5, CleansNot DEF Relock, StillPending
  <1>6. CASE Taken(r) \/ Prepare(r) \/ Build(r) \/ Open(r) \/ SwapData(r) \/ SwapClose(r) \/ SendResults(r)
    <2>1. /\ UNCHANGED <<lock, active, ended>> /\ stray' = stray /\ displaced' = displaced
      BY <1>6 DEF Taken, Prepare, Build, Open, SwapData, SwapClose, SendResults
    <2>2. todo' = todo \/ \E w \in {main(r), closer(r)} : \E program : todo' = [todo EXCEPT ![w] = program]
      BY <1>6 DEF Taken, Prepare, Build, Open, SwapData, SwapClose, SendResults, closer
    <2>3. \A q \in Requests : q # r => todo'[main(q)] = todo[main(q)]
      <3>1. \A q \in Requests : q # r => main(q) # main(r) /\ main(q) # closer(r)
        BY DEF main, closer
      <3> QED
        BY <1>1, <2>2, <3>1, WorkerNames
    <2>4. \A c \in Requests : life[c] = "dead" => life'[c] = "dead"
      <3>1. CASE life' = life
        BY <3>1
      <3>2. CASE Open(r) /\ life' # life
        <4>1. /\ life[r] = "none"
              /\ \E l : life' = [life EXCEPT ![r] = l]
          BY <3>2 DEF Open, IInv, Placed, PlacedAt, Early
        <4> QED
          BY <4>1 DEF IInv, Types, BridgeTypes
      <3> QED
        BY <1>6, <3>1, <3>2 DEF Taken, Prepare, Build, SwapData, SwapClose, SendResults
    <2> QED
      BY <1>3, <2>1, <2>3, <2>4, CleansOn
  <1> QED
    BY <1>4, <1>5, <1>6 DEF RunChat

\* Readers, watchers and clients.
LEMMA CleansOthers ==
    ASSUME IInv, Cleaning, NEW r \in Requests,
           \/ WatchDone(r) \/ WatchCtx(r) \/ Receive(r) \/ Answer(r) \/ Leave(r)
           \/ \E kind \in Kinds : Deliver(r, kind)
           \/ \E code \in Codes : Close(r, code)
    PROVE  Cleaning'
  <1> USE DEF sessions, bridges, requests, history
  <1>1. pc \in [Requests -> Stages] /\ todo \in [Procs -> Seq(Instr)]
    BY DEF IInv, Types, TurnTypes
  <1>2. UNCHANGED <<lock, active, ended>> /\ stray' = stray /\ displaced' = displaced
    BY DEF WatchDone, WatchCtx, Receive, Answer, Leave, Deliver, Close
  <1>3. pc' = pc \/ Goes(r, "over")
    BY DEF WatchDone, WatchCtx, Receive, Answer, Leave, Deliver, Close
  <1>4. \A q \in Requests : pc'[q] = "cleaning" => pc[q] = "cleaning"
    BY <1>1, <1>3 DEF Goes
  <1>5. todo' = todo \/ \E w \in {watcher(r), reader(r)} : \E program : todo' = [todo EXCEPT ![w] = program]
    BY DEF WatchDone, WatchCtx, Receive, Answer, Leave, Deliver, Close, watcher, reader
  <1>6. \A q \in Requests : todo'[main(q)] = todo[main(q)]
    <2>1. \A q \in Requests : main(q) # watcher(r) /\ main(q) # reader(r)
      BY DEF main, watcher, reader
    <2> QED
      BY <1>1, <1>5, <2>1, WorkerNames
  <1>7. life' = life \/ life' = [life EXCEPT ![r] = "dead"]
    BY DEF WatchDone, WatchCtx, Receive, Answer, Leave, Deliver, Close
  <1>8. \A c \in Requests : life[c] = "dead" => life'[c] = "dead"
    BY <1>7 DEF IInv, Types, BridgeTypes
  <1> QED
    BY <1>2, <1>4, <1>6, <1>8, CleansOn

--------------------------------------------------------------------------------
(* All of it.                                                                   *)

\* Nothing is asked for, held or told in the beginning.
LEMMA InitBridges ==
    ASSUME Init
    PROVE  BInv /\ Cleaning
  <1>1. \A p \in Procs : todo[p] = << >>
    BY DEF Init
  <1>2. \A p \in Procs : DOMAIN todo[p] = {} /\ Silent(todo[p])
    BY <1>1, SilentNarrows
  <1>3. Scripts
    <2>1. \A b \in Requests : Scripted(todo[reader(b)])
      BY <1>2, WorkerNames, SilentNarrows
    <2> QED
      BY <1>2, <2>1 DEF Scripts
  <1>4. \A x \in Execs : ~Issued(x) /\ ~Registered(x)
    <2> SUFFICES ASSUME NEW x \in Execs PROVE ~Issued(x)
      BY DEF Registered
    <2>1. PICK c \in Requests, m \in 1 .. MaxExecs : x = <<c, m>>
      BY DEF Execs
    <2>2. asked[c] = 0 /\ m \in Nat /\ ~(m <= 0)
      BY SessionAssumption DEF Init
    <2> QED
      BY <2>1, <2>2 DEF Issued, BridgeOf
  <1>5. /\ \A x \in Execs : pending[x] = {} /\ sent[x] = 0
        /\ active = None /\ known = {}
        /\ \A r \in Requests : pc[r] = "new" /\ taken[r] = None /\ life[r] = "none" /\ turn[r] = NewTurn
    BY DEF Init
  <1>6. NewTurn.calls = {} /\ DOMAIN NewTurn.out = {}
    <2>1. NewTurn.calls = {} /\ NewTurn.out = << >>
      BY Zenon DEF NewTurn
    <2>2. DOMAIN << >> = {}
      OBVIOUS
    <2> QED
      BY <2>1, <2>2
  <1>7. Accounts
    <2>1. Pendings /\ Asked
      BY <1>4, <1>5 DEF Pendings, Asked
    <2>2. Calls
      BY <1>5, <1>6 DEF Calls
    <2>3. Boxes
      BY <1>5 DEF Boxes
    <2> QED
      BY <2>1, <2>2, <2>3 DEF Accounts
  <1>8. Owned /\ AllFound
    BY <1>4, <1>5 DEF Owned, AllFound
  <1>9. Announced
    BY <1>5, <1>6 DEF Announced
  <1>10. Cleaning
    BY <1>5 DEF Cleaning, CleansAt
  <1> QED
    BY <1>3, <1>7, <1>8, <1>9, <1>10 DEF BInv

\* RunChat keeps it.
LEMMA RunChatBridges ==
    ASSUME IInv, BInv, Cleaning, NEW r \in Requests, RunChat(r)
    PROVE  BInv'
  <1>1. ASSUME Cleaned(r), active # None PROVE Lost(BridgeOf(active))
    BY <1>1 DEF Cleaned, Cleaning, CleansAt
  <1>2. CASE Cleaned(r)
    BY <1>1, <1>2, LetsGoInv
  <1>3. CASE Taken(r)
    BY <1>3, LetsGoInv, AloneAside, AsideInv
  <1>4. CASE Relock(r) \/ Prepare(r) \/ Build(r)
    BY <1>4, AloneAside, AsideInv
  <1>5. CASE Open(r)
    <2>1. CASE Goes(r, "over")
      <3>1. "over" # "running" /\ pc \in [Requests -> Stages]
        BY DEF IInv, Types, TurnTypes
      <3>2. ~Goes(r, "running")
        BY <2>1, <3>1 DEF Goes
      <3>3. UNCHANGED <<bridges, turn, watching, todo>>
        BY <1>5, <3>2 DEF Open
      <3> QED
        BY <1>5, <2>1, <3>3, OverAside, AsideInv DEF BInv
    <2>2. CASE ~Goes(r, "over")
      BY <1>5, <2>2, OpensInv
    <2> QED
      BY <2>1, <2>2
  <1>6. CASE StillPending(r) \/ SwapData(r) \/ SendResults(r)
    BY <1>6, PutsBackInv, SwapsInv, SendsInv
  <1>7. CASE SwapClose(r)
    BY <1>7, SwapCloseAside, AsideInv
  <1> QED
    BY <1>2, <1>3, <1>4, <1>5, <1>6, <1>7 DEF RunChat

\* So does every step.
LEMMA NextBridges ==
    ASSUME IInv, BInv, Cleaning, [Next]_vars
    PROVE  BInv' /\ Cleaning'
  <1>1. Scripts /\ Announced
    BY DEF BInv
  <1>2. CASE UNCHANGED vars
    <2>1. /\ UNCHANGED <<active, pending, sent, asked, onData, taken, stray, displaced>>
          /\ UNCHANGED <<life, pc, ask, ended>> /\ UNCHANGED <<lock, todo, turn, known>>
      BY <1>2 DEF vars, sessions, bridges, server, requests, clients, history
    <2>2. Aside
      BY <2>1, StillHands, QuietAside
    <2>3. Cleaning'
      BY <2>1, CleansOn
    <2> QED
      BY <2>2, <2>3, AsideInv
  <1>3. ASSUME NEW p \in Procs, Step(p) PROVE BInv' /\ Cleaning'
    <2>1. CASE todo[p][1].do = "register"
      <3>1. todo[p] # << >> /\ RegisterCall(p, todo[p][1].turn, todo[p][1].chunk)
        BY <1>3, <2>1 DEF Step
      <3> QED
        BY <1>3, <2>1, <3>1, RegistersInv, CleansStep
    <2>2. CASE todo[p][1].do # "register"
      BY <1>1, <1>3, <2>2, StepAside, AsideInv, CleansStep
    <2> QED
      BY <2>1, <2>2
  <1>4. ASSUME NEW r \in Requests, RunChat(r) PROVE BInv' /\ Cleaning'
    BY <1>4, RunChatBridges, CleansRunChat
  <1>5. ASSUME NEW r \in Requests,
               WatchDone(r) \/ WatchCtx(r) \/ Receive(r) \/ Answer(r) \/ Leave(r)
        PROVE  BInv' /\ Cleaning'
    <2>1. Aside
      BY <1>1, <1>5, AloneAside, WatchCtxAside, ReceiveAside, OverAside
    <2> QED
      BY <1>5, <2>1, AsideInv, CleansOthers
  <1>6. ASSUME NEW r \in Requests, Enter(r) PROVE BInv' /\ Cleaning'
    <2>1. CASE active' = active
      BY <1>6, <2>1, EnterAside, AsideInv, CleansEnter
    <2>2. CASE active' # active
      BY <1>6, <2>2, TakesInv, CleansEnter
    <2> QED
      BY <2>1, <2>2
  <1>7. ASSUME NEW b \in Requests, NEW kind \in Kinds, Deliver(b, kind) PROVE BInv' /\ Cleaning'
    <2>1. CASE kind = "exec"
      BY <1>7, <2>1, CallsInv, CleansOthers
    <2>2. CASE kind # "exec"
      BY <1>7, <2>2, FrameAside, AsideInv, CleansOthers
    <2> QED
      BY <2>1, <2>2
  <1>8. ASSUME NEW b \in Requests, NEW code \in Codes, Close(b, code) PROVE BInv' /\ Cleaning'
    BY <1>8, CloseAside, AsideInv, CleansOthers
  <1>9. CASE Evict
    <2>1. Aside
      <3>1. CASE Requests = {}
        <4>1. /\ UNCHANGED <<active, pending, sent, asked, onData, taken, stray, displaced>>
              /\ UNCHANGED <<life, pc, ask, ended>> /\ UNCHANGED <<todo, turn, known>>
          BY <1>9 DEF Evict, sessions, bridges, server, requests, clients, history
        <4> QED
          BY <4>1, StillHands, QuietAside
      <3>2. CASE Requests # {}
        BY <1>9, <3>2, AloneAside
      <3> QED
        BY <3>1, <3>2
    <2>2. Cleaning'
      BY <1>9, CleansNot DEF Evict, requests
    <2> QED
      BY <2>1, <2>2, AsideInv
  <1> QED
    BY <1>2, <1>3, <1>4, <1>5, <1>6, <1>7, <1>8, <1>9 DEF Next, Goroutines, Environment

\* The inductive invariant: in whose hands the struct of a bridge is, and which calls it
\* waits for.
THEOREM BridgeInvariance == Spec => [](BInv /\ Cleaning)
  <1>1. Init => BInv /\ Cleaning
    BY InitBridges
  <1>2. IInv /\ BInv /\ Cleaning /\ [Next]_vars => (BInv /\ Cleaning)'
    BY NextBridges
  <1> QED
    BY <1>1, <1>2, Invariance, PTL DEF Spec

\* A tool result is sent to Cursor once, whoever asks again and whatever becomes of its
\* bridge, unless a call came in while another request had taken the bridge already.
THEOREM ResultOnceAlways == Spec => []ResultOnce
  <1>1. IInv /\ BInv => ResultOnce
    <2> SUFFICES ASSUME IInv, BInv, NEW x \in Execs, BridgeOf(x) \notin stray PROVE sent[x] <= 1
      BY DEF ResultOnce
    <2>1. BridgeOf(x) \in Requests /\ sent[x] \in Nat
      BY DEF IInv, Types, SessionTypes, BridgeOf, Execs
    <2>2. CASE life[BridgeOf(x)] = "none"
      <3>1. ~(sent[x] > 0)
        BY <2>2 DEF BInv, Accounts, Asked, Registered
      <3> QED
        BY <2>1, <3>1
    <2>3. CASE life[BridgeOf(x)] # "none"
      BY <2>1, <2>3 DEF BInv, Owned, OwnedAt, SentOnce
    <2> QED
      BY <2>2, <2>3
  <1> QED
    BY <1>1, Invariance, BridgeInvariance, PTL

\* A client that was told to run a tool finds the bridge that waits for the result, as long
\* as the bridge is alive and nobody has cancelled it or put another one in its place.
THEOREM CallsKeptAlways == Spec => []CallsKept
  <1>1. IInv /\ BInv => CallsKept
    <2> SUFFICES ASSUME IInv, BInv, NEW x \in known PROVE Found(x)
      BY DEF CallsKept, Found, Lost
    <2>1. x \in Execs
      BY DEF IInv, Types, SessionTypes
    <2> QED
      BY <2>1 DEF BInv, Announced, AllFound
  <1> QED
    BY <1>1, Invariance, BridgeInvariance, PTL

--------------------------------------------------------------------------------
(* The stored conversations: which checkpoint a request resumes.               *)

\* Steps of a program that keep checkpoints, or need to know of them.
Does(o, what, t) == o.do = what /\ o.turn = t
IsStop(o) == o.do = "emit" /\ o.chunk.kind = "stop"

\* The checkpoint of the bridge has not been kept by OnClose yet.
Keeps(b) == \E p \in Procs : \E i \in DOMAIN todo[p] : Does(todo[p][i], "keep", b)
Past(b) == life[b] = "dead" /\ turn[b].bridge = b /\ ~Keeps(b)

\* The reader keeps what a bridge that is alive sends, and what OnClose has left
\* behind it is of a bridge that is dead.
Placing(p, o) ==
    /\ o.do \in {"checkpoint", "ended"} =>
          p = reader(turn[o.turn].bridge) /\ life[turn[o.turn].bridge] = "alive"
    /\ o.do \in {"keep", "final"} =>
          /\ turn[o.turn].bridge = o.turn /\ life[o.turn] = "dead"
          /\ p \in {reader(o.turn), closer(o.turn)}
Callbacks ==
    \A p \in Procs :
        /\ \A i \in DOMAIN todo[p] :
              /\ Placing(p, todo[p][i])
              /\ todo[p][i].do = "keep" => \E j \in DOMAIN todo[p] : Does(todo[p][j], "final", todo[p][i].turn)

\* A bridge was asked for a tool call in its first turn, if in any.
Firsts ==
    /\ \A b \in Requests : asked[b] > 0 => turn[b].bridge = b /\ turn[b].calls # {}
    /\ \A t \in Requests :
          /\ turn[t].bridge \notin {None, t} => turn[turn[t].bridge].calls # {}
          /\ taken[t] # None => BridgeOf(taken[t]) # t

\* The entry of the key has no checkpoint of b for a request to resume.
Settled(b) == current # None /\ entry[current].checkpoint = b => entry[current].hash = None

\* Whose turn has ended without a tool call leaves no checkpoint to be resumed.
Stopped(b) ==
    \/ b \in stopped
    \/ \E p \in Procs : \E i \in DOMAIN todo[p] :
          IsStop(todo[p][i]) /\ todo[p][i].turn = b /\ turn[b].bridge = b
Ended(b) == turn[b].turnEnded /\ ~turn[b].cancelled /\ turn[b].calls = {}
StoppingAt(b) == Stopped(b) => Past(b) /\ turn[b].calls = {} /\ Settled(b)
ClosingAt(b) == Past(b) /\ Ended(b) => Settled(b)
Stopping == \A b \in Requests : StoppingAt(b)
Closing == \A b \in Requests : ClosingAt(b)

\* An entry has a checkpoint of a bridge that has sent one, or was resumed.
Sources ==
    \A o, b \in Requests : entry[o].checkpoint = b =>
        turn[b].bridge = b /\ (turn[b].calls # {} \/ turn[b].latest # {})

\* A request has one entry, its own or one that was there.
Written ==
    /\ current # None => stored[current] # None
    /\ \A r \in Requests :
          /\ stored[r] = None => entry[r] = NoEntry
          /\ stored[r] # None => stored[stored[r]] # None
          /\ pc[r] \in {"new", "cleaning", "taken", "relock"} => stored[r] = None

\* What is stored, and what was copied of it, refers to blobs that are there.
WholeAt(e) == e.resumed \/ e.refs \subseteq e.blobs
Whole ==
    \A r \in Requests :
        /\ WholeAt(entry[r]) /\ WholeAt(used[r])
        /\ \A refs \in turn[r].latest : refs \subseteq blobs[r]
        /\ turn[r].bridge = None => turn[r].latest = {}

\* A request does not get the checkpoint of a turn that had ended when it came.
PromptedAt(r) ==
    /\ before[r] \subseteq stopped
    /\ pc[r] = "new" => used[r] = NoEntry
    /\ pc[r] = "prepare" /\ entry[stored[r]].checkpoint \in before[r] => entry[stored[r]].hash = None
    /\ pc[r] = "build" => entry[stored[r]].checkpoint \notin before[r]
    /\ used[r].checkpoint \notin before[r]
Prompted == stopped \subseteq Requests /\ \A r \in Requests : PromptedAt(r)

\* Who had stopped when a request came, and what it got.
History == before \in [Requests -> SUBSET Requests] /\ used \in [Requests -> Entry]

RInv ==
    /\ Callbacks /\ Firsts /\ Stopping /\ Closing /\ Sources
    /\ Written /\ Whole /\ Prompted

--------------------------------------------------------------------------------
(* Programs and what they keep.                                                *)

\* A step that keeps nothing and is not the stop of a bridge's first turn.
Light(o) ==
    /\ o.do \notin {"checkpoint", "keep", "final", "ended"}
    /\ IsStop(o) => turn[o.turn].bridge # o.turn
LightOnly(s) == \A i \in DOMAIN s : Light(s[i])

\* Program q takes the place of s and has all of the steps that keep something.
Carries(s, q) ==
    /\ \A i \in DOMAIN q : Light(q[i]) \/ \E j \in DOMAIN s : s[j] = q[i]
    /\ \A j \in DOMAIN s : s[j].do \in {"keep", "final"} => \E i \in DOMAIN q : q[i] = s[j]

\* Or a reader that has nothing to do hears of a frame.
Hears(p) ==
    /\ DOMAIN todo[p] = {}
    /\ \A i \in DOMAIN todo'[p] :
          LET o == todo'[p][i] IN
          /\ o.do \in {"checkpoint", "ended"} /\ Placing(p, o)
          /\ o.turn \in Requests /\ turn[o.turn].bridge \in Requests /\ turn[o.turn].bridge # None
CarriesOn == \A p \in Procs : Carries(todo[p], todo'[p]) \/ Hears(p)

\* A stream that is new is not the first one of its bridge.
SameOpened ==
    \A t \in Requests :
        \/ turn'[t].bridge = turn[t].bridge
        \/ turn[t].bridge = None /\ turn'[t].bridge \notin {None, t}

\* A program carries itself, and a light one takes the place of what keeps nothing.
LEMMA CarryFacts ==
    /\ \A s : Carries(s, s)
    /\ \A s, q : LightOnly(q) /\ (\A j \in DOMAIN s : s[j].do \notin {"keep", "final"}) => Carries(s, q)
    /\ LightOnly(<< >>) /\ DOMAIN << >> = {}
  BY DEF Carries, LightOnly

\* A step that keeps nothing has been done.
LEMMA TailCarries ==
    ASSUME NEW s \in Seq(Instr), s # << >>, s[1].do \notin {"keep", "final"}
    PROVE  Carries(s, Tail(s))
  <1> DEFINE q == Tail(s)
  <1>1. /\ Len(s) \in Nat /\ Len(s) >= 1 /\ DOMAIN s = 1 .. Len(s)
        /\ DOMAIN q = 1 .. Len(s) - 1
        /\ \A i \in 1 .. Len(s) - 1 : q[i] = s[i + 1]
    BY Parts
  <1> HIDE DEF q
  <1>2. \A i \in DOMAIN q : i + 1 \in DOMAIN s /\ q[i] = s[i + 1]
    BY <1>1
  <1>3. \A i \in DOMAIN s : i = 1 \/ (i - 1 \in DOMAIN q /\ q[i - 1] = s[i])
    BY <1>1
  <1>4. Carries(s, q)
    BY <1>2, <1>3 DEF Carries
  <1> QED
    BY <1>4 DEF q

\* One goroutine goes on.
LEMMA OneCarries ==
    ASSUME todo \in [Procs -> Seq(Instr)], NEW p \in Procs, NEW q, Carries(todo[p], q),
           todo' = [todo EXCEPT ![p] = q]
    PROVE  CarriesOn
  <1>1. \A w \in Procs : todo'[w] = todo[w] \/ (w = p /\ todo'[w] = q)
    OBVIOUS
  <1> QED
    BY <1>1, CarryFacts DEF CarriesOn

\* Who is said to have stopped was about to be.
SameStopped == stopped \subseteq stopped' /\ \A b \in stopped' : b \in Requests /\ Stopped(b)

\* Then the same bridges have been kept, and no other one is about to be stopped.
LEMMA CarriedStops ==
    ASSUME CarriesOn, life' = life, SameStopped, SameOpened, NEW b \in Requests
    PROVE  (Stopped(b)' => Stopped(b)) /\ (Past(b)' <=> Past(b))
  <1>0. turn'[b].bridge = b <=> turn[b].bridge = b
    BY SessionAssumption DEF SameOpened
  <1>1. ASSUME NEW p \in Procs, NEW i \in DOMAIN todo'[p],
               IsStop(todo'[p][i]), todo'[p][i].turn = b, turn'[b].bridge = b
        PROVE  Stopped(b)
    <2>1. ~Light(todo'[p][i]) /\ todo'[p][i].do \notin {"checkpoint", "ended"}
      BY <1>0, <1>1 DEF Light, IsStop
    <2>2. PICK j \in DOMAIN todo[p] : todo[p][j] = todo'[p][i]
      BY <2>1 DEF CarriesOn, Carries, Hears
    <2> QED
      BY <1>0, <1>1, <2>2 DEF Stopped
  <1>2. Stopped(b)' => Stopped(b)
    <2> SUFFICES ASSUME Stopped(b)', b \notin stopped' PROVE Stopped(b)
      BY DEF SameStopped
    <2>1. PICK p \in Procs : \E i \in DOMAIN todo'[p] :
             IsStop(todo'[p][i]) /\ todo'[p][i].turn = b /\ turn'[b].bridge = b
      BY DEF Stopped, IsStop
    <2> QED
      BY <1>1, <2>1
  <1>3. Keeps(b)' => Keeps(b)
    <2> SUFFICES ASSUME NEW p \in Procs, NEW i \in DOMAIN todo'[p], Does(todo'[p][i], "keep", b)
                 PROVE  Keeps(b)
      BY DEF Keeps, Does
    <2>1. ~Light(todo'[p][i]) /\ todo'[p][i].do \notin {"checkpoint", "ended"}
      BY DEF Light, Does
    <2>2. PICK j \in DOMAIN todo[p] : todo[p][j] = todo'[p][i]
      BY <2>1 DEF CarriesOn, Carries, Hears
    <2> QED
      BY <2>2 DEF Keeps
  <1>4. Keeps(b) => Keeps(b)'
    <2> SUFFICES ASSUME NEW p \in Procs, NEW j \in DOMAIN todo[p], Does(todo[p][j], "keep", b)
                 PROVE  Keeps(b)'
      BY DEF Keeps
    <2>1. PICK i \in DOMAIN todo'[p] : todo'[p][i] = todo[p][j]
      BY DEF CarriesOn, Carries, Hears, Does
    <2>2. Does(todo'[p][i], "keep", b)
      BY <2>1
    <2> QED
      BY <2>2 DEF Keeps, Does
  <1> QED
    BY <1>0, <1>2, <1>3, <1>4 DEF Past

\* What a program does at a place is about a turn that has a bridge.
LEMMA OnBridge ==
    ASSUME IInv, NEW p \in Procs, NEW i \in DOMAIN todo[p]
    PROVE  LET t == todo[p][i].turn IN
           /\ t \in Requests /\ turn[t].bridge \in Requests /\ turn[t].bridge # None
           /\ life[turn[t].bridge] # "none"
  <1> DEFINE t == todo[p][i].turn
  <1>1. t \in Based
    BY DEF IInv, Programs, About
  <1>2. t \in Requests /\ turn[t].bridge # None
    BY <1>1 DEF Based
  <1>3. turn[t].bridge \in Requests
    BY <1>2 DEF IInv, Types, TurnTypes, Turn
  <1> QED
    BY <1>2, <1>3 DEF IInv, Wired

\* And what is to be kept stays to be kept.
LEMMA CallbacksOn ==
    ASSUME IInv, Callbacks, CarriesOn, SameOpened,
           \A b \in Requests : life[b] # "none" => life'[b] = life[b]
    PROVE  Callbacks'
  <1> SUFFICES ASSUME NEW p \in Procs, NEW i \in DOMAIN todo'[p], NEW o, o = todo'[p][i]
               PROVE  /\ Placing(p, o)'
                      /\ o.do = "keep" => \E j \in DOMAIN todo'[p] : Does(todo'[p][j], "final", o.turn)
    BY DEF Callbacks, Placing, Does
  <1>0. ASSUME Placing(p, o), o.turn \in Requests, turn[o.turn].bridge \in Requests,
               turn[o.turn].bridge # None, life[turn[o.turn].bridge] # "none"
        PROVE  Placing(p, o)'
    BY <1>0 DEF Placing, SameOpened
  <1>1. CASE Light(o)
    BY <1>1 DEF Light, Placing
  <1>2. ASSUME NEW j \in DOMAIN todo[p], todo[p][j] = o, Carries(todo[p], todo'[p])
        PROVE  /\ Placing(p, o)'
               /\ o.do = "keep" => \E k \in DOMAIN todo'[p] : Does(todo'[p][k], "final", o.turn)
    <2>1. /\ o.turn \in Requests /\ turn[o.turn].bridge \in Requests
          /\ turn[o.turn].bridge # None /\ life[turn[o.turn].bridge] # "none"
      BY <1>2, OnBridge
    <2>2. Placing(p, o)
      BY <1>2 DEF Callbacks
    <2>3. ASSUME o.do = "keep"
          PROVE  \E k \in DOMAIN todo'[p] : Does(todo'[p][k], "final", o.turn)
      <3>1. PICK k \in DOMAIN todo[p] : Does(todo[p][k], "final", o.turn)
        BY <1>2, <2>3 DEF Callbacks
      <3>2. PICK h \in DOMAIN todo'[p] : todo'[p][h] = todo[p][k]
        BY <1>2, <3>1 DEF Carries, Does
      <3> QED
        BY <3>1, <3>2
    <2> QED
      BY <1>0, <2>1, <2>2, <2>3
  <1>3. CASE Hears(p)
    <2>1. /\ o.do \in {"checkpoint", "ended"} /\ Placing(p, o)
          /\ o.turn \in Requests /\ turn[o.turn].bridge \in Requests /\ turn[o.turn].bridge # None
      BY <1>3 DEF Hears
    <2>2. life[turn[o.turn].bridge] = "alive"
      BY <2>1 DEF Placing
    <2> QED
      BY <1>0, <2>1, <2>2
  <1> QED
    BY <1>1, <1>2, <1>3 DEF CarriesOn, Carries

--------------------------------------------------------------------------------
(* Steps beside the stored conversations.                                      *)

\* A bridge that is past leaves nothing to be resumed, as before.
LEMMA SettledOn ==
    ASSUME NEW b \in Requests, StoppingAt(b), ClosingAt(b),
           Stopped(b)' => Stopped(b), Past(b)' <=> Past(b),
           Past(b) => /\ turn'[b].calls = turn[b].calls /\ turn'[b].turnEnded = turn[b].turnEnded
                      /\ turn[b].cancelled => turn'[b].cancelled,
           Past(b) /\ Settled(b) => Settled(b)'
    PROVE  StoppingAt(b)' /\ ClosingAt(b)'
  BY DEF StoppingAt, ClosingAt, Ended

\* The entry of the key is the same one, or there is none any more.
LEMMA SettledStays ==
    ASSUME entry' = entry, current' \in {current, None}, NEW b \in Requests, Settled(b)
    PROVE  Settled(b)'
  BY DEF Settled

\* What entries are made from stays.
Grows ==
    \A t \in Requests :
        /\ turn[t].bridge # None =>
              /\ turn'[t].bridge = turn[t].bridge
              /\ turn[t].calls # {} => turn'[t].calls # {}
              /\ turn[t].latest # {} => turn'[t].latest # {}
        /\ turn'[t].bridge = None => turn[t].bridge = None
        /\ turn'[t].latest \in {turn[t].latest, {}}

\* So do the entries' bridges.
LEMMA SourcesOn ==
    ASSUME Sources, entry' = entry, Grows
    PROVE  Sources'
  <1> SUFFICES ASSUME NEW o \in Requests, NEW b \in Requests, entry[o].checkpoint = b
               PROVE  turn'[b].bridge = b /\ (turn'[b].calls # {} \/ turn'[b].latest # {})
    BY DEF Sources
  <1>1. turn[b].bridge = b /\ (turn[b].calls # {} \/ turn[b].latest # {})
    BY DEF Sources
  <1>2. b # None
    BY SessionAssumption
  <1> QED
    BY <1>1, <1>2 DEF Grows

\* Who goes through the parts of RunChat that use an entry.
SamePlaces ==
    \A r \in Requests :
        \/ pc'[r] = pc[r]
        \/ pc'[r] \notin {"new", "cleaning", "taken", "relock", "prepare", "build"}
        \/ pc[r] = "taken" /\ pc'[r] = "relock"
        \/ pc[r] = "new" /\ pc'[r] \in {"taken", "cleaning"}

\* The entries stay, and who has them.
LEMMA WrittenOn ==
    ASSUME Written, UNCHANGED <<entry, stored>>, current' \in {current, None}, SamePlaces
    PROVE  Written'
  BY DEF Written, SamePlaces

\* The blobs stay, and so do the checkpoints that refer to them.
LEMMA WholeOn ==
    ASSUME Whole, UNCHANGED <<entry, used>>,
           \A b \in Requests : blobs[b] \subseteq blobs'[b], Grows
    PROVE  Whole'
  <1> SUFFICES ASSUME NEW r \in Requests
               PROVE  /\ WholeAt(entry[r]) /\ WholeAt(used[r])
                      /\ \A refs \in turn'[r].latest : refs \subseteq blobs'[r]
                      /\ turn'[r].bridge = None => turn'[r].latest = {}
    BY DEF Whole, WholeAt
  <1>1. WholeAt(entry[r]) /\ WholeAt(used[r])
    BY DEF Whole
  <1>2. turn'[r].bridge = None => turn'[r].latest = {}
    BY DEF Whole, Grows
  <1>3. \A refs \in turn'[r].latest : refs \subseteq blobs'[r]
    BY DEF Whole, Grows
  <1> QED
    BY <1>1, <1>2, <1>3

\* A request that comes goes by who has stopped.
SameBefore ==
    \A r \in Requests :
        \/ before'[r] = before[r]
        \/ pc[r] = "new" /\ pc'[r] \in {"taken", "cleaning"} /\ before'[r] = stopped

\* What a request goes by.
LEMMA PromptedOn ==
    ASSUME Prompted, UNCHANGED <<entry, stored, used>>, SameBefore,
           stopped \subseteq stopped', stopped' \subseteq Requests, SamePlaces
    PROVE  Prompted'
  <1> SUFFICES ASSUME NEW r \in Requests PROVE PromptedAt(r)'
    BY DEF Prompted
  <1>1. PromptedAt(r)
    BY DEF Prompted
  <1>2. CASE before'[r] = before[r]
    BY <1>1, <1>2 DEF PromptedAt, SamePlaces
  <1>3. CASE pc[r] = "new" /\ pc'[r] \in {"taken", "cleaning"} /\ before'[r] = stopped
    <2>1. used[r].checkpoint = None
      BY <1>1, <1>3 DEF PromptedAt, NoEntry
    <2>2. None \notin stopped
      BY SessionAssumption DEF Prompted
    <2> QED
      BY <1>3, <2>1, <2>2 DEF PromptedAt, Prompted
  <1> QED
    BY <1>2, <1>3 DEF SameBefore

\* Nothing is stored.
SameStore ==
    /\ UNCHANGED <<entry, stored, used>> /\ current' \in {current, None}
    /\ SameBefore /\ SameStopped
    /\ \A b \in Requests : blobs[b] \subseteq blobs'[b]

\* Then what is stored is as good as it was.
LEMMA StoreInv ==
    ASSUME RInv, SameStore, SamePlaces, Grows, Callbacks', Firsts',
           \A b \in Requests : StoppingAt(b)' /\ ClosingAt(b)'
    PROVE  RInv'
  <1>1. Stopping' /\ Closing'
    BY DEF Stopping, Closing
  <1>2. Sources' /\ Written' /\ Whole'
    BY SourcesOn, WrittenOn, WholeOn DEF RInv, SameStore
  <1>3. Prompted'
    <2>1. stopped \subseteq stopped' /\ stopped' \subseteq Requests
      BY DEF SameStore, SameStopped
    <2> QED
      BY <2>1, PromptedOn DEF RInv, SameStore
  <1> QED
    BY <1>1, <1>2, <1>3 DEF RInv

\* A bridge that is past is asked for nothing more, and its turn has ended or not.
SamePast ==
    \A t \in Requests : Past(t) =>
        /\ turn'[t].calls = turn[t].calls /\ turn'[t].turnEnded = turn[t].turnEnded
        /\ turn[t].cancelled => turn'[t].cancelled

\* A step that stores nothing and keeps nothing.
Near ==
    /\ SameStore /\ SamePlaces /\ Grows /\ SameOpened /\ SamePast /\ CarriesOn
    /\ life' = life

\* It keeps the invariant.
LEMMA NearInv ==
    ASSUME IInv, RInv, Near, Firsts'
    PROVE  RInv'
  <1> USE DEF Near, SameStore
  <1>1. Callbacks'
    BY CallbacksOn DEF RInv
  <1>2. ASSUME NEW b \in Requests PROVE StoppingAt(b)' /\ ClosingAt(b)'
    <2>1. StoppingAt(b) /\ ClosingAt(b)
      BY DEF RInv, Stopping, Closing
    <2>2. (Stopped(b)' => Stopped(b)) /\ (Past(b)' <=> Past(b))
      BY CarriedStops
    <2>3. Settled(b) => Settled(b)'
      BY SettledStays
    <2> QED
      BY <2>1, <2>2, <2>3, SettledOn DEF SamePast
  <1> QED
    BY <1>1, <1>2, StoreInv

\* The streams are asked for the same, and have the same checkpoints.
SameRecords ==
    \A t \in Requests :
        /\ turn'[t].bridge = turn[t].bridge /\ turn'[t].calls = turn[t].calls
        /\ turn'[t].latest = turn[t].latest
        /\ turn'[t].turnEnded = turn[t].turnEnded \/ ~Past(t)
        /\ turn[t].cancelled => turn'[t].cancelled
Beside == SameRecords /\ SameStore /\ SamePlaces /\ CarriesOn /\ UNCHANGED <<life, asked, taken>>

\* The first turn of a bridge that was asked for a call.
LEMMA FirstsOn ==
    ASSUME Firsts, UNCHANGED <<asked, taken>>,
           \A t \in Requests : turn'[t].bridge = turn[t].bridge /\ turn'[t].calls = turn[t].calls,
           turn \in [Requests -> Turn]
    PROVE  Firsts'
  <1>1. \A t \in Requests : turn[t].bridge \in Requests \cup {None}
    BY DEF Turn
  <1> QED
    BY <1>1 DEF Firsts

\* Such a step keeps the invariant.
LEMMA BesideInv ==
    ASSUME IInv, RInv, Beside
    PROVE  RInv'
  <1>1. turn \in [Requests -> Turn]
    BY DEF IInv, Types, TurnTypes
  <1>2. Firsts'
    BY <1>1, FirstsOn DEF RInv, Beside, SameRecords
  <1>3. Near
    BY DEF Near, Beside, SameRecords, Grows, SameOpened, SamePast
  <1> QED
    BY <1>2, <1>3, NearInv

--------------------------------------------------------------------------------
(* Steps of the programs beside the stored conversations.                      *)

\* A stream's record T and what has become of it.
SameRecord(T, U) ==
    /\ U.bridge = T.bridge /\ U.calls = T.calls
    /\ U.latest = T.latest /\ U.turnEnded = T.turnEnded
    /\ T.cancelled => U.cancelled

\* What a step of a program, a client or a watcher sets.
LEMMA RecordFields ==
    ASSUME NEW T \in Turn
    PROVE  /\ \A v : SameRecord(T, [T EXCEPT !["state"] = v])
           /\ \A v : SameRecord(T, [T EXCEPT !["emitMu"] = v])
           /\ \A v : SameRecord(T, [T EXCEPT !["out"] = v])
           /\ \A v : SameRecord(T, [T EXCEPT !.state = "closing", !.by = v])
           /\ SameRecord(T, [T EXCEPT !.cancelled = TRUE])
           /\ \A o, e : SameRecord(T, Sent(T, o, e))
  BY DEF Turn, Sent, SameRecord

\* One stream goes on.
LEMMA OneRecord ==
    ASSUME turn \in [Requests -> Turn], NEW t \in Requests, NEW U, SameRecord(turn[t], U),
           turn' = [turn EXCEPT ![t] = U]
    PROVE  SameRecords
  <1>1. \A u \in Requests : turn'[u] = IF u = t THEN U ELSE turn[u]
    OBVIOUS
  <1> QED
    BY <1>1 DEF SameRecords, SameRecord

\* Nothing is stored, and no stop is said.
LEMMA NoStore ==
    ASSUME Prompted, UNCHANGED <<entry, stored, used, before, stopped>>, current' \in {current, None},
           \A b \in Requests : blobs[b] \subseteq blobs'[b]
    PROVE  SameStore
  BY DEF SameStore, SameStopped, SameBefore, Prompted, Stopped

\* A step that keeps nothing has been done.
LEMMA PopCarries ==
    ASSUME IInv, NEW p \in Procs, todo[p] # << >>, todo[p][1].do \notin {"keep", "final"}, Pop(p)
    PROVE  CarriesOn
  <1>1. todo \in [Procs -> Seq(Instr)] /\ todo[p] \in Seq(Instr)
    BY DEF IInv, Types, TurnTypes
  <1>2. Carries(todo[p], Tail(todo[p]))
    BY <1>1, TailCarries
  <1> QED
    BY <1>1, <1>2, OneCarries DEF Pop

\* The look at a heartbeat that beats.
LEMMA HeartCarries ==
    ASSUME IInv, NEW p \in Procs, todo[p] # << >>, todo[p][1].do \in {"heart", "cleanup"},
           NEW what \in OfHeart, NEW b \in Requests, Then(p, <<Do(what, b)>>)
    PROVE  CarriesOn
  <1> DEFINE s == todo[p]
             h == Do(what, b)
             q == <<h>> \o Tail(s)
  <1>1. todo \in [Procs -> Seq(Instr)] /\ s \in Seq(Instr)
    BY DEF IInv, Types, TurnTypes
  <1>2. h \in Instr /\ h.do \in OfHeart
    BY Steps DEF Do, Bare
  <1>3. /\ Len(s) \in Nat /\ Len(s) >= 1 /\ DOMAIN s = 1 .. Len(s)
        /\ Tail(s) \in Seq(Instr) /\ Len(Tail(s)) = Len(s) - 1
        /\ \A i \in 1 .. Len(s) - 1 : Tail(s)[i] = s[i + 1]
    BY <1>1, Parts
  <1>4. /\ DOMAIN q = 1 .. Len(Tail(s)) + 1 /\ q[1] = h
        /\ \A i \in 2 .. Len(Tail(s)) + 1 : q[i] = Tail(s)[i - 1]
    BY <1>2, <1>3, InFront
  <1>5. todo' = [todo EXCEPT ![p] = q]
    BY DEF Then
  <1> HIDE DEF q, h
  <1>6. DOMAIN q = DOMAIN s
    BY <1>3, <1>4
  <1>7. \A i \in DOMAIN s : i # 1 => q[i] = s[i]
    <2> SUFFICES ASSUME NEW i \in DOMAIN s, i # 1 PROVE q[i] = s[i]
      OBVIOUS
    <2>1. i \in 2 .. Len(Tail(s)) + 1 /\ i - 1 \in 1 .. Len(s) - 1 /\ (i - 1) + 1 = i
      BY <1>3
    <2> QED
      BY <1>3, <1>4, <2>1
  <1>8. Light(q[1]) /\ s[1].do \notin {"keep", "final"}
    BY <1>2, <1>4 DEF Light, IsStop, OfHeart
  <1>9. Carries(s, q)
    BY <1>6, <1>7, <1>8 DEF Carries
  <1> HIDE DEF s
  <1> QED
    BY <1>1, <1>5, <1>9, OneCarries DEF s

\* Nobody goes on.
LEMMA StillCarries ==
    ASSUME todo' = todo
    PROVE  CarriesOn
  BY CarryFacts DEF CarriesOn

\* A step that keeps nothing and ends no turn for the server.
Lesser(p) == todo[p][1].do \notin {"keep", "final", "checkpoint", "ended"}

\* Its goroutine goes on.
LEMMA StepCarries ==
    ASSUME IInv, NEW p \in Procs, Step(p), Lesser(p)
    PROVE  CarriesOn
  <1> DEFINE o == todo[p][1]
             t == o.turn
             b == turn[t].bridge
  <1>1. todo[p] # << >> /\ o.do \notin {"keep", "final"}
    BY DEF Step, Lesser
  <1>2. CASE Pop(p)
    BY <1>1, <1>2, PopCarries
  <1>3. CASE todo' = todo
    BY <1>3, StillCarries
  <1>4. ASSUME NEW c \in Requests, NEW cancel, o.do \in {"heart", "cleanup"}, Heart(p, c, cancel)
        PROVE  CarriesOn
    <2>1. CASE heart[c] = "on"
      <3>1. Then(p, <<Do(IF cancel THEN "cleanupClose" ELSE "heartClose", c)>>)
        BY <1>4, <2>1 DEF Heart
      <3>2. (IF cancel THEN "cleanupClose" ELSE "heartClose") \in OfHeart
        BY DEF OfHeart
      <3> QED
        BY <1>1, <1>4, <3>1, <3>2, HeartCarries
    <2>2. CASE heart[c] # "on"
      BY <1>2, <1>4, <2>2 DEF Heart
    <2> QED
      BY <2>1, <2>2
  <1>5. ASSUME o.do \in {"heart", "cleanup"} PROVE b \in Requests
    <2>1. todo[p] \in Seq(Instr) /\ About(todo[p], Based)
      BY DEF IInv, Types, TurnTypes, Programs
    <2>2. 1 \in DOMAIN todo[p]
      BY <1>1, <2>1, Parts
    <2>3. t \in Based
      BY <2>1, <2>2 DEF About
    <2> QED
      BY <2>3 DEF Based, IInv, Types, TurnTypes, Turn
  <1>6. ASSUME NEW cancel, o.do \in {"heart", "cleanup"}, Heart(p, b, cancel) PROVE CarriesOn
    BY <1>4, <1>5, <1>6
  <1>7. \/ Pop(p) \/ todo' = todo
        \/ \E cancel \in BOOLEAN : o.do \in {"heart", "cleanup"} /\ Heart(p, b, cancel)
    BY <1>1 DEF Step, Lesser, EmitSkip, EmitWait, EmitSend, FinishBegin, FinishEnd, FinishAgain,
                Drop, CloseHeart, RegisterCall
  <1> HIDE DEF t, b
  <1> QED
    BY <1>2, <1>3, <1>6, <1>7

\* Its stream has the same calls and checkpoints.
LEMMA StepRecords ==
    ASSUME IInv, NEW p \in Procs, Step(p), Lesser(p)
    PROVE  SameRecords
  <1> DEFINE o == todo[p][1]
             t == o.turn
             b == turn[t].bridge
  <1>1. todo[p] # << >> /\ turn \in [Requests -> Turn]
    BY DEF Step, IInv, Types, TurnTypes
  <1>2. CASE turn' = turn
    BY <1>2 DEF SameRecords
  <1>3. ASSUME o.do \in {"emit", "finish"} PROVE t \in Requests /\ turn[t] \in Turn
    BY <1>1, <1>3, Whose DEF OfHeart
  <1>4. ASSUME o.do \in {"emit", "finish"}, NEW U, turn' = [turn EXCEPT ![t] = U], SameRecord(turn[t], U)
        PROVE  SameRecords
    BY <1>1, <1>3, <1>4, OneRecord
  <1>5. ASSUME o.do = "emit", EmitSend(p, t, o.chunk) PROVE SameRecords
    <2>1. PICK x, e : turn' = [turn EXCEPT ![t] = Sent(turn[t], x, e)]
      BY <1>5 DEF EmitSend, Sent
    <2>2. SameRecord(turn[t], Sent(turn[t], x, e))
      BY <1>3, <1>5, RecordFields
    <2> HIDE DEF t
    <2> QED
      BY <1>4, <1>5, <2>1, <2>2
  <1>6. ASSUME o.do = "emit", EmitWait(p, t) PROVE SameRecords
    BY <1>3, <1>4, <1>6, RecordFields DEF EmitWait, SetTurn
  <1>7. ASSUME o.do = "finish", FinishBegin(p, t) \/ FinishEnd(p, t) PROVE SameRecords
    BY <1>3, <1>4, <1>7, RecordFields DEF FinishBegin, FinishEnd, SetTurn
  <1>8. \/ turn' = turn
        \/ o.do = "emit" /\ (EmitWait(p, t) \/ EmitSend(p, t, o.chunk))
        \/ o.do = "finish" /\ (FinishBegin(p, t) \/ FinishEnd(p, t))
    BY DEF Step, Lesser, EmitSkip, FinishAgain, Drop, Heart, CloseHeart, RegisterCall
  <1> HIDE DEF t, b
  <1> QED
    BY <1>2, <1>5, <1>6, <1>7, <1>8

\* It stores nothing.  A stop of a bridge's first turn was about to be said.
LEMMA StepStores ==
    ASSUME IInv, Prompted, NEW p \in Procs, Step(p), Lesser(p)
    PROVE  SameStore /\ UNCHANGED <<life, asked, taken, pc, blobs>>
  <1> DEFINE o == todo[p][1]
             t == o.turn
  <1> USE DEF sessions, bridges, server, requests, clients, history
  <1>1. ASSUME o.do = "emit", EmitSend(p, t, o.chunk)
        PROVE  SameStore /\ UNCHANGED <<life, asked, taken, pc, blobs>>
    <2>1. /\ UNCHANGED <<entry, stored, used, before, current>>
          /\ UNCHANGED <<life, asked, taken, pc, blobs>>
          /\ stopped' = IF o.chunk.kind = "stop" /\ Opened(t) THEN stopped \cup {t} ELSE stopped
      BY <1>1 DEF EmitSend
    <2>2. t \in Requests /\ todo[p] # << >> /\ todo[p] \in Seq(Instr)
      BY <1>1, Whose DEF Step, OfHeart, IInv, Types, TurnTypes
    <2>3. 1 \in DOMAIN todo[p]
      BY <2>2, Parts
    <2>4. o.chunk.kind = "stop" /\ Opened(t) => Stopped(t)
      BY <1>1, <2>3 DEF Stopped, IsStop, Opened
    <2>5. stopped \subseteq Requests
      BY DEF Prompted
    <2>6. SameStopped
      <3> HIDE DEF t
      <3> QED
        BY <2>1, <2>2, <2>4, <2>5 DEF SameStopped, Stopped
    <2> QED
      BY <2>1, <2>6 DEF SameStore, SameBefore
  <1>2. ASSUME ~(o.do = "emit" /\ EmitSend(p, t, o.chunk))
        PROVE  SameStore /\ UNCHANGED <<life, asked, taken, pc, blobs>>
    <2>1. /\ UNCHANGED <<entry, stored, used, before, stopped>> /\ current' \in {current, None}
          /\ UNCHANGED <<life, asked, taken, pc, blobs>>
      BY <1>2 DEF Step, Lesser, EmitSkip, EmitWait, FinishBegin, FinishEnd, FinishAgain, Drop,
                  Heart, CloseHeart, RegisterCall
    <2> QED
      BY <2>1, NoStore
  <1> QED
    BY <1>1, <1>2

\* So it goes beside the stored conversations.
LEMMA StepBeside ==
    ASSUME IInv, Prompted, NEW p \in Procs, Step(p), Lesser(p)
    PROVE  Beside
  BY StepCarries, StepRecords, StepStores DEF Beside, SamePlaces

--------------------------------------------------------------------------------
(* Programs that keep nothing.                                                 *)

\* Two of them, one behind the other.
LEMMA LightJoin ==
    ASSUME NEW s \in Seq(Instr), NEW q \in Seq(Instr), LightOnly(s), LightOnly(q)
    PROVE  s \o q \in Seq(Instr) /\ LightOnly(s \o q)
  <1> DEFINE sq == s \o q
             n == Len(s)
  <1>1. /\ sq \in Seq(Instr) /\ n \in Nat /\ Len(q) \in Nat
        /\ \A i \in DOMAIN s : sq[i] = s[i]
        /\ \A i \in DOMAIN q : sq[n + i] = q[i]
        /\ DOMAIN sq = 1 .. n + Len(q) /\ DOMAIN q = 1 .. Len(q)
        /\ \A i \in DOMAIN sq : i \in DOMAIN s \/ i - n \in DOMAIN q
    BY Joined
  <1> HIDE DEF sq, n
  <1>2. ASSUME NEW i \in DOMAIN sq PROVE Light(sq[i])
    <2>1. CASE i \in DOMAIN s
      BY <1>1, <2>1 DEF LightOnly
    <2>2. CASE i - n \in DOMAIN q
      <3>1. n + (i - n) = i
        BY <1>1
      <3> QED
        BY <1>1, <2>2, <3>1 DEF LightOnly
    <2> QED
      BY <1>1, <2>1, <2>2
  <1> QED
    BY <1>1, <1>2 DEF LightOnly, sq

\* A step that keeps nothing.
LEMMA LightStep ==
    ASSUME NEW o \in Instr, Light(o)
    PROVE  <<o>> \in Seq(Instr) /\ LightOnly(<<o>>)
  <1>1. <<o>> \in Seq(Instr) /\ Len(<<o>>) = 1 /\ <<o>>[1] = o
    BY OneStep
  <1>2. DOMAIN <<o>> = 1 .. 1
    BY <1>1, LenProperties
  <1>3. \A i \in DOMAIN <<o>> : i = 1
    BY <1>2
  <1> QED
    BY <1>1, <1>3 DEF LightOnly

\* Steps that keep nothing.
LEMMA LightSteps ==
    ASSUME NEW t \in Requests
    PROVE  /\ \A what \in Bare \ {"checkpoint", "keep", "ended"} :
                 <<Do(what, t)>> \in Seq(Instr) /\ LightOnly(<<Do(what, t)>>)
           /\ \A k \in {"text", "done", "usage", "error"} :
                 <<Emit(t, k, None)>> \in Seq(Instr) /\ LightOnly(<<Emit(t, k, None)>>)
           /\ turn[t].bridge # t =>
                 <<Emit(t, "stop", None)>> \in Seq(Instr) /\ LightOnly(<<Emit(t, "stop", None)>>)
           /\ \A x \in Execs :
                 /\ <<Register(t, x)>> \in Seq(Instr) /\ LightOnly(<<Register(t, x)>>)
                 /\ \A k \in {"call", "calls"} :
                       <<Emit(t, k, x)>> \in Seq(Instr) /\ LightOnly(<<Emit(t, k, x)>>)
           /\ << >> \in Seq(Instr) /\ LightOnly(<< >>)
  <1>1. ASSUME NEW what \in Bare \ {"checkpoint", "keep", "ended"}
        PROVE  <<Do(what, t)>> \in Seq(Instr) /\ LightOnly(<<Do(what, t)>>)
    <2>1. Do(what, t) \in Instr
      BY Steps
    <2>2. Light(Do(what, t))
      BY DEF Do, Light, IsStop, Bare, OfHeart
    <2> QED
      BY <2>1, <2>2, LightStep
  <1>2. ASSUME NEW k \in {"text", "done", "usage", "error", "stop"}, k # "stop" \/ turn[t].bridge # t
        PROVE  <<Emit(t, k, None)>> \in Seq(Instr) /\ LightOnly(<<Emit(t, k, None)>>)
    <2>1. Emit(t, k, None) \in Instr
      BY Steps
    <2>2. Light(Emit(t, k, None))
      BY <1>2 DEF Emit, Light, IsStop
    <2> QED
      BY <2>1, <2>2, LightStep
  <1>3. ASSUME NEW x \in Execs
        PROVE  /\ <<Register(t, x)>> \in Seq(Instr) /\ LightOnly(<<Register(t, x)>>)
               /\ \A k \in {"call", "calls"} :
                     <<Emit(t, k, x)>> \in Seq(Instr) /\ LightOnly(<<Emit(t, k, x)>>)
    <2>1. Register(t, x) \in Instr /\ \A k \in {"call", "calls"} : Emit(t, k, x) \in Instr
      BY Steps
    <2>2. Light(Register(t, x)) /\ \A k \in {"call", "calls"} : Light(Emit(t, k, x))
      BY DEF Register, Emit, Light, IsStop
    <2> QED
      BY <2>1, <2>2, LightStep
  <1>4. << >> \in Seq(Instr) /\ LightOnly(<< >>)
    BY CarryFacts, EmptySeq
  <1> QED
    BY <1>1, <1>2, <1>3, <1>4

\* A request that cleans up, a watcher, and a resumed turn whose bridge is closed.
LEMMA LightPrograms ==
    ASSUME NEW t \in Requests
    PROVE  /\ LightOnly(Cleanup(t))
           /\ \A opened \in BOOLEAN :
                 LightOnly((IF opened THEN <<Do("drop", t)>> ELSE << >>) \o Cleanup(t) \o <<Do("finish", t)>>)
           /\ \A code : ~Opened(t) => LightOnly(OnClosed(t, code))
  <1>1. "drop" \in Bare /\ "finish" \in Bare /\ "cleanup" \in Bare
    BY DEF Bare
  <1>2. \A what \in {"drop", "finish", "cleanup"} :
           <<Do(what, t)>> \in Seq(Instr) /\ LightOnly(<<Do(what, t)>>)
    BY <1>1, LightSteps
  <1>3. Cleanup(t) \in Seq(Instr) /\ LightOnly(Cleanup(t))
    BY <1>2 DEF Cleanup
  <1>4. ASSUME NEW opened \in BOOLEAN
        PROVE  LightOnly((IF opened THEN <<Do("drop", t)>> ELSE << >>) \o Cleanup(t) \o <<Do("finish", t)>>)
    <2> DEFINE d == IF opened THEN <<Do("drop", t)>> ELSE << >>
               f == <<Do("finish", t)>>
    <2>1. d \in Seq(Instr) /\ LightOnly(d) /\ f \in Seq(Instr) /\ LightOnly(f)
      BY <1>2, LightSteps
    <2> HIDE DEF d, f
    <2>2. d \o Cleanup(t) \in Seq(Instr) /\ LightOnly(d \o Cleanup(t))
      BY <1>3, <2>1, LightJoin
    <2>3. LightOnly(d \o Cleanup(t) \o f)
      BY <2>1, <2>2, LightJoin
    <2> QED
      BY <2>3 DEF d, f
  <1>5. ASSUME NEW code, ~Opened(t) PROVE LightOnly(OnClosed(t, code))
    <2> DEFINE f == Do("finish", t)
    <2>1. ASSUME NEW k \in {"stop", "error"} PROVE LightOnly(<<Emit(t, k, None), f>>)
      <3>1. <<Emit(t, k, None), f>> = <<Emit(t, k, None)>> \o <<f>>
        OBVIOUS
      <3>2. <<f>> \in Seq(Instr) /\ LightOnly(<<f>>)
        BY <1>2
      <3>3. <<Emit(t, k, None)>> \in Seq(Instr) /\ LightOnly(<<Emit(t, k, None)>>)
        BY <1>5, LightSteps DEF Opened
      <3> HIDE DEF f
      <3> QED
        BY <3>1, <3>2, <3>3, LightJoin
    <2> QED
      BY <1>5, <2>1 DEF OnClosed
  <1> QED
    BY <1>3, <1>4, <1>5

\* What a reader does with a frame that ends no turn and is no checkpoint.
LEMMA LightFrame ==
    ASSUME NEW t \in Requests, NEW x, NEW kind \in Kinds \ {"ended", "checkpoint"},
           kind = "exec" => x \in Execs
    PROVE  LightOnly(OnFrame(t, kind, x))
  <1> DEFINE f == <<Do("finish", t)>>
             er == <<Emit(t, "error", None)>>
             us == <<Emit(t, "usage", None)>>
             dr == <<Do("drop", t)>>
             te == <<Emit(t, "text", None)>>
             dn == <<Emit(t, "done", None)>>
             a == <<Emit(t, "call", x)>>
             r == <<Register(t, x)>>
             c == <<Emit(t, "calls", x)>>
  <1>1. "drop" \in Bare /\ "finish" \in Bare
    BY DEF Bare
  <1>2. /\ f \in Seq(Instr) /\ LightOnly(f) /\ er \in Seq(Instr) /\ LightOnly(er)
        /\ us \in Seq(Instr) /\ LightOnly(us) /\ dr \in Seq(Instr) /\ LightOnly(dr)
        /\ te \in Seq(Instr) /\ LightOnly(te) /\ dn \in Seq(Instr) /\ LightOnly(dn)
        /\ << >> \in Seq(Instr) /\ LightOnly(<< >>)
    BY <1>1, LightSteps
  <1>3. kind = "exec" => /\ a \in Seq(Instr) /\ LightOnly(a) /\ r \in Seq(Instr) /\ LightOnly(r)
                         /\ c \in Seq(Instr) /\ LightOnly(c)
    BY LightSteps
  <1>4. Marker(t) \in {dn, << >>}
    BY DEF Marker
  <1>5. OnFrame(t, kind, x) \in {<< >>, te, (er \o us) \o f, (dr \o (er \o us)) \o f, er \o f}
           \/ (kind = "exec" /\ OnFrame(t, kind, x) \in
                 {((a \o (r \o c)) \o Marker(t)) \o f, r \o (c \o f)})
    <2>1. CASE kind \in {"text", "blob", "unsupported", "failed"}
      BY <2>1 DEF OnFrame
    <2>2. CASE kind = "exec"
      BY <2>2 DEF OnFrame, FirstCall
    <2> QED
      BY <2>1, <2>2 DEF Kinds
  <1> HIDE DEF f, er, us, dr, te, dn, a, r, c
  <1>6. /\ LightOnly((er \o us) \o f) /\ LightOnly((dr \o (er \o us)) \o f) /\ LightOnly(er \o f)
    <2>1. er \o us \in Seq(Instr) /\ LightOnly(er \o us)
      BY <1>2, LightJoin
    <2>2. dr \o (er \o us) \in Seq(Instr) /\ LightOnly(dr \o (er \o us))
      BY <1>2, <2>1, LightJoin
    <2> QED
      BY <1>2, <2>1, <2>2, LightJoin
  <1>7. ASSUME kind = "exec"
        PROVE  LightOnly(((a \o (r \o c)) \o Marker(t)) \o f) /\ LightOnly(r \o (c \o f))
    <2>1. r \o c \in Seq(Instr) /\ LightOnly(r \o c)
      BY <1>3, <1>7, LightJoin
    <2>2. a \o (r \o c) \in Seq(Instr) /\ LightOnly(a \o (r \o c))
      BY <1>3, <1>7, <2>1, LightJoin
    <2>3. Marker(t) \in Seq(Instr) /\ LightOnly(Marker(t))
      BY <1>2, <1>4
    <2>4. (a \o (r \o c)) \o Marker(t) \in Seq(Instr) /\ LightOnly((a \o (r \o c)) \o Marker(t))
      BY <2>2, <2>3, LightJoin
    <2>5. c \o f \in Seq(Instr) /\ LightOnly(c \o f)
      BY <1>2, <1>3, <1>7, LightJoin
    <2> QED
      BY <1>2, <1>3, <1>7, <2>4, <2>5, LightJoin
  <1> QED
    BY <1>2, <1>5, <1>6, <1>7

--------------------------------------------------------------------------------
(* The other steps beside the stored conversations.                            *)

\* A goroutine that has nothing to keep gets a program that keeps nothing.
LEMMA LightCarries ==
    ASSUME IInv, NEW p \in Procs, todo[p] = << >> \/ HeartOnly(todo[p]), NEW q, LightOnly(q),
           todo' = [todo EXCEPT ![p] = q]
    PROVE  CarriesOn
  <1>1. todo \in [Procs -> Seq(Instr)]
    BY DEF IInv, Types, TurnTypes
  <1>2. \A j \in DOMAIN todo[p] : todo[p][j].do \notin {"keep", "final"}
    BY CarryFacts DEF HeartOnly, OfHeart
  <1>3. Carries(todo[p], q)
    BY <1>2, CarryFacts
  <1> QED
    BY <1>1, <1>3, OneCarries

\* A request goes on to a part of RunChat that uses no entry, or back to the lock.
LEMMA GoesPlaces ==
    ASSUME pc \in [Requests -> Stages], NEW r \in Requests, NEW where, Goes(r, where),
           \/ where \in {"resume", "open", "swap", "sending", "running", "over"}
           \/ pc[r] = "taken" /\ where = "relock"
    PROVE  SamePlaces
  <1>1. \A q \in Requests : pc'[q] = IF q = r THEN where ELSE pc[q]
    BY DEF Goes
  <1> QED
    BY <1>1 DEF SamePlaces

\* A step that changes no stream.
LEMMA BesideStill ==
    ASSUME Prompted, UNCHANGED <<entry, stored, used, before, stopped>>, current' \in {current, None},
           UNCHANGED <<life, asked, taken, turn, blobs>>, CarriesOn, SamePlaces
    PROVE  Beside
  BY NoStore DEF Beside, SameRecords

\* RunChat, without the lock.
LEMMA RunBeside ==
    ASSUME IInv, RInv, NEW r \in Requests,
           \/ Taken(r) \/ StillPending(r) \/ SwapClose(r) \/ SendResults(r)
           \/ Open(r) /\ Goes(r, "over") /\ UNCHANGED <<bridges, turn, watching, todo>>
    PROVE  Beside
  <1> USE DEF sessions, bridges, server, requests, clients, history
  <1>1. pc \in [Requests -> Stages] /\ Prompted
    BY DEF IInv, Types, TurnTypes, RInv
  <1>2. /\ UNCHANGED <<entry, stored, used, before, stopped, current>>
        /\ UNCHANGED <<life, asked, taken, turn, blobs>>
    BY DEF Taken, StillPending, SwapClose, SendResults, Open
  <1>3. SamePlaces
    BY <1>1, GoesPlaces DEF Taken, StillPending, SwapClose, SendResults
  <1>4. CarriesOn
    <2>1. CASE todo' = todo
      BY <2>1, StillCarries
    <2>2. CASE Taken(r) /\ todo' # todo
      <3> DEFINE b == BridgeOf(taken[r])
      <3>1. todo' = [todo EXCEPT ![main(r)] = Cleanup(b)]
        BY <2>2 DEF Taken
      <3>2. b \in Requests
        <4>1. taken[r] # None
          BY <2>2 DEF Taken, IInv, Placed, PlacedAt
        <4> QED
          BY <4>1 DEF IInv, Types, TurnTypes, BridgeOf, Execs
      <3>3. main(r) \in Procs /\ HeartOnly(todo[main(r)])
        BY WorkerNames DEF IInv, Programs
      <3> HIDE DEF b
      <3> QED
        BY <3>1, <3>2, <3>3, LightPrograms, LightCarries
    <2>3. CASE SwapClose(r) /\ todo' # todo
      <3>1. todo' = [todo EXCEPT ![closer(r)] = OnClosed(r, "err")] /\ pc[r] = "swap"
        BY <2>3 DEF SwapClose, closer
      <3>2. /\ todo[closer(r)] = << >> /\ closer(r) \in Procs
            /\ turn[r].bridge = BridgeOf(taken[r]) /\ taken[r] # None
        BY <3>1, WorkerNames DEF IInv, Placed, PlacedAt
      <3>3. ~Opened(r)
        BY <3>2 DEF RInv, Firsts, Opened
      <3> QED
        BY <3>1, <3>2, <3>3, LightPrograms, LightCarries
    <2> QED
      BY <2>1, <2>2, <2>3 DEF StillPending, SendResults
  <1> QED
    BY <1>1, <1>2, <1>3, <1>4, BesideStill

\* Clients, watchers and time.
LEMMA OthersBeside ==
    ASSUME IInv, RInv, NEW t \in Requests,
           WatchDone(t) \/ Answer(t) \/ Leave(t) \/ Receive(t) \/ WatchCtx(t)
    PROVE  Beside
  <1> USE DEF sessions, bridges, server, requests, clients, history
  <1>1. pc \in [Requests -> Stages] /\ Prompted /\ turn \in [Requests -> Turn] /\ turn[t] \in Turn
    BY DEF IInv, Types, TurnTypes, RInv
  <1>2. /\ UNCHANGED <<entry, stored, used, before, stopped, current>>
        /\ UNCHANGED <<life, asked, taken, blobs>>
    BY DEF WatchDone, Answer, Leave, Receive, WatchCtx
  <1>3. SamePlaces
    <2>1. CASE pc' = pc
      BY <2>1 DEF SamePlaces
    <2>2. CASE Goes(t, "over")
      BY <1>1, <2>2, GoesPlaces
    <2> QED
      BY <2>1, <2>2 DEF WatchDone, Answer, Leave, Receive, WatchCtx
  <1>4. CarriesOn
    <2>1. CASE todo' = todo
      BY <2>1, StillCarries
    <2>2. CASE WatchCtx(t)
      <3>1. PICK opened \in BOOLEAN : opened = Opened(t)
        BY DEF Opened
      <3> DEFINE q == (IF opened THEN <<Do("drop", t)>> ELSE << >>) \o Cleanup(t) \o <<Do("finish", t)>>
      <3>2. t \in watching /\ todo' = [todo EXCEPT ![watcher(t)] = q]
        BY <2>2, <3>1 DEF WatchCtx, watcher
      <3>3. LightOnly(q)
        BY LightPrograms
      <3> HIDE DEF q
      <3>4. watcher(t) \in Procs /\ todo[watcher(t)] = << >>
        BY <3>2, WorkerNames DEF IInv, Placed, PlacedAt
      <3> QED
        BY <3>2, <3>3, <3>4, LightCarries
    <2> QED
      BY <2>1, <2>2 DEF WatchDone, Answer, Leave, Receive
  <1>5. SameRecords
    <2>1. CASE turn' = turn
      BY <2>1 DEF SameRecords
    <2>2. CASE Receive(t)
      <3>1. SameRecord(turn[t], [turn[t] EXCEPT !["out"] = Tail(turn[t].out)])
        BY <1>1, RecordFields
      <3> QED
        BY <1>1, <2>2, <3>1, OneRecord DEF Receive, SetTurn
    <2>3. CASE WatchCtx(t)
      <3>1. SameRecord(turn[t], [turn[t] EXCEPT !.cancelled = TRUE])
        BY <1>1, RecordFields
      <3>2. turn' = turn \/ turn' = [turn EXCEPT ![t] = [turn[t] EXCEPT !.cancelled = TRUE]]
        BY <2>3 DEF WatchCtx
      <3> QED
        BY <1>1, <2>1, <3>1, <3>2, OneRecord
    <2> QED
      BY <2>1, <2>2, <2>3 DEF WatchDone, Answer, Leave
  <1>6. SameStore
    BY <1>1, <1>2, NoStore
  <1> QED
    BY <1>2, <1>3, <1>4, <1>5, <1>6 DEF Beside

\* The entry is evicted, or nothing happens.
LEMMA EvictBeside ==
    ASSUME RInv, Evict \/ UNCHANGED vars
    PROVE  Beside
  <1>1. /\ UNCHANGED <<entry, stored, used, before, stopped>> /\ current' \in {current, None}
        /\ UNCHANGED <<life, asked, taken, turn, blobs, todo, pc>>
    BY DEF Evict, vars, sessions, bridges, server, requests, clients, history
  <1>2. CarriesOn /\ SamePlaces /\ Prompted
    BY <1>1, StillCarries DEF SamePlaces, RInv
  <1> QED
    BY <1>1, <1>2, BesideStill

\* A frame that is no checkpoint, no call and no end of the turn.
LEMMA FrameBeside ==
    ASSUME IInv, RInv, NEW b \in Requests, NEW kind \in Kinds \ {"ended", "checkpoint", "exec"},
           Deliver(b, kind)
    PROVE  Beside
  <1> DEFINE x == <<b, asked[b] + 1>>
  <1>1. /\ Idle(b) /\ todo' = [todo EXCEPT ![reader(b)] = OnFrame(onData[b], kind, x)]
        /\ asked' = asked /\ turn' = turn
        /\ UNCHANGED <<sessions, bridges, sent, requests, clients, history>>
        /\ blobs' = blobs \/ blobs' = [blobs EXCEPT ![b] = @ \cup {<<b, frames'[b]>>}]
    BY DEF Deliver, reader
  <1> HIDE DEF x
  <1>2. onData[b] \in Requests
    BY <1>1 DEF Idle, IInv, Wired, Types, BridgeTypes
  <1>3. CarriesOn
    <2>1. reader(b) \in Procs /\ todo[reader(b)] = << >>
      BY <1>1, WorkerNames DEF Idle, reader
    <2>2. LightOnly(OnFrame(onData[b], kind, x))
      BY <1>2, LightFrame
    <2> QED
      BY <1>1, <2>1, <2>2, LightCarries
  <1>4. \A c \in Requests : blobs[c] \subseteq blobs'[c]
    <2>1. blobs \in [Requests -> SUBSET Blobs]
      BY DEF IInv, Types, SessionTypes
    <2> QED
      BY <1>1, <2>1
  <1>5. SameStore /\ SameRecords /\ SamePlaces /\ UNCHANGED <<life, asked, taken>>
    <2>1. UNCHANGED <<entry, stored, used, before, stopped, current>>
      BY <1>1 DEF sessions, requests, history
    <2> QED
      BY <1>1, <1>4, <2>1, NoStore DEF SameRecords, SamePlaces, RInv, bridges, requests
  <1> QED
    BY <1>3, <1>4, <1>5 DEF Beside

--------------------------------------------------------------------------------
(* What the server says of a turn.                                             *)

\* The turn has ended.
LEMMA EndedRecord ==
    ASSUME NEW T \in Turn
    PROVE  LET U == [T EXCEPT !["turnEnded"] = TRUE] IN
           /\ U.bridge = T.bridge /\ U.calls = T.calls /\ U.latest = T.latest
           /\ U.cancelled = T.cancelled
  BY DEF Turn

\* A turn ends that runs on a bridge that is alive.
LEMMA EndedBeside ==
    ASSUME IInv, RInv, NEW p \in Procs, todo[p] # << >>, todo[p][1].do = "ended",
           TurnEnded(p, todo[p][1].turn)
    PROVE  Beside
  <1> DEFINE t == todo[p][1].turn
             U == [turn[t] EXCEPT !["turnEnded"] = TRUE]
  <1>1. /\ Pop(p) /\ UNCHANGED <<sessions, bridges, server, requests, history>>
        /\ turn' = [turn EXCEPT ![t] = U]
    BY DEF TurnEnded, SetTurn
  <1>2. turn \in [Requests -> Turn] /\ todo[p] \in Seq(Instr) /\ t \in Requests
    BY Whose DEF IInv, Types, TurnTypes, OfHeart
  <1>3. life[turn[t].bridge] = "alive"
    <2>1. 1 \in DOMAIN todo[p]
      BY <1>2, Parts
    <2> QED
      BY <2>1 DEF RInv, Callbacks, Placing
  <1>4. /\ U.bridge = turn[t].bridge /\ U.calls = turn[t].calls /\ U.latest = turn[t].latest
        /\ U.cancelled = turn[t].cancelled
    BY <1>2, EndedRecord
  <1> HIDE DEF U, t
  <1>5. ~Past(t)
    BY <1>3 DEF Past
  <1>6. SameRecords
    <2>1. \A u \in Requests : turn'[u] = IF u = t THEN U ELSE turn[u]
      BY <1>1, <1>2
    <2> QED
      BY <1>4, <1>5, <2>1 DEF SameRecords
  <1>7. CarriesOn
    BY <1>1, PopCarries
  <1>8. SameStore
    <2>1. UNCHANGED <<entry, stored, used, before, stopped, current, blobs>>
      BY <1>1 DEF sessions, requests, history, server
    <2> QED
      BY <2>1, NoStore DEF RInv
  <1> QED
    BY <1>1, <1>6, <1>7, <1>8 DEF Beside, SamePlaces, requests, bridges, server

\* The reader hears of a checkpoint, or of the end of the turn.
LEMMA HearsBeside ==
    ASSUME IInv, RInv, NEW b \in Requests, NEW kind \in {"ended", "checkpoint"}, Deliver(b, kind)
    PROVE  Beside
  <1> DEFINE t == onData[b]
             o == Do(kind, t)
             x == <<b, asked[b] + 1>>
  <1>1. /\ Idle(b) /\ todo' = [todo EXCEPT ![reader(b)] = OnFrame(t, kind, x)]
        /\ asked' = asked /\ turn' = turn /\ blobs' = blobs
        /\ UNCHANGED <<sessions, bridges, sent, requests, clients, history>>
    BY DEF Deliver, reader
  <1>2. OnFrame(t, kind, x) = <<o>>
    BY DEF OnFrame
  <1>3. /\ life[b] = "alive" /\ t \in Requests /\ turn[t].bridge = b /\ b # None
        /\ todo[reader(b)] = << >> /\ reader(b) \in Procs
    BY <1>1, WorkerNames, SessionAssumption DEF Idle, IInv, Wired, Types, BridgeTypes, reader
  <1>4. o.do = kind /\ o.turn = t
    BY DEF Do
  <1> HIDE DEF x, o, t
  <1>5. todo' = [todo EXCEPT ![reader(b)] = <<o>>] /\ todo \in [Procs -> Seq(Instr)]
    BY <1>1, <1>2 DEF IInv, Types, TurnTypes
  <1>6. todo'[reader(b)] = <<o>> /\ \A w \in Procs : w # reader(b) => todo'[w] = todo[w]
    BY <1>3, <1>5
  <1>7. DOMAIN <<o>> = {1} /\ <<o>>[1] = o /\ DOMAIN << >> = {}
    OBVIOUS
  <1>8. Hears(reader(b))
    <2>1. Placing(reader(b), o)
      BY <1>3, <1>4 DEF Placing
    <2>2. \A i \in DOMAIN <<o>> : <<o>>[i] = o
      BY <1>7
    <2> QED
      BY <1>3, <1>4, <1>6, <1>7, <2>1, <2>2 DEF Hears
  <1>9. CarriesOn
    BY <1>6, <1>8, CarryFacts DEF CarriesOn
  <1>10. SameStore
    <2>1. UNCHANGED <<entry, stored, used, before, stopped, current>>
      BY <1>1 DEF sessions, requests, history
    <2> QED
      BY <1>1, <2>1, NoStore DEF RInv
  <1> QED
    BY <1>1, <1>9, <1>10 DEF Beside, SamePlaces, SameRecords, requests, bridges

\* A call has come.
LEMMA CallsRecord ==
    ASSUME NEW T \in Turn, NEW v
    PROVE  LET U == [T EXCEPT !.calls = v] IN
           /\ U.bridge = T.bridge /\ U.calls = v /\ U.latest = T.latest
           /\ U.turnEnded = T.turnEnded /\ U.cancelled = T.cancelled
  BY DEF Turn

\* The server asks for a call: whoever has the callbacks, the first turn has calls by now.
LEMMA CallResume ==
    ASSUME IInv, BInv, RInv, NEW b \in Requests, Deliver(b, "exec")
    PROVE  RInv'
  <1> DEFINE x == <<b, asked[b] + 1>>
             t == onData[b]
             U == [turn[t] EXCEPT !.calls = turn[t].calls \cup {x}]
  <1>1. /\ Idle(b) /\ asked[b] < MaxExecs /\ asked' = [asked EXCEPT ![b] = asked[b] + 1]
        /\ turn' = [turn EXCEPT ![t] = U]
        /\ todo' = [todo EXCEPT ![reader(b)] = OnFrame(t, "exec", x)]
        /\ blobs' = blobs
        /\ UNCHANGED <<sessions, bridges, sent, requests, clients, history>>
    BY DEF Deliver, reader
  <1>2. x \in Execs
    BY <1>1, CallIsNew
  <1>3. /\ life[b] = "alive" /\ t \in Requests /\ turn[t].bridge = b /\ b # None
        /\ todo[reader(b)] = << >> /\ reader(b) \in Procs /\ turn[b].bridge = b
    BY <1>1, WorkerNames, SessionAssumption DEF Idle, IInv, Wired, Types, BridgeTypes, reader
  <1>4. turn \in [Requests -> Turn]
    BY DEF IInv, Types, TurnTypes
  <1>5. /\ U.bridge = turn[t].bridge /\ U.calls = turn[t].calls \cup {x} /\ U.latest = turn[t].latest
        /\ U.turnEnded = turn[t].turnEnded /\ U.cancelled = turn[t].cancelled
    BY <1>3, <1>4, CallsRecord
  <1>6. "exec" \in Kinds \ {"ended", "checkpoint"}
    BY DEF Kinds
  <1>7. LightOnly(OnFrame(t, "exec", x))
    BY <1>2, <1>3, <1>6, LightFrame
  <1>8. CarriesOn
    BY <1>1, <1>3, <1>7, LightCarries
  <1> HIDE DEF x, t, U
  <1>9. \A u \in Requests : turn'[u] = IF u = t THEN U ELSE turn[u]
    BY <1>1, <1>4
  <1>10. ~Past(t)
    BY <1>3 DEF Past
  <1>11. Near
    <2>1. UNCHANGED <<entry, stored, used, before, stopped, current>>
      BY <1>1 DEF sessions, requests, history
    <2>2. SameStore
      BY <1>1, <2>1, NoStore DEF RInv
    <2>3. SamePlaces /\ life' = life
      BY <1>1 DEF SamePlaces, requests, bridges
    <2>4. Grows /\ SameOpened
      BY <1>5, <1>9 DEF Grows, SameOpened
    <2>5. SamePast
      BY <1>5, <1>9, <1>10 DEF SamePast
    <2> QED
      BY <1>8, <2>2, <2>3, <2>4, <2>5 DEF Near
  <1>12. Firsts'
    <2>1. turn'[b].calls # {}
      <3>1. CASE t = b
        BY <1>3, <1>5, <1>9, <3>1
      <3>2. CASE t # b
        <4>1. turn[b].calls # {}
          BY <1>3, <3>2 DEF RInv, Firsts
        <4> QED
          BY <1>9, <3>2, <4>1
      <3> QED
        BY <3>1, <3>2
    <2>2. \A u \in Requests : turn'[u].bridge = turn[u].bridge /\ (turn[u].calls # {} => turn'[u].calls # {})
      BY <1>5, <1>9
    <2>3. \A u \in Requests : turn[u].bridge \in Requests \cup {None}
      BY <1>4 DEF Turn
    <2>4. taken' = taken /\ \A c \in Requests : c # b => asked'[c] = asked[c]
      <3>1. asked \in [Requests -> 0 .. MaxExecs]
        BY DEF IInv, Types, BridgeTypes
      <3> QED
        BY <1>1, <3>1 DEF requests
    <2> QED
      BY <1>3, <2>1, <2>2, <2>3, <2>4 DEF RInv, Firsts
  <1> QED
    BY <1>11, <1>12, NearInv

--------------------------------------------------------------------------------
(* A request takes a bridge that is there, or goes on with it.                 *)

\* The first section, when a bridge waits.
LEMMA EnterResume ==
    ASSUME IInv, History, RInv, NEW r \in Requests, Enter(r), active # None
    PROVE  RInv'
  <1> USE DEF sessions, bridges, server, requests, clients, history
  <1>1. /\ pc[r] = "new" /\ before' = [before EXCEPT ![r] = stopped]
        /\ UNCHANGED <<entry, life, blobs, asked, turn, stopped, used>>
        /\ \/ /\ taken' = [taken EXCEPT ![r] = active] /\ Goes(r, "taken")
              /\ UNCHANGED <<current, stored, todo>>
           \/ /\ todo' = [todo EXCEPT ![main(r)] = Cleanup(BridgeOf(active))]
              /\ Goes(r, "cleaning") /\ UNCHANGED <<current, stored, taken>>
    BY DEF Enter
  <1>2. /\ active \in Execs /\ BridgeOf(active) \in Requests /\ life[BridgeOf(active)] # "none"
        /\ life[r] = "none"
    BY <1>1 DEF IInv, Types, SessionTypes, Wired, BridgeOf, Execs, Placed, PlacedAt, Early
  <1>3. /\ pc \in [Requests -> Stages] /\ taken \in [Requests -> Execs \cup {None}]
    BY DEF IInv, Types, TurnTypes
  <1>4. /\ pc'[r] \in {"taken", "cleaning"} /\ \A u \in Requests : u # r => pc'[u] = pc[u]
    BY <1>1, <1>3 DEF Goes
  <1>5. \A u \in Requests : taken'[u] = taken[u] \/ (u = r /\ taken'[u] = active)
    BY <1>1, <1>3
  <1>6. SameBefore
    <2>1. \A u \in Requests : before'[u] = before[u] \/ (u = r /\ before'[u] = stopped)
      BY <1>1 DEF History
    <2> QED
      BY <1>1, <1>4, <2>1 DEF SameBefore
  <1>7. SameStore /\ SamePlaces
    <2>1. UNCHANGED <<entry, stored, used, stopped, blobs, current>>
      BY <1>1
    <2>2. SameStopped
      BY <1>1 DEF SameStopped, RInv, Prompted, Stopped
    <2> QED
      BY <1>1, <1>4, <1>6, <2>1, <2>2 DEF SameStore, SamePlaces
  <1>8. CarriesOn
    <2>1. CASE todo' = todo
      BY <2>1, StillCarries
    <2>2. CASE todo' = [todo EXCEPT ![main(r)] = Cleanup(BridgeOf(active))]
      <3>1. main(r) \in Procs /\ HeartOnly(todo[main(r)])
        BY WorkerNames DEF IInv, Programs
      <3>2. LightOnly(Cleanup(BridgeOf(active)))
        BY <1>2, LightPrograms
      <3> QED
        BY <2>2, <3>1, <3>2, LightCarries
    <2> QED
      BY <1>1, <2>1, <2>2
  <1>9. Near
    BY <1>1, <1>7, <1>8 DEF Near, Grows, SameOpened, SamePast
  <1>10. Firsts'
    <2>1. \A u \in Requests : turn[u].bridge \in Requests \cup {None}
      BY DEF IInv, Types, TurnTypes, Turn
    <2>2. BridgeOf(active) # r
      BY <1>2
    <2>3. \A u \in Requests : taken'[u] # None => BridgeOf(taken'[u]) # u
      BY <1>5, <2>2 DEF RInv, Firsts
    <2>4. turn' = turn /\ asked' = asked
      BY <1>1
    <2> QED
      BY <2>1, <2>3, <2>4 DEF RInv, Firsts
  <1> QED
    BY <1>9, <1>10, NearInv

\* A turn begins without a checkpoint.
LEMMA FreshLatest ==
    ASSUME NEW b, NEW streamed
    PROVE  LET U == Fresh(b, streamed) IN
           U.bridge = b /\ U.calls = {} /\ U.latest = {} /\ ~U.turnEnded /\ ~U.cancelled
  <1> DEFINE e == << >>
  <1> HIDE DEF e
  <1>1. NewTurn = [bridge |-> None, stream |-> FALSE, out |-> e, state |-> "open", by |-> None,
                   emitMu |-> None, calls |-> {}, turnEnded |-> FALSE, terminal |-> FALSE,
                   cancelled |-> FALSE, latest |-> {}, ends |-> 0]
    BY DEF NewTurn, e
  <1> QED
    BY <1>1 DEF Fresh

\* Who resumes a bridge has a call of it, and so it was asked for one.
LEMMA SwapResume ==
    ASSUME IInv, BInv, RInv, NEW r \in Requests, SwapData(r)
    PROVE  RInv'
  <1> DEFINE b == BridgeOf(taken[r])
  <1>1. PICK streamed \in BOOLEAN :
           /\ pc[r] = "resume" /\ Goes(r, "swap") /\ turn' = [turn EXCEPT ![r] = Fresh(b, streamed)]
           /\ UNCHANGED <<sessions, life, server, stored, taken, todo, clients, history>>
    <2>1. limit.streamed \subseteq BOOLEAN
      BY SessionAssumption DEF IInv, Types, SessionTypes
    <2> QED
      BY <2>1 DEF SwapData, Fresh
  <1>2. pc \in [Requests -> Stages] /\ turn \in [Requests -> Turn] /\ asked \in [Requests -> 0 .. MaxExecs]
    BY DEF IInv, Types, TurnTypes, BridgeTypes
  <1>3. taken[r] # None /\ turn[r].bridge = None /\ turn[r].calls = {}
    BY <1>1 DEF IInv, Placed, PlacedAt, Early
  <1>4. b \in Requests /\ b # r
    BY <1>3 DEF IInv, Types, TurnTypes, BridgeOf, Execs, RInv, Firsts
  <1>5. turn[b].calls # {} /\ turn[b].bridge = b
    <2>1. pending[taken[r]] # {} /\ pending[taken[r]] \subseteq Execs /\ taken[r] \in Execs
      BY <1>3 DEF BInv, Accounts, Boxes, IInv, Types, SessionTypes, TurnTypes
    <2>2. PICK x \in Execs : x \in pending[taken[r]]
      BY <2>1
    <2>3. BridgeOf(x) = b /\ Issued(x)
      BY <2>1, <2>2 DEF BInv, Accounts, Pendings, Registered
    <2>4. x[2] \in Nat /\ x[2] >= 1 /\ x[2] <= asked[b] /\ asked[b] \in Nat
      BY <1>2, <1>4, <2>3, SessionAssumption DEF Execs, Issued
    <2>5. asked[b] > 0
      BY <2>4
    <2> QED
      BY <1>4, <2>5 DEF RInv, Firsts
  <1>6. /\ turn'[r].bridge = b /\ turn'[r].calls = {} /\ turn'[r].latest = {}
        /\ \A q \in Requests : q # r => turn'[q] = turn[q]
    BY <1>1, <1>2, FreshLatest
  <1> HIDE DEF b
  <1>7. b # None /\ r # None
    BY <1>4, SessionAssumption
  <1>8. UNCHANGED <<entry, stored, used, before, stopped, current, blobs, asked, taken>>
    BY <1>1 DEF sessions, server, history
  <1>9. Near
    <2>1. SameStore
      BY <1>8, NoStore DEF RInv
    <2>2. SamePlaces
      BY <1>1, <1>2, GoesPlaces
    <2>3. Grows /\ SameOpened
      BY <1>3, <1>4, <1>6, <1>7 DEF Grows, SameOpened
    <2>4. SamePast
      BY <1>3, <1>6, <1>7 DEF SamePast, Past
    <2>5. CarriesOn
      BY <1>1, StillCarries
    <2> QED
      BY <1>1, <2>1, <2>2, <2>3, <2>4, <2>5 DEF Near
  <1>10. Firsts'
    <2>1. \A u \in Requests : turn[u].bridge \in Requests \cup {None}
      BY <1>2 DEF Turn
    <2>2. ASSUME NEW u \in Requests, asked[u] > 0 PROVE turn'[u].bridge = u /\ turn'[u].calls # {}
      BY <1>3, <1>6, <1>7, <2>2 DEF RInv, Firsts
    <2>3. ASSUME NEW u \in Requests, turn'[u].bridge \notin {None, u}
          PROVE  turn'[turn'[u].bridge].calls # {}
      <3>1. CASE u = r
        BY <1>4, <1>5, <1>6, <3>1
      <3>2. CASE u # r
        <4>1. turn[turn[u].bridge].calls # {} /\ turn'[u] = turn[u] /\ turn[u].bridge \in Requests
          BY <1>6, <2>1, <2>3, <3>2 DEF RInv, Firsts
        <4>2. turn[u].bridge # r
          BY <1>3, <4>1
        <4> QED
          BY <1>6, <4>1, <4>2
      <3> QED
        BY <3>1, <3>2
    <2>4. \A u \in Requests : taken'[u] # None => BridgeOf(taken'[u]) # u
      BY <1>8 DEF RInv, Firsts
    <2> QED
      BY <1>8, <2>2, <2>3, <2>4 DEF Firsts
  <1> QED
    BY <1>9, <1>10, NearInv

--------------------------------------------------------------------------------
(* A bridge is opened, closed, and its first turn is over.                     *)

\* One program changes, and it ends or keeps nothing that it should not.
LEMMA CallbacksSet ==
    ASSUME IInv, Callbacks, NEW w \in Procs,
           \A p \in Procs : p # w => todo'[p] = todo[p],
           \A i \in DOMAIN todo'[w] : todo'[w][i].do \notin {"checkpoint", "ended"},
           \A i \in DOMAIN todo'[w] : \A t : todo'[w][i].do \in {"keep", "final"} /\ todo'[w][i].turn = t =>
               turn'[t].bridge = t /\ life'[t] = "dead" /\ w \in {reader(t), closer(t)},
           \A i \in DOMAIN todo'[w] : todo'[w][i].do = "keep" =>
               \E j \in DOMAIN todo'[w] : Does(todo'[w][j], "final", todo'[w][i].turn),
           \A t \in Based : turn'[t].bridge = turn[t].bridge,
           \A c \in Requests : life[c] = "dead" => life'[c] = "dead",
           \A c \in Requests : life[c] = "alive" /\ reader(c) # w => life'[c] = "alive"
    PROVE  Callbacks'
  <1>1. ASSUME NEW p \in Procs, p # w, NEW i \in DOMAIN todo[p], NEW o, o = todo[p][i]
        PROVE  Placing(p, o)'
    <2>1. o.turn \in Requests /\ turn[o.turn].bridge \in Requests /\ turn[o.turn].bridge # None
      BY <1>1, OnBridge
    <2>2. turn'[o.turn].bridge = turn[o.turn].bridge
      BY <2>1 DEF Based
    <2>3. Placing(p, o)
      BY <1>1 DEF Callbacks
    <2> QED
      BY <1>1, <2>1, <2>2, <2>3 DEF Placing
  <1>2. ASSUME NEW o, NEW i \in DOMAIN todo'[w], o = todo'[w][i] PROVE Placing(w, o)'
    <2>1. o.do \notin {"checkpoint", "ended"}
      BY <1>2
    <2>2. ASSUME o.do \in {"keep", "final"}
          PROVE  turn'[o.turn].bridge = o.turn /\ life'[o.turn] = "dead" /\ w \in {reader(o.turn), closer(o.turn)}
      BY <1>2, <2>2
    <2> QED
      BY <2>1, <2>2 DEF Placing
  <1> SUFFICES ASSUME NEW p \in Procs, NEW i \in DOMAIN todo'[p], NEW o, o = todo'[p][i]
               PROVE  /\ Placing(p, o)'
                      /\ o.do = "keep" => \E j \in DOMAIN todo'[p] : Does(todo'[p][j], "final", o.turn)
    BY DEF Callbacks, Placing, Does
  <1>3. CASE p # w
    <2>1. todo'[p] = todo[p]
      BY <1>3
    <2> QED
      BY <1>1, <1>3, <2>1 DEF Callbacks
  <1>4. CASE p = w
    BY <1>2, <1>4
  <1> QED
    BY <1>3, <1>4

\* The stops and the checkpoints of a bridge that it is not about stay.
LEMMA OthersStop ==
    ASSUME NEW w \in Procs, \A p \in Procs : p # w => todo'[p] = todo[p],
           NEW c \in Requests, stopped' = stopped, life'[c] = life[c],
           turn'[c].bridge = c <=> turn[c].bridge = c,
           \A i \in DOMAIN todo[w] : ~Does(todo[w][i], "keep", c),
           \A i \in DOMAIN todo'[w] : ~Does(todo'[w][i], "keep", c),
           \A i \in DOMAIN todo'[w] : ~(IsStop(todo'[w][i]) /\ todo'[w][i].turn = c /\ turn[c].bridge = c)
    PROVE  (Stopped(c)' => Stopped(c)) /\ (Past(c)' <=> Past(c))
  <1>1. Keeps(c)' <=> Keeps(c)
    <2>1. ASSUME NEW p \in Procs, NEW i \in DOMAIN todo[p], Does(todo[p][i], "keep", c)
          PROVE  Keeps(c)'
      <3>1. p # w
        BY <2>1
      <3> QED
        BY <2>1, <3>1 DEF Keeps, Does
    <2>2. ASSUME NEW p \in Procs, NEW i \in DOMAIN todo'[p], Does(todo'[p][i], "keep", c)
          PROVE  Keeps(c)
      <3>1. p # w
        BY <2>2
      <3> QED
        BY <2>2, <3>1 DEF Keeps
    <2> QED
      BY <2>1, <2>2 DEF Keeps, Does
  <1>2. Stopped(c)' => Stopped(c)
    <2>1. ASSUME NEW p \in Procs, NEW i \in DOMAIN todo'[p],
                 IsStop(todo'[p][i]), todo'[p][i].turn = c, turn[c].bridge = c
          PROVE  Stopped(c)
      <3>1. p # w
        BY <2>1
      <3>2. todo'[p] = todo[p]
        BY <3>1
      <3> QED
        BY <2>1, <3>2 DEF Stopped
    <2>2. ASSUME Stopped(c)', c \notin stopped PROVE Stopped(c)
      <3>1. PICK p \in Procs : \E i \in DOMAIN todo'[p] :
               IsStop(todo'[p][i]) /\ todo'[p][i].turn = c /\ turn'[c].bridge = c
        BY <2>2 DEF Stopped, IsStop
      <3> QED
        BY <2>1, <3>1
    <2> QED
      BY <2>2 DEF Stopped
  <1> QED
    BY <1>1, <1>2 DEF Past

\* What OnClose of a first turn does.
LEMMA FirstClosed ==
    ASSUME NEW t \in Requests, NEW code
    PROVE  LET s == OnClosedFirst(t, code) IN
           /\ \A i \in DOMAIN s : s[i].turn = t /\ s[i].do \in {"heart", "keep", "final"}
           /\ \E i \in DOMAIN s : Does(s[i], "keep", t)
           /\ \E i \in DOMAIN s : Does(s[i], "final", t)
  <1> DEFINE h == Do("heart", t)
             k == Do("keep", t)
             c == [do |-> "final", turn |-> t, chunk |-> code]
  <1>1. /\ h.turn = t /\ k.turn = t /\ c.turn = t
        /\ h.do = "heart" /\ k.do = "keep" /\ c.do = "final"
    BY DEF Do
  <1>2. OnClosedFirst(t, code) = <<h, k, c>>
    BY DEF OnClosedFirst
  <1> HIDE DEF h, k, c
  <1> DEFINE s == <<h, k, c>>
  <1>3. DOMAIN s = {1, 2, 3} /\ s[1] = h /\ s[2] = k /\ s[3] = c
    OBVIOUS
  <1> HIDE DEF s
  <1>4. /\ \A i \in DOMAIN s : s[i].turn = t /\ s[i].do \in {"heart", "keep", "final"}
        /\ \E i \in DOMAIN s : Does(s[i], "keep", t)
        /\ \E i \in DOMAIN s : Does(s[i], "final", t)
    BY <1>1, <1>3 DEF Does
  <1> QED
    BY <1>2, <1>4 DEF s

\* The stream to Cursor is closed.  A bridge whose callbacks are another turn's was asked
\* for a call; else OnClose has the checkpoint still to keep.
LEMMA CloseResume ==
    ASSUME IInv, RInv, NEW b \in Requests, NEW code \in Codes, Close(b, code)
    PROVE  RInv'
  <1> DEFINE t == onClose[b]
             s == OnClosed(t, code)
             w == reader(b)
  <1>1. /\ life[b] = "alive" /\ todo[w] = << >> /\ life' = [life EXCEPT ![b] = "dead"]
        /\ todo' = [todo EXCEPT ![w] = s]
        /\ UNCHANGED <<sessions, server, requests, turn, history>>
    BY DEF Close, Idle, reader
  <1>2. /\ t \in Requests /\ turn[t].bridge = b /\ turn[b].bridge = b /\ b # None /\ w \in Procs
    BY <1>1, WorkerNames, SessionAssumption DEF IInv, Wired, Types, BridgeTypes
  <1>3. life \in [Requests -> {"none", "alive", "dead"}] /\ todo \in [Procs -> Seq(Instr)]
    BY DEF IInv, Types, BridgeTypes, TurnTypes
  <1>4. /\ \A c \in Requests : life'[c] = IF c = b THEN "dead" ELSE life[c]
        /\ todo'[w] = s /\ \A p \in Procs : p # w => todo'[p] = todo[p]
    BY <1>1, <1>2, <1>3
  <1>5. Opened(t) <=> t = b
    BY <1>2 DEF Opened
  <1>6. t = b =>
           /\ \A i \in DOMAIN s : s[i].turn = b /\ s[i].do \in {"heart", "keep", "final"}
           /\ \E i \in DOMAIN s : Does(s[i], "keep", b)
           /\ \E i \in DOMAIN s : Does(s[i], "final", b)
    BY <1>2, <1>5, FirstClosed DEF OnClosed
  <1>7. t # b => LightOnly(s)
    BY <1>2, <1>5, LightPrograms
  <1> HIDE DEF s, t
  <1>8. DOMAIN todo[w] = {}
    BY <1>1, CarryFacts
  <1>9. Callbacks'
    <2>1. \A i \in DOMAIN s : s[i].do \notin {"checkpoint", "ended"}
      BY <1>6, <1>7 DEF LightOnly, Light
    <2>2. ASSUME NEW i \in DOMAIN s, s[i].do \in {"keep", "final"}
          PROVE  /\ s[i].turn = b /\ t = b
      BY <1>6, <1>7, <2>2 DEF LightOnly, Light
    <2>3. turn' = turn
      BY <1>1
    <2>4. ASSUME NEW i \in DOMAIN s, NEW u, s[i].do \in {"keep", "final"}, s[i].turn = u
          PROVE  turn'[u].bridge = u /\ life'[u] = "dead" /\ w \in {reader(u), closer(u)}
      BY <1>2, <1>4, <2>2, <2>3, <2>4
    <2>5. \A i \in DOMAIN s : s[i].do = "keep" => \E j \in DOMAIN s : Does(s[j], "final", s[i].turn)
      BY <1>6, <2>2
    <2>6. /\ \A u \in Based : turn'[u].bridge = turn[u].bridge
          /\ \A c \in Requests : life[c] = "dead" => life'[c] = "dead"
          /\ \A c \in Requests : life[c] = "alive" /\ reader(c) # w => life'[c] = "alive"
      BY <1>4, <2>3
    <2>7. \A i \in DOMAIN todo'[w] : \A u : todo'[w][i].do \in {"keep", "final"} /\ todo'[w][i].turn = u =>
             turn'[u].bridge = u /\ life'[u] = "dead" /\ w \in {reader(u), closer(u)}
      BY <1>4, <2>4
    <2>8. /\ \A i \in DOMAIN todo'[w] : todo'[w][i].do \notin {"checkpoint", "ended"}
          /\ \A i \in DOMAIN todo'[w] : todo'[w][i].do = "keep" =>
               \E j \in DOMAIN todo'[w] : Does(todo'[w][j], "final", todo'[w][i].turn)
      BY <1>4, <2>1, <2>5
    <2>9. Callbacks /\ \A p \in Procs : p # w => todo'[p] = todo[p]
      BY <1>4 DEF RInv
    <2> HIDE DEF w
    <2> QED
      BY <1>2, <2>6, <2>7, <2>8, <2>9, CallbacksSet
  <1>10. UNCHANGED <<entry, stored, used, before, stopped, current, blobs, asked, taken, pc, turn>>
    BY <1>1 DEF sessions, server, requests, history
  <1>11. Firsts'
    <2>1. turn \in [Requests -> Turn]
      BY DEF IInv, Types, TurnTypes
    <2> QED
      BY <1>10, <2>1, FirstsOn DEF RInv
  <1>12. ASSUME NEW c \in Requests PROVE StoppingAt(c)' /\ ClosingAt(c)'
    <2>1. StoppingAt(c) /\ ClosingAt(c)
      BY DEF RInv, Stopping, Closing
    <2>2. Settled(c) => Settled(c)'
      BY <1>10 DEF Settled
    <2>3. \A i \in DOMAIN s : ~(IsStop(s[i]) /\ s[i].turn = c /\ turn[c].bridge = c)
      BY <1>6, <1>7 DEF LightOnly, Light, IsStop
    <2>4. CASE c # b
      <3>1. \A i \in DOMAIN s : ~Does(s[i], "keep", c)
        BY <1>6, <1>7, <2>4 DEF LightOnly, Light, Does
      <3>2. (Stopped(c)' => Stopped(c)) /\ (Past(c)' <=> Past(c))
        BY <1>2, <1>4, <1>8, <1>10, <2>3, <2>4, <3>1, OthersStop
      <3>3. /\ turn'[c].calls = turn[c].calls /\ turn'[c].turnEnded = turn[c].turnEnded
            /\ turn[c].cancelled => turn'[c].cancelled
        BY <1>10
      <3> QED
        BY <2>1, <2>2, <3>2, <3>3, SettledOn
    <2>5. CASE c = b
      <3>1. ~Past(b) /\ ~Stopped(b)
        BY <1>1, <2>1, <2>5 DEF Past, StoppingAt
      <3>2. ~Stopped(b)'
        <4>1. ASSUME NEW p \in Procs, NEW i \in DOMAIN todo'[p],
                     IsStop(todo'[p][i]), todo'[p][i].turn = b, turn[b].bridge = b
              PROVE  FALSE
          <5>1. CASE p = w
            BY <1>4, <2>3, <2>5, <4>1, <5>1
          <5>2. CASE p # w
            BY <1>4, <3>1, <4>1, <5>2 DEF Stopped
          <5> QED
            BY <5>1, <5>2
        <4>2. b \notin stopped'
          BY <1>10, <3>1 DEF Stopped
        <4>3. turn' = turn
          BY <1>10
        <4> QED
          BY <4>1, <4>2, <4>3 DEF Stopped, IsStop
      <3>3. CASE t = b
        <4>1. Keeps(b)'
          BY <1>2, <1>4, <1>6, <3>3 DEF Keeps, Does
        <4> QED
          BY <2>5, <3>2, <4>1 DEF StoppingAt, ClosingAt, Past
      <3>4. CASE t # b
        <4>1. turn[b].calls # {} /\ turn' = turn
          BY <1>2, <1>10, <3>4 DEF RInv, Firsts
        <4> QED
          BY <2>5, <3>2, <4>1 DEF StoppingAt, ClosingAt, Ended
      <3> QED
        BY <3>3, <3>4
    <2> QED
      BY <2>4, <2>5
  <1>13. SameStore
    BY <1>10, NoStore DEF RInv
  <1>14. SamePlaces /\ Grows
    BY <1>10 DEF SamePlaces, Grows
  <1> QED
    BY <1>9, <1>11, <1>12, <1>13, <1>14, StoreInv

\* What a program is about is a turn that has a bridge.
LEMMA BasedSteps ==
    ASSUME IInv, NEW p \in Procs, NEW i \in DOMAIN todo[p], NEW r \in Requests, turn[r].bridge = None
    PROVE  todo[p][i].turn # r
  BY OnBridge

\* A bridge is opened: nobody has kept or stopped anything of it.
LEMMA OpenResume ==
    ASSUME IInv, RInv, NEW r \in Requests, Open(r), ~Goes(r, "over")
    PROVE  RInv'
  <1> DEFINE w == closer(r)
             s == OnClosedFirst(r, "err")
  <1>1. PICK l \in {"alive", "dead"}, streamed \in BOOLEAN :
           /\ pc[r] = "open" /\ Goes(r, "running") /\ life' = [life EXCEPT ![r] = l]
           /\ turn' = [turn EXCEPT ![r] = Fresh(r, streamed)]
           /\ todo' = IF l = "dead" THEN [todo EXCEPT ![w] = s] ELSE todo
           /\ UNCHANGED <<sessions, server, stored, taken, clients, history>>
    <2>1. limit.streamed \subseteq BOOLEAN
      BY SessionAssumption DEF IInv, Types, SessionTypes
    <2> QED
      BY <2>1 DEF Open, Fresh, closer
  <1>2. /\ pc \in [Requests -> Stages] /\ turn \in [Requests -> Turn] /\ todo \in [Procs -> Seq(Instr)]
        /\ life \in [Requests -> {"none", "alive", "dead"}] /\ w \in Procs
    BY WorkerNames DEF IInv, Types, TurnTypes, BridgeTypes
  <1>3. /\ turn[r].bridge = None /\ turn[r].calls = {} /\ life[r] = "none" /\ todo[w] = << >>
    BY <1>1 DEF IInv, Placed, PlacedAt, Early
  <1>4. /\ turn'[r].bridge = r /\ turn'[r].calls = {} /\ turn'[r].latest = {}
        /\ \A q \in Requests : q # r => turn'[q] = turn[q]
    BY <1>1, <1>2, FreshLatest
  <1>5. life'[r] = l /\ \A q \in Requests : q # r => life'[q] = life[q]
    BY <1>1, <1>2
  <1>6. /\ todo'[w] = IF l = "dead" THEN s ELSE << >>
        /\ \A p \in Procs : p # w => todo'[p] = todo[p]
    BY <1>1, <1>2, <1>3
  <1>7. /\ \A i \in DOMAIN s : s[i].turn = r /\ s[i].do \in {"heart", "keep", "final"}
        /\ \E i \in DOMAIN s : Does(s[i], "keep", r)
        /\ \E i \in DOMAIN s : Does(s[i], "final", r)
    BY FirstClosed
  <1> HIDE DEF s
  <1>8. /\ \A i \in DOMAIN todo'[w] :
              l = "dead" /\ todo'[w][i].turn = r /\ todo'[w][i].do \in {"heart", "keep", "final"}
        /\ l = "dead" => \E i \in DOMAIN todo'[w] : Does(todo'[w][i], "keep", r)
        /\ l = "dead" => \E i \in DOMAIN todo'[w] : Does(todo'[w][i], "final", r)
        /\ DOMAIN todo[w] = {}
    <2>1. DOMAIN << >> = {}
      OBVIOUS
    <2> QED
      BY <1>3, <1>6, <1>7, <2>1
  <1>9. r # None
    BY SessionAssumption
  <1>10. UNCHANGED <<entry, stored, used, before, stopped, current, blobs, asked, taken>>
    BY <1>1 DEF sessions, server, history
  <1>11. Callbacks'
    <2>1. \A u \in Based : turn'[u].bridge = turn[u].bridge
      BY <1>3, <1>4 DEF Based
    <2>2. /\ \A c \in Requests : life[c] = "dead" => life'[c] = "dead"
          /\ \A c \in Requests : life[c] = "alive" /\ reader(c) # w => life'[c] = "alive"
      BY <1>3, <1>5
    <2>3. \A i \in DOMAIN todo'[w] : \A u : todo'[w][i].do \in {"keep", "final"} /\ todo'[w][i].turn = u =>
             turn'[u].bridge = u /\ life'[u] = "dead" /\ w \in {reader(u), closer(u)}
      BY <1>4, <1>5, <1>8
    <2>4. /\ \A i \in DOMAIN todo'[w] : todo'[w][i].do \notin {"checkpoint", "ended"}
          /\ \A i \in DOMAIN todo'[w] : todo'[w][i].do = "keep" =>
               \E j \in DOMAIN todo'[w] : Does(todo'[w][j], "final", todo'[w][i].turn)
      BY <1>8
    <2>5. Callbacks
      BY DEF RInv
    <2> HIDE DEF w
    <2> QED
      BY <1>2, <1>6, <2>1, <2>2, <2>3, <2>4, <2>5, CallbacksSet
  <1>12. Firsts'
    <2>1. \A u \in Requests : turn[u].bridge \in Requests \cup {None}
      BY <1>2 DEF Turn
    <2>2. ASSUME NEW u \in Requests, asked[u] > 0 PROVE turn'[u].bridge = u /\ turn'[u].calls # {}
      BY <1>3, <1>4, <1>9, <2>2 DEF RInv, Firsts
    <2>3. ASSUME NEW u \in Requests, turn'[u].bridge \notin {None, u}
          PROVE  turn'[turn'[u].bridge].calls # {}
      <3>1. u # r
        BY <1>4, <2>3
      <3>2. turn[turn[u].bridge].calls # {} /\ turn'[u] = turn[u] /\ turn[u].bridge \in Requests
        BY <1>4, <2>1, <2>3, <3>1 DEF RInv, Firsts
      <3>3. turn[u].bridge # r
        BY <1>3, <3>2
      <3> QED
        BY <1>4, <3>2, <3>3
    <2>4. \A u \in Requests : taken'[u] # None => BridgeOf(taken'[u]) # u
      BY <1>10 DEF RInv, Firsts
    <2> QED
      BY <1>10, <2>2, <2>3, <2>4 DEF Firsts
  <1>13. ASSUME NEW c \in Requests PROVE StoppingAt(c)' /\ ClosingAt(c)'
    <2>1. StoppingAt(c) /\ ClosingAt(c)
      BY DEF RInv, Stopping, Closing
    <2>2. Settled(c) => Settled(c)'
      BY <1>10 DEF Settled
    <2>3. \A i \in DOMAIN todo'[w] : ~IsStop(todo'[w][i])
      BY <1>8 DEF IsStop
    <2>4. CASE c # r
      <3>1. \A i \in DOMAIN todo'[w] : ~Does(todo'[w][i], "keep", c)
        BY <1>8, <2>4 DEF Does
      <3>2. turn'[c] = turn[c] /\ life'[c] = life[c]
        BY <1>4, <1>5, <2>4
      <3>3. (Stopped(c)' => Stopped(c)) /\ (Past(c)' <=> Past(c))
        <4> HIDE DEF w
        <4> QED
          BY <1>2, <1>6, <1>8, <1>10, <2>3, <3>1, <3>2, OthersStop
      <3> QED
        BY <2>1, <2>2, <3>2, <3>3, SettledOn
    <2>5. CASE c = r
      <3>1. c \notin stopped'
        BY <1>3, <1>10, <2>1, <2>5 DEF Past, StoppingAt, Stopped
      <3>2. ASSUME NEW p \in Procs, NEW i \in DOMAIN todo'[p], IsStop(todo'[p][i]), todo'[p][i].turn = r
            PROVE  FALSE
        <4>1. p # w
          BY <2>3, <3>2
        <4>2. todo'[p] = todo[p]
          BY <1>6, <4>1
        <4> QED
          BY <1>3, <3>2, <4>2, BasedSteps
      <3>3. ~Stopped(c)'
        BY <2>5, <3>1, <3>2 DEF Stopped, IsStop
      <3>4. life'[c] = "dead" => Keeps(c)'
        BY <1>2, <1>5, <1>8, <2>5 DEF Keeps, Does
      <3> QED
        BY <3>3, <3>4 DEF StoppingAt, ClosingAt, Past
    <2> QED
      BY <2>4, <2>5
  <1>14. SameStore
    BY <1>10, NoStore DEF RInv
  <1>15. SamePlaces
    BY <1>1, <1>2, GoesPlaces
  <1>16. Grows
    BY <1>3, <1>4, <1>9 DEF Grows
  <1> QED
    BY <1>11, <1>12, <1>13, <1>14, <1>15, <1>16, StoreInv

\* What OnClose has left to say: a stop, of a turn that ended without a call, or no stop.
FinalSaid(p, t) ==
    /\ Len(todo[p]) = 1 /\ DOMAIN todo[p] = {1}
    /\ \E q \in Seq(Instr) :
          /\ todo' = [todo EXCEPT ![p] = q]
          /\ \A i \in DOMAIN q :
                /\ q[i].do \notin {"checkpoint", "keep", "final", "ended"} /\ q[i].turn = t
                /\ IsStop(q[i]) => Ended(t)

\* It does say that.
LEMMA FinalStops ==
    ASSUME IInv, NEW p \in Procs, todo[p] # << >>, todo[p][1].do = "final",
           NEW t \in Requests, t = todo[p][1].turn, NEW code, Final(p, t, code)
    PROVE  FinalSaid(p, t)
  <1> DEFINE s == todo[p]
             f == <<Do("finish", t)>>
             er == <<Emit(t, "error", None)>>
             us == <<Emit(t, "usage", None)>>
             st == <<Emit(t, "stop", None)>>
             fail == <<Emit(t, "error", None), Emit(t, "usage", None)>>
             ok == <<Emit(t, "stop", None), Emit(t, "usage", None)>>
             drop == <<Do("drop", t)>>
  <1>1. Program(s, t, turn[t].bridge) /\ s \in Seq(Instr)
    BY Whose DEF OfHeart, IInv, Types, TurnTypes
  <1>2. Tail(s) = << >> /\ Len(s) = 1 /\ DOMAIN s = {1}
    <2>1. Len(s) \in Nat /\ 1 \in DOMAIN s /\ (Len(s) = 1 => Tail(s) = << >>) /\ DOMAIN s = 1 .. Len(s)
      BY <1>1, Parts
    <2>2. Len(s) = 1
      BY <1>1, <2>1 DEF Program
    <2> QED
      BY <2>1, <2>2
  <1> DEFINE Fits(q) ==
                 \A i \in DOMAIN q :
                    /\ q[i].do \notin {"checkpoint", "keep", "final", "ended"} /\ q[i].turn = t
                    /\ IsStop(q[i]) => Ended(t)
  <1>3. ASSUME NEW o \in Instr, o.do \notin {"checkpoint", "keep", "final", "ended"}, o.turn = t,
               IsStop(o) => Ended(t)
        PROVE  <<o>> \in Seq(Instr) /\ Fits(<<o>>)
    <2>1. DOMAIN <<o>> = {1} /\ <<o>>[1] = o
      OBVIOUS
    <2>2. \A i \in DOMAIN <<o>> : <<o>>[i] = o
      BY <2>1
    <2> QED
      BY <1>3, <2>2
  <1>4. /\ f \in Seq(Instr) /\ Fits(f) /\ er \in Seq(Instr) /\ Fits(er) /\ us \in Seq(Instr) /\ Fits(us)
        /\ drop \in Seq(Instr) /\ Fits(drop) /\ st \in Seq(Instr) /\ (Ended(t) => Fits(st))
    <2>1. /\ Do("finish", t) \in Instr /\ Do("drop", t) \in Instr
          /\ Emit(t, "error", None) \in Instr /\ Emit(t, "usage", None) \in Instr
          /\ Emit(t, "stop", None) \in Instr
      BY Steps DEF Bare
    <2>2. st \in Seq(Instr)
      BY <2>1
    <2>3. ASSUME NEW o \in {Do("finish", t), Do("drop", t), Emit(t, "error", None), Emit(t, "usage", None)}
          PROVE  o.do \notin {"checkpoint", "keep", "final", "ended"} /\ o.turn = t /\ ~IsStop(o)
      BY DEF Do, Emit, IsStop
    <2>4. LET o == Emit(t, "stop", None) IN
          o.do \notin {"checkpoint", "keep", "final", "ended"} /\ o.turn = t
      BY DEF Emit
    <2> HIDE DEF Fits
    <2> QED
      BY <1>3, <2>1, <2>2, <2>3, <2>4
  <1>5. ASSUME NEW a \in Seq(Instr), NEW b \in Seq(Instr), Fits(a), Fits(b)
        PROVE  a \o b \in Seq(Instr) /\ Fits(a \o b)
    <2> DEFINE ab == a \o b
               n == Len(a)
    <2>1. /\ ab \in Seq(Instr) /\ n \in Nat /\ Len(b) \in Nat
          /\ \A i \in DOMAIN a : ab[i] = a[i]
          /\ \A i \in DOMAIN b : ab[n + i] = b[i]
          /\ DOMAIN ab = 1 .. n + Len(b) /\ DOMAIN b = 1 .. Len(b)
          /\ \A i \in DOMAIN ab : i \in DOMAIN a \/ i - n \in DOMAIN b
      BY Joined
    <2> HIDE DEF ab, n
    <2>2. ASSUME NEW i \in DOMAIN ab
          PROVE  \/ \E j \in DOMAIN a : ab[i] = a[j]
                 \/ \E j \in DOMAIN b : ab[i] = b[j]
      <3>1. n + (i - n) = i
        BY <2>1
      <3> QED
        BY <2>1, <3>1
    <2>3. Fits(ab)
      BY <1>5, <2>2
    <2> QED
      BY <2>1, <2>3 DEF ab
  <1> DEFINE T == turn[t]
             bad == ~T.turnEnded \/ (code # "eof" /\ ~T.terminal)
             rest ==
                CASE T.state # "open" -> << >>
                  [] T.state = "open" /\ (T.cancelled \/ T.calls # {}) ->
                        IF T.calls # {} /\ code # "eof" THEN fail ELSE << >>
                  [] OTHER -> IF bad THEN drop \o fail ELSE ok
  <1>6. todo' = [todo EXCEPT ![p] = (rest \o f) \o Tail(s)]
    BY DEF Final, Then
  <1>7. fail = er \o us /\ ok = st \o us
    OBVIOUS
  <1>8. << >> \in Seq(Instr) /\ Fits(<< >>)
    BY EmptySeq, CarryFacts
  <1> HIDE DEF f, fail, ok, drop, er, us, st, Fits
  <1>9. /\ fail \in Seq(Instr) /\ Fits(fail) /\ drop \o fail \in Seq(Instr) /\ Fits(drop \o fail)
        /\ ok \in Seq(Instr) /\ (Ended(t) => Fits(ok))
    <2>1. fail \in Seq(Instr) /\ Fits(fail)
      BY <1>4, <1>5, <1>7
    <2>2. ok \in Seq(Instr)
      BY <1>4, <1>7, ConcatProperties
    <2> QED
      BY <1>4, <1>5, <1>7, <2>1, <2>2
  <1>10. rest \in Seq(Instr) /\ Fits(rest)
    <2>1. CASE T.state # "open"
      BY <1>8, <2>1
    <2>2. CASE T.state = "open" /\ (T.cancelled \/ T.calls # {})
      BY <1>8, <1>9, <2>2
    <2>3. CASE T.state = "open" /\ ~(T.cancelled \/ T.calls # {})
      <3>1. rest = IF bad THEN drop \o fail ELSE ok
        BY <2>3
      <3>2. ~bad => Ended(t)
        BY <2>3 DEF Ended
      <3> HIDE DEF rest, bad
      <3> QED
        BY <1>9, <3>1, <3>2
    <2> QED
      BY <2>1, <2>2, <2>3
  <1> HIDE DEF rest
  <1>11. rest \o f \in Seq(Instr) /\ Fits(rest \o f)
    BY <1>4, <1>5, <1>10
  <1>12. (rest \o f) \o Tail(s) = rest \o f
    BY <1>2, <1>11, ConcatEmptySeq
  <1>13. todo' = [todo EXCEPT ![p] = rest \o f]
    BY <1>6, <1>12
  <1> QED
    BY <1>2, <1>11, <1>13 DEF Fits, FinalSaid

\* OnClose is through: a turn that ended without a call has nothing to be resumed by then.
LEMMA FinalResume ==
    ASSUME IInv, RInv, NEW p \in Procs, todo[p] # << >>, todo[p][1].do = "final",
           Final(p, todo[p][1].turn, todo[p][1].chunk)
    PROVE  RInv'
  <1> DEFINE t == todo[p][1].turn
  <1>1. UNCHANGED <<sessions, bridges, server, requests, turn, history>>
    BY DEF Final
  <1>2. t \in Requests /\ FinalSaid(p, t)
    <2>1. t \in Requests
      BY Whose DEF OfHeart
    <2> QED
      BY <2>1, FinalStops
  <1>3. PICK q \in Seq(Instr) :
           /\ todo' = [todo EXCEPT ![p] = q]
           /\ \A i \in DOMAIN q :
                 /\ q[i].do \notin {"checkpoint", "keep", "final", "ended"} /\ q[i].turn = t
                 /\ IsStop(q[i]) => Ended(t)
    BY <1>2 DEF FinalSaid
  <1>4. /\ turn[t].bridge = t /\ life[t] = "dead" /\ p \in {reader(t), closer(t)}
    BY <1>2 DEF RInv, Callbacks, Placing, FinalSaid
  <1>5. Does(todo[p][1], "final", t)
    BY DEF Does
  <1>6. DOMAIN todo[p] = {1} /\ \A i \in DOMAIN todo[p] : todo[p][i].do = "final"
    BY <1>2 DEF FinalSaid
  <1> HIDE DEF t
  <1>7. todo \in [Procs -> Seq(Instr)]
    BY DEF IInv, Types, TurnTypes
  <1>8. todo'[p] = q /\ \A w \in Procs : w # p => todo'[w] = todo[w]
    BY <1>3, <1>7
  <1>9. ~Keeps(t)
    <2> SUFFICES ASSUME NEW w \in Procs, NEW i \in DOMAIN todo[w], Does(todo[w][i], "keep", t)
                 PROVE  FALSE
      BY DEF Keeps
    <2>1. w \in {reader(t), closer(t)} /\ w # p
      BY <1>2, <1>6 DEF RInv, Callbacks, Placing, Does
    <2>2. PICK j \in DOMAIN todo[w] : Does(todo[w][j], "final", t)
      BY DEF RInv, Callbacks, Does
    <2>3. Tells(todo[w], t) /\ Tells(todo[p], t)
      BY <1>5, <1>6, <2>2 DEF Tells, Does
    <2>4. Tells(todo[reader(t)], t) /\ Tells(todo[closer(t)], t)
      BY <1>4, <2>1, <2>3
    <2>5. todo[closer(t)] # << >>
      BY <2>4, NothingToDo
    <2> QED
      BY <1>2, <1>4, <2>4, <2>5 DEF IInv, Programs
  <1>10. UNCHANGED <<entry, stored, used, before, stopped, current, blobs, asked, taken, pc, life, turn>>
    BY <1>1 DEF sessions, bridges, server, requests, history
  <1>11. /\ \A i \in DOMAIN todo'[p] : todo'[p][i].do \notin {"checkpoint", "keep", "final", "ended"}
         /\ \A i \in DOMAIN todo'[p] : IsStop(todo'[p][i]) => Ended(t) /\ todo'[p][i].turn = t
    BY <1>3, <1>8
  <1>12. Callbacks'
    <2>1. /\ \A u \in Based : turn'[u].bridge = turn[u].bridge
          /\ \A c \in Requests : life[c] = "dead" => life'[c] = "dead"
          /\ \A c \in Requests : life[c] = "alive" /\ reader(c) # p => life'[c] = "alive"
      BY <1>10
    <2>2. Callbacks
      BY DEF RInv
    <2>3. /\ \A i \in DOMAIN todo'[p] : todo'[p][i].do \notin {"checkpoint", "ended"}
          /\ \A i \in DOMAIN todo'[p] : \A u : todo'[p][i].do \in {"keep", "final"} /\ todo'[p][i].turn = u =>
               turn'[u].bridge = u /\ life'[u] = "dead" /\ p \in {reader(u), closer(u)}
          /\ \A i \in DOMAIN todo'[p] : todo'[p][i].do = "keep" =>
               \E j \in DOMAIN todo'[p] : Does(todo'[p][j], "final", todo'[p][i].turn)
      BY <1>11
    <2> QED
      BY <1>8, <2>1, <2>2, <2>3, CallbacksSet
  <1>13. Firsts'
    <2>1. turn \in [Requests -> Turn]
      BY DEF IInv, Types, TurnTypes
    <2> QED
      BY <1>10, <2>1, FirstsOn DEF RInv
  <1>14. ASSUME NEW c \in Requests PROVE StoppingAt(c)' /\ ClosingAt(c)'
    <2>1. StoppingAt(c) /\ ClosingAt(c)
      BY DEF RInv, Stopping, Closing
    <2>2. Settled(c) => Settled(c)'
      BY <1>10 DEF Settled
    <2>3. /\ \A i \in DOMAIN todo[p] : ~Does(todo[p][i], "keep", c)
          /\ \A i \in DOMAIN todo'[p] : ~Does(todo'[p][i], "keep", c)
      BY <1>6, <1>11 DEF Does
    <2>4. CASE c # t \/ ~Ended(t)
      <3>1. \A i \in DOMAIN todo'[p] : ~(IsStop(todo'[p][i]) /\ todo'[p][i].turn = c /\ turn[c].bridge = c)
        BY <1>11, <2>4
      <3>2. (Stopped(c)' => Stopped(c)) /\ (Past(c)' <=> Past(c))
        BY <1>8, <1>10, <2>3, <3>1, OthersStop
      <3> QED
        BY <1>10, <2>1, <2>2, <3>2, SettledOn
    <2>5. CASE c = t /\ Ended(t)
      <3>1. Past(c) /\ Settled(c) /\ turn[c].calls = {}
        BY <1>4, <1>9, <2>1, <2>5 DEF Past, ClosingAt, Ended
      <3>2. ~Keeps(c)'
        <4> SUFFICES ASSUME NEW w \in Procs, NEW i \in DOMAIN todo'[w], Does(todo'[w][i], "keep", c)
                     PROVE  FALSE
          BY DEF Keeps, Does
        <4>1. w # p
          BY <2>3, <2>5
        <4> QED
          BY <1>8, <1>9, <2>5, <4>1 DEF Keeps
      <3>3. Past(c)'
        BY <1>10, <3>1, <3>2 DEF Past
      <3>4. turn' = turn
        BY <1>10
      <3> QED
        BY <2>2, <3>1, <3>3, <3>4 DEF StoppingAt, ClosingAt
    <2> QED
      BY <2>4, <2>5
  <1>15. SameStore
    BY <1>10, NoStore DEF RInv
  <1>16. SamePlaces /\ Grows
    BY <1>10 DEF SamePlaces, Grows
  <1> QED
    BY <1>12, <1>13, <1>14, <1>15, <1>16, StoreInv

--------------------------------------------------------------------------------
(* Steps that write the entry of the key.                                      *)

\* Entry d is e, with a checkpoint of b or with what it had.
Rewritten(e, d, b) ==
    /\ d.checkpoint = b \/ (d.checkpoint = e.checkpoint /\ d.hash = e.hash)
    /\ WholeAt(d)

\* A bridge that has not stopped writes the entry.
LEMMA Rewrites ==
    ASSUME IInv, RInv, NEW b \in Requests, b \notin stopped,
           UNCHANGED <<current, stored, used, before, stopped, pc>>,
           \A o \in Requests :
               entry'[o] = entry[o] \/ (o = current /\ Rewritten(entry[o], entry'[o], b))
    PROVE  /\ Written' /\ Prompted'
           /\ \A r \in Requests : WholeAt(entry'[r])
           /\ \A c \in Requests : c # b /\ Settled(c) => Settled(c)'
  <1>0. current \in Requests \cup {None} /\ None \notin Requests
        /\ stored \in [Requests -> Requests \cup {None}]
    BY SessionAssumption DEF IInv, Types, SessionTypes
  <1>1. \A o \in Requests : stored[o] = None => entry'[o] = entry[o]
    BY <1>0 DEF RInv, Written
  <1>2. Written'
    BY <1>1 DEF RInv, Written
  <1>3. \A r \in Requests : WholeAt(entry'[r])
    BY DEF RInv, Whole, Rewritten
  <1>4. \A c \in Requests : c # b /\ Settled(c) => Settled(c)'
    BY <1>0 DEF Settled, Rewritten
  <1>5. ASSUME NEW o \in Requests
        PROVE  \/ entry'[o].checkpoint = b
               \/ entry'[o].checkpoint = entry[o].checkpoint /\ entry'[o].hash = entry[o].hash
    BY DEF Rewritten
  <1>6. Prompted'
    <2> SUFFICES ASSUME NEW r \in Requests PROVE PromptedAt(r)'
      BY DEF RInv, Prompted
    <2>1. PromptedAt(r) /\ b \notin before[r]
      BY DEF RInv, Prompted, PromptedAt
    <2>2. stored[r] # None => stored[r] \in Requests
      BY <1>0
    <2>3. pc[r] \in {"prepare", "build"} => stored[r] # None
      BY DEF IInv, Placed, PlacedAt
    <2> QED
      BY <1>5, <2>1, <2>2, <2>3 DEF PromptedAt
  <1> QED
    BY <1>2, <1>3, <1>4, <1>6

\* An entry with another resumeRequestHash, or with other blobs it refers to.
Hashed(e, h) == [e EXCEPT !.hash = h]
Referring(e, R, h) == [e EXCEPT !.refs = R, !.hash = h]

\* What an entry has once it is changed.
LEMMA EntryFields ==
    ASSUME NEW e \in Entry
    PROVE  /\ \A h : LET d == Hashed(e, h) IN
                 /\ d.checkpoint = e.checkpoint /\ d.refs = e.refs /\ d.resumed = e.resumed
                 /\ d.hash = h /\ d.blobs = e.blobs
           /\ \A R, h : LET d == Referring(e, R, h) IN
                 /\ d.checkpoint = e.checkpoint /\ d.refs = R /\ d.resumed = e.resumed
                 /\ d.hash = h /\ d.blobs = e.blobs
           /\ \A b : LET d == WithBlobs(e, b) IN
                 /\ d.checkpoint = e.checkpoint /\ d.refs = e.refs /\ d.resumed = e.resumed
                 /\ d.hash = e.hash /\ d.blobs = e.blobs \cup blobs[b]
           /\ \A t : LET d == Stored(e, t) IN
                 /\ d.checkpoint = turn[t].bridge /\ d.refs = blobs[turn[t].bridge]
                 /\ d.resumed = ~Opened(t) /\ d.hash = e.hash /\ d.blobs = e.blobs
  BY DEF Entry, WithBlobs, Stored, Hashed, Referring

\* What a checkpoint that comes leaves in an entry, and what OnClose keeps in it.
Checkpointed(e, t) ==
    IF Opened(t) THEN [WithBlobs(Stored(e, t), t) EXCEPT !.hash = Resumable(t)] ELSE Stored(e, t)
WithKept(e, t) ==
    IF turn[t].cancelled \/ turn[t].latest = {} THEN WithBlobs(e, t)
    ELSE [WithBlobs(Stored(e, t), t) EXCEPT !.refs = UNION turn[t].latest, !.hash = Resumable(t)]

\* A checkpoint that comes writes the entry.
LEMMA CheckpointEntry ==
    ASSUME IInv, NEW t \in Requests, turn[t].bridge \in Requests, NEW e \in Entry
    PROVE  Rewritten(e, Checkpointed(e, t), turn[t].bridge)
  <1> DEFINE s == Stored(e, t)
             w == WithBlobs(s, t)
             d == Checkpointed(e, t)
  <1>1. s \in Entry
    BY EntrySet
  <1>2. s.checkpoint = turn[t].bridge /\ s.refs = blobs[turn[t].bridge] /\ s.resumed = ~Opened(t)
    BY EntryFields
  <1>3. d = IF Opened(t) THEN Hashed(w, Resumable(t)) ELSE s
    BY DEF Hashed, Checkpointed
  <1> HIDE DEF s, d
  <1>4. w \in Entry
    BY <1>1, EntrySet
  <1>5. /\ w.checkpoint = s.checkpoint /\ w.refs = s.refs /\ w.resumed = s.resumed
        /\ w.blobs = s.blobs \cup blobs[t]
    BY <1>1, EntryFields
  <1> HIDE DEF w
  <1>6. CASE Opened(t)
    <2>1. d.checkpoint = w.checkpoint /\ d.refs = w.refs /\ d.resumed = w.resumed /\ d.blobs = w.blobs
      BY <1>3, <1>4, <1>6, EntryFields
    <2> QED
      BY <1>2, <1>5, <1>6, <2>1 DEF Rewritten, WholeAt, d, Opened
  <1>7. CASE ~Opened(t)
    BY <1>2, <1>3, <1>7 DEF Rewritten, WholeAt, d
  <1> QED
    BY <1>6, <1>7

\* So does OnClose, unless it has no checkpoint to keep.
LEMMA KeepEntry ==
    ASSUME IInv, NEW t \in Requests, turn[t].bridge = t, NEW e \in Entry, WholeAt(e),
           \A refs \in turn[t].latest : refs \subseteq blobs[t]
    PROVE  LET d == WithKept(e, t) IN
           /\ Rewritten(e, d, t)
           /\ \/ d.checkpoint = e.checkpoint /\ d.hash = e.hash /\ (turn[t].cancelled \/ turn[t].latest = {})
              \/ d.checkpoint = t /\ d.hash = Resumable(t) /\ turn[t].latest # {}
  <1> DEFINE s == Stored(e, t)
             w == WithBlobs(s, t)
             v == WithBlobs(e, t)
             R == UNION turn[t].latest
             h == Resumable(t)
             d == WithKept(e, t)
  <1>1. s \in Entry
    BY EntrySet
  <1>2. s.checkpoint = t /\ R \subseteq blobs[t]
    BY EntryFields
  <1>3. d = IF turn[t].cancelled \/ turn[t].latest = {} THEN v ELSE Referring(w, R, h)
    BY DEF Referring, WithKept
  <1>4. /\ v.checkpoint = e.checkpoint /\ v.refs = e.refs /\ v.resumed = e.resumed
        /\ v.hash = e.hash /\ v.blobs = e.blobs \cup blobs[t]
    BY EntryFields
  <1> HIDE DEF s, R, h, v, d
  <1>5. w \in Entry
    BY <1>1, EntrySet
  <1>6. w.checkpoint = s.checkpoint /\ w.blobs = s.blobs \cup blobs[t]
    BY <1>1, EntryFields
  <1> HIDE DEF w
  <1>7. CASE turn[t].cancelled \/ turn[t].latest = {}
    BY <1>3, <1>4, <1>7 DEF Rewritten, WholeAt, d
  <1>8. CASE ~turn[t].cancelled /\ turn[t].latest # {}
    <2>1. d.checkpoint = w.checkpoint /\ d.refs = R /\ d.hash = h /\ d.blobs = w.blobs
      BY <1>3, <1>5, <1>8, EntryFields
    <2> QED
      BY <1>2, <1>6, <1>8, <2>1 DEF Rewritten, WholeAt, d, h
  <1> QED
    BY <1>7, <1>8

\* What a stream has once a checkpoint has come.
LEMMA NotedFields ==
    ASSUME NEW T \in Turn, NEW l, NEW m
    PROVE  LET U == Noted(T, l, m) IN
           /\ U.bridge = T.bridge /\ U.calls = T.calls /\ U.latest = l
           /\ U.turnEnded = T.turnEnded /\ U.cancelled = T.cancelled
  BY DEF Turn, Noted

\* A checkpoint comes, of a bridge that is alive and so has not stopped.
LEMMA CheckpointResume ==
    ASSUME IInv, RInv, NEW p \in Procs, todo[p] # << >>, todo[p][1].do = "checkpoint",
           Checkpoint(p, todo[p][1].turn)
    PROVE  RInv'
  <1> DEFINE t == todo[p][1].turn
             b == turn[t].bridge
             l == IF Opened(t) THEN {blobs[t]} ELSE turn[t].latest
             m == turn[t].terminal \/ (Opened(t) /\ turn[t].turnEnded)
             U == Noted(turn[t], l, m)
  <1>1. /\ Pop(p) /\ turn' = [turn EXCEPT ![t] = U]
        /\ UNCHANGED <<current, pc, stored, taken, used, before, stopped, blobs, life, asked>>
        /\ entry' = IF current = None THEN entry
                    ELSE [entry EXCEPT ![current] = Checkpointed(entry[current], t)]
    BY DEF Checkpoint, Checkpointed, Noted, bridges, server, requests, history
  <1>2. /\ turn \in [Requests -> Turn] /\ t \in Requests /\ b \in Requests /\ b # None
        /\ entry \in [Requests -> Entry] /\ current \in Requests \cup {None}
    <2>1. t \in Requests /\ b \in Requests
      BY Whose DEF OfHeart
    <2> QED
      BY <2>1, SessionAssumption DEF IInv, Types, TurnTypes, SessionTypes
  <1>3. U.bridge = b /\ U.calls = turn[t].calls /\ U.latest = l
        /\ U.turnEnded = turn[t].turnEnded /\ U.cancelled = turn[t].cancelled
    <2>1. turn[t] \in Turn
      BY <1>2
    <2>2. U = Noted(turn[t], l, m) /\ b = turn[t].bridge
      OBVIOUS
    <2> HIDE DEF t, l, m, U, b
    <2> QED
      BY <2>1, <2>2, NotedFields
  <1>4. life[b] = "alive" /\ turn[b].bridge = b
    <2>1. todo[p] \in Seq(Instr) /\ 1 \in DOMAIN todo[p]
      <3>1. todo[p] \in Seq(Instr)
        BY DEF IInv, Types, TurnTypes
      <3> QED
        BY <3>1, Parts
    <2>2. life[b] = "alive"
      BY <2>1 DEF RInv, Callbacks, Placing
    <2> QED
      BY <1>2, <2>2 DEF IInv, Wired
  <1>5. CarriesOn
    BY <1>1, PopCarries
  <1>6. b = t <=> Opened(t)
    BY DEF Opened
  <1>7. l = IF Opened(t) THEN {blobs[t]} ELSE turn[t].latest
    OBVIOUS
  <1>8. \A o \in Requests :
            entry'[o] = entry[o] \/ (o = current /\ Rewritten(entry[o], entry'[o], b))
    <2>1. current # None => Rewritten(entry[current], Checkpointed(entry[current], t), b)
      BY <1>2, CheckpointEntry
    <2> HIDE DEF b, t
    <2> QED
      BY <1>1, <1>2, <2>1
  <1> HIDE DEF t, l, m, U, b
  <1>9. \A u \in Requests : turn'[u] = IF u = t THEN U ELSE turn[u]
    BY <1>1, <1>2
  <1>10. /\ \A u \in Requests : /\ turn'[u].bridge = turn[u].bridge /\ turn'[u].calls = turn[u].calls
                                /\ turn'[u].turnEnded = turn[u].turnEnded
                                /\ turn'[u].cancelled = turn[u].cancelled
                                /\ turn'[u].latest = IF u = t THEN l ELSE turn[u].latest
         /\ turn[t].bridge = b
    BY <1>3, <1>9 DEF b
  <1>11. Callbacks'
    <2>1. SameOpened
      BY <1>10 DEF SameOpened
    <2> QED
      BY <1>1, <1>5, <2>1, CallbacksOn DEF RInv
  <1>12. Firsts'
    BY <1>1, <1>2, <1>10, FirstsOn DEF RInv
  <1>13. ~Past(b) /\ ~Stopped(b)
    BY <1>2, <1>4 DEF Past, RInv, Stopping, StoppingAt
  <1>14. /\ Written' /\ Prompted' /\ \A r \in Requests : WholeAt(entry'[r])
         /\ \A c \in Requests : c # b /\ Settled(c) => Settled(c)'
    <2>1. b \notin stopped
      BY <1>13 DEF Stopped
    <2> QED
      BY <1>1, <1>2, <1>8, <2>1, Rewrites
  <1>15. ASSUME NEW c \in Requests PROVE StoppingAt(c)' /\ ClosingAt(c)'
    <2>1. (Stopped(c)' => Stopped(c)) /\ (Past(c)' <=> Past(c))
      <3>1. SameStopped
        BY <1>1 DEF SameStopped, RInv, Prompted, Stopped
      <3>2. SameOpened
        BY <1>10 DEF SameOpened
      <3> QED
        BY <1>1, <1>5, <3>1, <3>2, CarriedStops
    <2>2. StoppingAt(c) /\ ClosingAt(c)
      BY DEF RInv, Stopping, Closing
    <2>3. Past(c) /\ Settled(c) => Settled(c)'
      BY <1>13, <1>14
    <2> QED
      BY <1>10, <2>1, <2>2, <2>3, SettledOn
  <1>16. Sources'
    <2> SUFFICES ASSUME NEW o \in Requests, NEW c \in Requests, entry'[o].checkpoint = c
                 PROVE  turn'[c].bridge = c /\ (turn'[c].calls # {} \/ turn'[c].latest # {})
      BY DEF Sources
    <2>1. entry[o].checkpoint = c \/ c = b
      BY <1>8 DEF Rewritten
    <2>2. c # t \/ ~Opened(t) => turn'[c].latest = turn[c].latest
      BY <1>7, <1>10
    <2>3. CASE c = b /\ Opened(t)
      BY <1>4, <1>6, <1>7, <1>10, <2>3 DEF b
    <2>4. CASE c = b /\ ~Opened(t)
      <3>1. turn[t].bridge \notin {None, t}
        BY <1>2, <1>10, <2>4 DEF Opened
      <3>2. turn[b].calls # {}
        BY <1>2, <1>10, <3>1 DEF RInv, Firsts
      <3> QED
        BY <1>4, <1>10, <2>4, <3>2
    <2>5. CASE c # b
      <3>1. turn[c].bridge = c /\ (turn[c].calls # {} \/ turn[c].latest # {})
        BY <2>1, <2>5 DEF RInv, Sources
      <3>2. c = t => ~Opened(t)
        BY <1>10, <2>5 DEF Opened
      <3> QED
        BY <1>10, <2>2, <3>1, <3>2
    <2> QED
      BY <2>3, <2>4, <2>5
  <1>17. Whole'
    <2> SUFFICES ASSUME NEW r \in Requests
                 PROVE  /\ WholeAt(entry'[r]) /\ WholeAt(used'[r])
                        /\ \A refs \in turn'[r].latest : refs \subseteq blobs'[r]
                        /\ turn'[r].bridge = None => turn'[r].latest = {}
      BY DEF Whole, WholeAt
    <2>1. /\ WholeAt(used[r]) /\ \A refs \in turn[r].latest : refs \subseteq blobs[r]
          /\ turn[r].bridge = None => turn[r].latest = {}
      BY DEF RInv, Whole
    <2>2. CASE r = t
      BY <1>1, <1>2, <1>7, <1>10, <1>14, <2>1, <2>2
    <2>3. CASE r # t
      BY <1>1, <1>10, <1>14, <2>1, <2>3
    <2> QED
      BY <2>2, <2>3
  <1> QED
    BY <1>11, <1>12, <1>14, <1>15, <1>16, <1>17 DEF RInv, Stopping, Closing

\* OnClose keeps what the bridge sent: it is past by then, and nothing of it is to be
\* resumed if its turn has ended without a call.
LEMMA KeepResume ==
    ASSUME IInv, RInv, NEW p \in Procs, todo[p] # << >>, todo[p][1].do = "keep",
           Keep(p, todo[p][1].turn)
    PROVE  RInv'
  <1> DEFINE t == todo[p][1].turn
             s == todo[p]
             q == Tail(s)
  <1>1. /\ todo' = [todo EXCEPT ![p] = q]
        /\ UNCHANGED <<current, pc, stored, taken, used, before, stopped, blobs, life, asked, turn>>
        /\ entry' = IF current = None THEN entry
                    ELSE [entry EXCEPT ![current] = WithKept(entry[current], t)]
    BY DEF Keep, WithKept, Pop, bridges, server, requests, history
  <1>2. /\ turn \in [Requests -> Turn] /\ t \in Requests /\ todo \in [Procs -> Seq(Instr)]
        /\ entry \in [Requests -> Entry] /\ current \in Requests \cup {None} /\ t # None
    <2>1. t \in Requests
      BY Whose DEF OfHeart
    <2> QED
      BY <2>1, SessionAssumption DEF IInv, Types, TurnTypes, SessionTypes
  <1>3. /\ s \in Seq(Instr) /\ 1 \in DOMAIN s
        /\ \A i \in DOMAIN q : \E j \in DOMAIN s : q[i] = s[j]
        /\ \A j \in DOMAIN s : j # 1 => \E i \in DOMAIN q : q[i] = s[j]
    <2>1. s \in Seq(Instr)
      BY <1>2
    <2>2. /\ Len(s) \in Nat /\ Len(s) >= 1 /\ DOMAIN s = 1 .. Len(s)
          /\ DOMAIN q = 1 .. Len(s) - 1
          /\ \A i \in 1 .. Len(s) - 1 : q[i] = s[i + 1]
      BY <2>1, Parts
    <2> HIDE DEF q, s
    <2>3. \A i \in DOMAIN q : i + 1 \in DOMAIN s /\ q[i] = s[i + 1]
      BY <2>2
    <2>4. \A i \in DOMAIN s : i = 1 \/ (i - 1 \in DOMAIN q /\ q[i - 1] = s[i])
      BY <2>2
    <2> QED
      BY <2>1, <2>2, <2>3, <2>4
  <1>4. /\ turn[t].bridge = t /\ life[t] = "dead" /\ p \in {reader(t), closer(t)}
        /\ \E j \in DOMAIN s : Does(s[j], "final", t)
    BY <1>3 DEF RInv, Callbacks, Placing
  <1>5. \A i \in DOMAIN s : s[i].do \notin OfHeart => s[i].turn = t
    BY Whose DEF OfHeart, Program
  <1>6. Does(s[1], "keep", t)
    BY DEF Does
  <1>7. \A i \in DOMAIN s : s[i].do \notin {"checkpoint", "ended"}
    BY <1>4, <1>5 DEF RInv, Callbacks, Placing, OfHeart
  <1> HIDE DEF t
  <1>8. todo'[p] = q /\ \A w \in Procs : w # p => todo'[w] = todo[w]
    BY <1>1, <1>2
  <1>9. \A i \in DOMAIN todo'[p] : \E j \in DOMAIN s : todo'[p][i] = s[j]
    BY <1>3, <1>8
  <1>10. \E i \in DOMAIN todo'[p] : Does(todo'[p][i], "final", t)
    <2>1. PICK j \in DOMAIN s : Does(s[j], "final", t)
      BY <1>4
    <2>2. j # 1
      BY <1>6, <2>1 DEF Does
    <2> QED
      BY <1>3, <1>8, <2>1, <2>2
  <1>11. Callbacks'
    <2>1. /\ \A u \in Based : turn'[u].bridge = turn[u].bridge
          /\ \A c \in Requests : life[c] = "dead" => life'[c] = "dead"
          /\ \A c \in Requests : life[c] = "alive" /\ reader(c) # p => life'[c] = "alive"
      BY <1>1
    <2>2. Callbacks
      BY DEF RInv
    <2>3. ASSUME NEW i \in DOMAIN todo'[p]
          PROVE  /\ todo'[p][i].do \notin {"checkpoint", "ended"}
                 /\ todo'[p][i].do \in {"keep", "final"} => todo'[p][i].turn = t
      BY <1>5, <1>7, <1>9 DEF OfHeart
    <2>4. /\ \A i \in DOMAIN todo'[p] : todo'[p][i].do \notin {"checkpoint", "ended"}
          /\ \A i \in DOMAIN todo'[p] : \A u : todo'[p][i].do \in {"keep", "final"} /\ todo'[p][i].turn = u =>
               turn'[u].bridge = u /\ life'[u] = "dead" /\ p \in {reader(u), closer(u)}
          /\ \A i \in DOMAIN todo'[p] : todo'[p][i].do = "keep" =>
               \E j \in DOMAIN todo'[p] : Does(todo'[p][j], "final", todo'[p][i].turn)
      BY <1>1, <1>4, <1>10, <2>3
    <2> QED
      BY <1>8, <2>1, <2>2, <2>4, CallbacksSet
  <1>12. Firsts'
    BY <1>1, <1>2, FirstsOn DEF RInv
  <1>13. ~Past(t) /\ ~Stopped(t)
    <2>1. Keeps(t)
      BY <1>3, <1>6 DEF Keeps
    <2> QED
      BY <1>2, <2>1 DEF Past, RInv, Stopping, StoppingAt
  <1>14. current # None =>
           LET e == entry[current]
               d == entry'[current]
           IN  /\ Rewritten(e, d, t)
               /\ \/ d.checkpoint = e.checkpoint /\ d.hash = e.hash /\ (turn[t].cancelled \/ turn[t].latest = {})
                  \/ d.checkpoint = t /\ d.hash = Resumable(t) /\ turn[t].latest # {}
    <2> SUFFICES ASSUME current # None PROVE
           LET e == entry[current]
               d == WithKept(entry[current], t)
           IN  /\ Rewritten(e, d, t)
               /\ \/ d.checkpoint = e.checkpoint /\ d.hash = e.hash /\ (turn[t].cancelled \/ turn[t].latest = {})
                  \/ d.checkpoint = t /\ d.hash = Resumable(t) /\ turn[t].latest # {}
      BY <1>1, <1>2
    <2>1. entry[current] \in Entry /\ WholeAt(entry[current])
      BY <1>2 DEF RInv, Whole
    <2>2. \A refs \in turn[t].latest : refs \subseteq blobs[t]
      BY <1>2 DEF RInv, Whole
    <2> QED
      BY <1>2, <1>4, <2>1, <2>2, KeepEntry
  <1>15. \A o \in Requests : o # current => entry'[o] = entry[o]
    BY <1>1, <1>2
  <1> HIDE DEF q, s
  <1>16. /\ Written' /\ Prompted' /\ \A r \in Requests : WholeAt(entry'[r])
         /\ \A c \in Requests : c # t /\ Settled(c) => Settled(c)'
    <2>1. t \notin stopped
      BY <1>13 DEF Stopped
    <2>2. \A o \in Requests : entry'[o] = entry[o] \/ (o = current /\ Rewritten(entry[o], entry'[o], t))
      BY <1>1, <1>2, <1>14, <1>15
    <2> QED
      BY <1>1, <1>2, <2>1, <2>2, Rewrites
  <1>17. ASSUME NEW c \in Requests, c # t PROVE StoppingAt(c)' /\ ClosingAt(c)'
    <2>1. StoppingAt(c) /\ ClosingAt(c)
      BY DEF RInv, Stopping, Closing
    <2>2. Settled(c) => Settled(c)'
      BY <1>16, <1>17
    <2>3. \A i \in DOMAIN todo[p] : ~Does(todo[p][i], "keep", c)
      BY <1>5, <1>17 DEF Does, OfHeart, s
    <2>4. \A i \in DOMAIN todo'[p] : ~Does(todo'[p][i], "keep", c)
      BY <1>9, <2>3 DEF s
    <2>5. \A i \in DOMAIN todo'[p] : ~(IsStop(todo'[p][i]) /\ todo'[p][i].turn = c /\ turn[c].bridge = c)
      BY <1>5, <1>9, <1>17 DEF IsStop, OfHeart
    <2>6. (Stopped(c)' => Stopped(c)) /\ (Past(c)' <=> Past(c))
      BY <1>1, <1>8, <2>3, <2>4, <2>5, OthersStop
    <2> QED
      BY <1>1, <2>1, <2>2, <2>6, SettledOn
  <1>18. ASSUME NEW c \in Requests, c = t PROVE StoppingAt(c)' /\ ClosingAt(c)'
    <2>1. ~Stopped(c)'
      <3>1. ASSUME NEW w \in Procs, NEW i \in DOMAIN todo'[w],
                   IsStop(todo'[w][i]), todo'[w][i].turn = c, turn[c].bridge = c
            PROVE  Stopped(c)
        <4>1. PICK j \in DOMAIN todo[w] : todo'[w][i] = todo[w][j]
          BY <1>8, <1>9 DEF s
        <4> QED
          BY <3>1, <4>1 DEF Stopped
      <3>2. c \notin stopped' /\ turn' = turn /\ ~Stopped(c)
        BY <1>1, <1>13, <1>18 DEF Stopped
      <3> QED
        BY <3>1, <3>2 DEF Stopped, IsStop
    <2>2. ASSUME Ended(c) PROVE Settled(c)'
      <3>1. Resumable(t) = None /\ ~turn[t].cancelled /\ turn[t].calls = {}
        BY <1>18, <2>2 DEF Ended, Resumable
      <3>2. turn[t].latest = {} => \A o \in Requests : entry[o].checkpoint # t
        BY <1>2, <3>1 DEF RInv, Sources
      <3>3. current # None /\ entry'[current].checkpoint = c => entry'[current].hash = None
        BY <1>2, <1>14, <1>18, <3>1, <3>2
      <3>4. current' = current
        BY <1>1
      <3> QED
        BY <3>3, <3>4 DEF Settled
    <2>3. Ended(c)' <=> Ended(c)
      BY <1>1 DEF Ended
    <2> QED
      BY <2>1, <2>2, <2>3 DEF StoppingAt, ClosingAt
  <1>19. Sources'
    <2> SUFFICES ASSUME NEW o \in Requests, NEW c \in Requests, entry'[o].checkpoint = c
                 PROVE  turn[c].bridge = c /\ (turn[c].calls # {} \/ turn[c].latest # {})
      BY <1>1 DEF Sources
    <2>1. CASE entry[o].checkpoint = c
      BY <2>1 DEF RInv, Sources
    <2>2. CASE entry[o].checkpoint # c
      <3>1. o = current /\ current # None
        BY <1>1, <1>15, <2>2
      <3> QED
        BY <1>4, <1>14, <2>2, <3>1
    <2> QED
      BY <2>1, <2>2
  <1>20. Whole'
    <2>1. UNCHANGED <<used, turn, blobs>>
      BY <1>1
    <2> QED
      BY <1>16, <2>1 DEF RInv, Whole, WholeAt
  <1> QED
    BY <1>11, <1>12, <1>16, <1>17, <1>18, <1>19, <1>20 DEF RInv, Stopping, Closing

--------------------------------------------------------------------------------
(* RunChat takes the entry of the key, makes it ready, and copies it.          *)

\* A request takes the entry of the key, or one of its own that is new: a checkpoint of
\* a turn that has ended by then is settled there.
LEMMA StoreResume ==
    ASSUME IInv, History, RInv, NEW r \in Requests, Store(r), Goes(r, "prepare"),
           UNCHANGED <<entry, turn, todo, life, blobs, asked, taken, stopped, used>>,
           \/ pc[r] = "new" /\ before' = [before EXCEPT ![r] = stopped]
           \/ pc[r] \in {"cleaning", "relock"} /\ before' = before
    PROVE  RInv'
  <1>1. /\ stored \in [Requests -> Requests \cup {None}] /\ pc \in [Requests -> Stages]
        /\ current \in Requests \cup {None} /\ None \notin Requests
    BY SessionAssumption DEF IInv, Types, SessionTypes, TurnTypes
  <1>2. stored[r] = None /\ entry[r] = NoEntry /\ NoEntry.checkpoint = None
    BY DEF RInv, Written, NoEntry
  <1>3. /\ pc'[r] = "prepare" /\ \A u \in Requests : u # r => pc'[u] = pc[u]
        /\ \A u \in Requests : u # r => stored'[u] = stored[u]
    BY <1>1 DEF Goes, Store
  <1>4. \/ current = None /\ current' = r /\ stored'[r] = r
        \/ current # None /\ current' = current /\ stored'[r] = current
    BY <1>1 DEF Store
  <1>5. Callbacks' /\ Firsts' /\ Sources' /\ Whole'
    <2>1. Callbacks'
      BY DEF RInv, Callbacks, Placing, Does
    <2>2. Firsts'
      BY DEF RInv, Firsts
    <2>3. Sources'
      BY DEF RInv, Sources
    <2>4. Whole'
      BY DEF RInv, Whole, WholeAt
    <2> QED
      BY <2>1, <2>2, <2>3, <2>4
  <1>6. ASSUME NEW b \in Requests PROVE StoppingAt(b)' /\ ClosingAt(b)'
    <2>1. (Stopped(b)' <=> Stopped(b)) /\ (Past(b)' <=> Past(b)) /\ (Ended(b)' <=> Ended(b))
      <3>1. Stopped(b)' <=> Stopped(b)
        BY DEF Stopped, IsStop
      <3>2. Past(b)' <=> Past(b)
        BY DEF Past, Keeps, Does
      <3>3. Ended(b)' <=> Ended(b)
        BY DEF Ended
      <3> QED
        BY <3>1, <3>2, <3>3
    <2>2. Settled(b) => Settled(b)'
      BY <1>1, <1>2, <1>4 DEF Settled
    <2> QED
      BY <2>1, <2>2 DEF RInv, Stopping, Closing, StoppingAt, ClosingAt
  <1>7. Written'
    <2>1. current # None => stored[current] # None /\ current # r
      BY <1>2 DEF RInv, Written
    <2>2. current' # None => stored'[current'] # None
      BY <1>1, <1>3, <1>4, <2>1
    <2>3. ASSUME NEW u \in Requests
          PROVE  /\ stored'[u] = None => entry'[u] = NoEntry
                 /\ stored'[u] # None => stored'[stored'[u]] # None
                 /\ pc'[u] \in {"new", "cleaning", "taken", "relock"} => stored'[u] = None
      <3>1. CASE u = r
        BY <1>1, <1>3, <1>4, <2>1, <3>1
      <3>2. CASE u # r
        <4>1. /\ stored[u] = None => entry[u] = NoEntry
              /\ stored[u] # None => stored[stored[u]] # None
              /\ pc[u] \in {"new", "cleaning", "taken", "relock"} => stored[u] = None
          BY DEF RInv, Written
        <4>2. stored[u] # None => stored[u] # r /\ stored[u] \in Requests
          BY <1>1, <1>2, <4>1
        <4> QED
          BY <1>3, <3>2, <4>1, <4>2
      <3> QED
        BY <3>1, <3>2
    <2> QED
      BY <2>2, <2>3 DEF Written
  <1>8. Prompted'
    <2> SUFFICES ASSUME NEW u \in Requests PROVE PromptedAt(u)'
      BY DEF RInv, Prompted
    <2>1. PromptedAt(u) /\ stopped \subseteq Requests
      BY DEF RInv, Prompted
    <2>2. CASE u # r
      <3>1. before'[u] = before[u]
        BY <2>2 DEF History
      <3> QED
        BY <1>3, <2>1, <2>2, <3>1 DEF PromptedAt
    <2>3. CASE u = r
      <3>1. before'[r] \subseteq stopped
        BY <2>1, <2>3 DEF PromptedAt, History
      <3>2. entry[stored'[r]].checkpoint \in before'[r] => entry[stored'[r]].hash = None
        <4>1. CASE stored'[r] = r
          BY <1>1, <1>2, <2>1, <3>1, <4>1
        <4>2. CASE current # None /\ stored'[r] = current
          <5>1. ASSUME NEW b \in stopped, entry[current].checkpoint = b PROVE entry[current].hash = None
            <6>1. b \in Requests /\ Stopped(b)
              BY <2>1 DEF Stopped
            <6> QED
              BY <4>2, <5>1, <6>1 DEF RInv, Stopping, StoppingAt, Settled
          <5> QED
            BY <3>1, <4>2, <5>1
        <4> QED
          BY <1>4, <4>1, <4>2
      <3>3. used[r].checkpoint \notin before'[r]
        <4>1. CASE pc[r] = "new"
          BY <1>1, <1>2, <2>1, <2>3, <3>1, <4>1 DEF PromptedAt
        <4>2. CASE before' = before
          BY <2>1, <2>3, <4>2 DEF PromptedAt
        <4> QED
          BY <4>1, <4>2
      <3> QED
        BY <1>3, <2>3, <3>1, <3>2, <3>3 DEF PromptedAt
    <2> QED
      BY <2>2, <2>3
  <1> QED
    BY <1>5, <1>6, <1>7, <1>8 DEF RInv, Stopping, Closing

\* The sections of RunChat that do so.
LEMMA StoresResume ==
    ASSUME IInv, History, RInv, NEW r \in Requests, (Enter(r) /\ active = None) \/ Cleaned(r) \/ Relock(r)
    PROVE  RInv'
  <1>1. /\ Store(r) /\ Goes(r, "prepare")
        /\ UNCHANGED <<entry, turn, todo, life, blobs, asked, taken, stopped, used>>
        /\ \/ pc[r] = "new" /\ before' = [before EXCEPT ![r] = stopped]
           \/ pc[r] \in {"cleaning", "relock"} /\ before' = before
    BY DEF Enter, Cleaned, Relock, bridges, server, history
  <1> QED
    BY <1>1, StoreResume

\* What Prepare leaves of an entry that is not resumed.
LEMMA NewEntryFields ==
    ASSUME NEW r
    PROVE  LET d == [NoEntry EXCEPT !.id = r] IN
           d.checkpoint = None /\ d.refs = {} /\ d.hash = None
  BY DEF NoEntry

\* A checkpoint that goes along is of the request it is resumed for: such a one has not
\* ended when the request came.  Else the entry is emptied.
LEMMA PrepareResume ==
    ASSUME IInv, RInv, NEW r \in Requests, Prepare(r)
    PROVE  RInv'
  <1> DEFINE o == stored[r]
             e == entry[o]
             d == [NoEntry EXCEPT !.id = r]
             resume == e.checkpoint # None /\ e.hash = ask[r]
  <1>1. /\ pc[r] = "prepare" /\ Goes(r, "build")
        /\ UNCHANGED <<current, turn, todo, life, blobs, asked, taken, stopped, before, used, stored>>
        /\ entry' = IF resume THEN entry ELSE [entry EXCEPT ![o] = d]
    BY DEF Prepare, bridges, server, history
  <1>2. /\ stored \in [Requests -> Requests \cup {None}] /\ pc \in [Requests -> Stages]
        /\ current \in Requests \cup {None} /\ None \notin Requests
        /\ entry \in [Requests -> Entry] /\ ask[r] # None
    BY SessionAssumption DEF IInv, Types, SessionTypes, TurnTypes
  <1>3. o \in Requests /\ o # None /\ stored[o] # None
    BY <1>1, <1>2 DEF IInv, Placed, PlacedAt, RInv, Written
  <1>4. d.checkpoint = None /\ d.refs = {} /\ d.hash = None
    BY NewEntryFields
  <1>5. pc'[r] = "build" /\ \A u \in Requests : u # r => pc'[u] = pc[u]
    BY <1>1, <1>2 DEF Goes
  <1> HIDE DEF d
  <1>6. /\ \A u \in Requests : entry'[u] = entry[u] \/ (u = o /\ entry'[u] = d)
        /\ entry'[o] = d \/ (entry'[o] = e /\ e.hash # None)
    BY <1>1, <1>2, <1>3
  <1> HIDE DEF e, resume, o
  <1>7. Callbacks' /\ Firsts'
    <2>1. Callbacks'
      BY <1>1 DEF RInv, Callbacks, Placing, Does
    <2>2. Firsts'
      BY <1>1 DEF RInv, Firsts
    <2> QED
      BY <2>1, <2>2
  <1>8. Sources'
    BY <1>1, <1>2, <1>4, <1>6 DEF RInv, Sources
  <1>9. Whole'
    <2>1. \A u \in Requests : WholeAt(entry'[u])
      BY <1>4, <1>6 DEF RInv, Whole, WholeAt
    <2> QED
      BY <1>1, <2>1 DEF RInv, Whole, WholeAt
  <1>10. ASSUME NEW b \in Requests PROVE StoppingAt(b)' /\ ClosingAt(b)'
    <2>1. (Stopped(b)' <=> Stopped(b)) /\ (Past(b)' <=> Past(b)) /\ (Ended(b)' <=> Ended(b))
      <3>1. Stopped(b)' <=> Stopped(b)
        BY <1>1 DEF Stopped, IsStop
      <3>2. Past(b)' <=> Past(b)
        BY <1>1 DEF Past, Keeps, Does
      <3>3. Ended(b)' <=> Ended(b)
        BY <1>1 DEF Ended
      <3> QED
        BY <3>1, <3>2, <3>3
    <2>2. Settled(b) => Settled(b)'
      BY <1>1, <1>2, <1>4, <1>6 DEF Settled
    <2>3. turn' = turn
      BY <1>1
    <2> QED
      BY <2>1, <2>2, <2>3 DEF RInv, Stopping, Closing, StoppingAt, ClosingAt
  <1>11. Written'
    <2>1. \A u \in Requests : stored[u] = None => entry'[u] = NoEntry
      BY <1>3, <1>6 DEF RInv, Written
    <2>2. \A u \in Requests :
             pc'[u] \in {"new", "cleaning", "taken", "relock"} => stored[u] = None
      BY <1>5 DEF RInv, Written
    <2> QED
      BY <1>1, <2>1, <2>2 DEF RInv, Written
  <1>12. Prompted'
    <2> SUFFICES ASSUME NEW u \in Requests PROVE PromptedAt(u)'
      BY <1>1 DEF RInv, Prompted
    <2>1. PromptedAt(u) /\ before[u] \subseteq Requests
      BY DEF RInv, Prompted, PromptedAt
    <2>2. pc[u] \in {"prepare", "build"} => stored[u] \in Requests
      BY <1>2 DEF IInv, Placed, PlacedAt
    <2>3. CASE u # r
      <3>1. stored[u] \in Requests =>
              \/ entry'[stored[u]] = entry[stored[u]]
              \/ entry'[stored[u]].checkpoint = None /\ entry'[stored[u]].hash = None
        BY <1>4, <1>6
      <3> QED
        BY <1>1, <1>2, <1>5, <2>1, <2>2, <2>3, <3>1 DEF PromptedAt
    <2>4. CASE u = r
      <3>1. entry'[stored[r]].checkpoint \notin before[r]
        <4>1. CASE entry'[o] = d
          BY <1>2, <1>4, <2>1, <2>4, <4>1 DEF o
        <4>2. CASE entry'[o] = e /\ e.hash # None
          BY <1>1, <2>1, <2>4, <4>2 DEF PromptedAt, o, e
        <4> QED
          BY <1>6, <4>1, <4>2
      <3> QED
        BY <1>1, <1>5, <2>1, <2>4, <3>1 DEF PromptedAt
    <2> QED
      BY <2>3, <2>4
  <1> QED
    BY <1>7, <1>8, <1>9, <1>10, <1>11, <1>12 DEF RInv, Stopping, Closing

\* buildCursorRequest copies the entry: whatever checkpoint it has by then is of a turn that
\* had not ended when the request came, and is as whole as the entry was.
LEMMA BuildResume ==
    ASSUME IInv, History, RInv, NEW r \in Requests, Build(r)
    PROVE  RInv'
  <1> DEFINE e == entry[stored[r]]
  <1>1. /\ pc[r] = "build" /\ Goes(r, "open") /\ used' = [used EXCEPT ![r] = e]
        /\ blobs' = [blobs EXCEPT ![r] = e.blobs]
        /\ UNCHANGED <<entry, current, turn, todo, life, asked, taken, stopped, before, stored>>
    BY DEF Build, sessions, bridges
  <1>2. /\ stored[r] \in Requests /\ pc \in [Requests -> Stages] /\ turn[r].bridge = None
        /\ blobs \in [Requests -> SUBSET Blobs]
    BY <1>1 DEF IInv, Types, SessionTypes, TurnTypes, Placed, PlacedAt, Early
  <1>3. /\ used'[r] = e /\ \A u \in Requests : u # r => used'[u] = used[u] /\ blobs'[u] = blobs[u]
    BY <1>1, <1>2 DEF History
  <1>4. pc'[r] = "open" /\ \A u \in Requests : u # r => pc'[u] = pc[u]
    BY <1>1, <1>2 DEF Goes
  <1>5. WholeAt(e)
    BY <1>2 DEF RInv, Whole
  <1> HIDE DEF e
  <1>6. Callbacks' /\ Firsts' /\ Sources'
    <2>1. Callbacks'
      BY <1>1 DEF RInv, Callbacks, Placing, Does
    <2>2. Firsts'
      BY <1>1 DEF RInv, Firsts
    <2>3. Sources'
      BY <1>1 DEF RInv, Sources
    <2> QED
      BY <2>1, <2>2, <2>3
  <1>7. Stopping' /\ Closing'
    <2> SUFFICES ASSUME NEW b \in Requests PROVE StoppingAt(b)' /\ ClosingAt(b)'
      BY DEF Stopping, Closing
    <2>1. Stopped(b)' <=> Stopped(b)
      BY <1>1 DEF Stopped, IsStop
    <2>2. Past(b)' <=> Past(b)
      BY <1>1 DEF Past, Keeps, Does
    <2>3. (Ended(b)' <=> Ended(b)) /\ (Settled(b)' <=> Settled(b)) /\ turn' = turn
      BY <1>1 DEF Ended, Settled
    <2> QED
      BY <2>1, <2>2, <2>3 DEF RInv, Stopping, Closing, StoppingAt, ClosingAt
  <1>8. Written'
    <2>1. \A u \in Requests : pc'[u] \in {"new", "cleaning", "taken", "relock"} => pc'[u] = pc[u]
      BY <1>4
    <2> QED
      BY <1>1, <2>1 DEF RInv, Written
  <1>9. Whole'
    <2> SUFFICES ASSUME NEW u \in Requests
                 PROVE  /\ WholeAt(entry[u]) /\ WholeAt(used'[u])
                        /\ \A refs \in turn[u].latest : refs \subseteq blobs'[u]
                        /\ turn[u].bridge = None => turn[u].latest = {}
      BY <1>1 DEF Whole, WholeAt
    <2>1. /\ WholeAt(entry[u]) /\ WholeAt(used[u])
          /\ \A refs \in turn[u].latest : refs \subseteq blobs[u]
          /\ turn[u].bridge = None => turn[u].latest = {}
      BY DEF RInv, Whole
    <2> QED
      BY <1>2, <1>3, <1>5, <2>1
  <1>10. Prompted'
    <2> SUFFICES ASSUME NEW u \in Requests PROVE PromptedAt(u)'
      BY <1>1 DEF RInv, Prompted
    <2>1. PromptedAt(u)
      BY DEF RInv, Prompted
    <2>2. CASE u # r
      BY <1>1, <1>3, <1>4, <2>1, <2>2 DEF PromptedAt
    <2>3. CASE u = r
      <3>1. e.checkpoint \notin before[r]
        BY <1>1, <2>1, <2>3 DEF PromptedAt, e
      <3> QED
        BY <1>1, <1>3, <1>4, <2>1, <2>3, <3>1 DEF PromptedAt
    <2> QED
      BY <2>2, <2>3
  <1> QED
    BY <1>6, <1>7, <1>8, <1>9, <1>10 DEF RInv

--------------------------------------------------------------------------------
(* What is resumed, in every behaviour.                                        *)

\* No entry and no turn is there at first.
LEMMA InitResume ==
    ASSUME Init
    PROVE  History /\ RInv
  <1>1. None \notin Requests
    BY SessionAssumption
  <1>2. NoEntry \in Entry /\ NoEntry.checkpoint = None /\ NoEntry.refs = {}
    BY DEF NoEntry, Entry
  <1>3. NewTurn.bridge = None /\ NewTurn.calls = {} /\ NewTurn.latest = {}
    <2> DEFINE out == << >>
    <2> HIDE DEF out
    <2>1. NewTurn = [bridge |-> None, stream |-> FALSE, out |-> out, state |-> "open", by |-> None,
                     emitMu |-> None, calls |-> {}, turnEnded |-> FALSE, terminal |-> FALSE,
                     cancelled |-> FALSE, latest |-> {}, ends |-> 0]
      BY DEF NewTurn, out
    <2> QED
      BY <2>1
  <1>4. /\ \A o \in Requests : entry[o] = NoEntry /\ used[o] = NoEntry /\ before[o] = {}
        /\ \A o \in Requests : stored[o] = None /\ taken[o] = None /\ asked[o] = 0 /\ life[o] = "none"
        /\ \A o \in Requests : turn[o] = NewTurn /\ pc[o] = "new"
        /\ \A p \in Procs : todo[p] = << >>
        /\ stopped = {} /\ current = None
    BY DEF Init
  <1>5. \A p \in Procs : DOMAIN todo[p] = {}
    BY <1>4, CarryFacts
  <1>6. History
    BY <1>2 DEF Init, History
  <1>7. Callbacks /\ Firsts
    BY <1>1, <1>3, <1>4, <1>5 DEF Callbacks, Firsts
  <1>8. Stopping /\ Closing
    BY <1>4, <1>5 DEF Stopping, Closing, StoppingAt, ClosingAt, Stopped, Past
  <1>9. Sources /\ Written
    BY <1>1, <1>2, <1>4 DEF Sources, Written
  <1>10. Whole /\ Prompted
    BY <1>2, <1>3, <1>4 DEF Whole, WholeAt, Prompted, PromptedAt
  <1> QED
    BY <1>6, <1>7, <1>8, <1>9, <1>10 DEF RInv

\* A step of a program keeps the invariant.
LEMMA StepResume ==
    ASSUME IInv, RInv, NEW p \in Procs, Step(p)
    PROVE  RInv'
  <1>1. todo[p] # << >>
    BY DEF Step
  <1>2. CASE Lesser(p)
    <2>1. Beside
      BY <1>2, StepBeside DEF RInv
    <2> QED
      BY <2>1, BesideInv
  <1>3. CASE todo[p][1].do = "checkpoint"
    <2>1. Checkpoint(p, todo[p][1].turn)
      BY <1>3 DEF Step
    <2> QED
      BY <1>1, <1>3, <2>1, CheckpointResume
  <1>4. CASE todo[p][1].do = "keep"
    <2>1. Keep(p, todo[p][1].turn)
      BY <1>4 DEF Step
    <2> QED
      BY <1>1, <1>4, <2>1, KeepResume
  <1>5. CASE todo[p][1].do = "final"
    <2>1. Final(p, todo[p][1].turn, todo[p][1].chunk)
      BY <1>5 DEF Step
    <2> QED
      BY <1>1, <1>5, <2>1, FinalResume
  <1>6. CASE todo[p][1].do = "ended"
    <2>1. TurnEnded(p, todo[p][1].turn)
      BY <1>6 DEF Step
    <2>2. Beside
      BY <1>1, <1>6, <2>1, EndedBeside
    <2> QED
      BY <2>2, BesideInv
  <1> QED
    BY <1>2, <1>3, <1>4, <1>5, <1>6 DEF Lesser

\* So does what RunChat does.
LEMMA RunChatResume ==
    ASSUME IInv, BInv, History, RInv, NEW r \in Requests, RunChat(r)
    PROVE  RInv'
  <1>1. CASE Cleaned(r) \/ Relock(r)
    BY <1>1, StoresResume
  <1>2. CASE Prepare(r)
    BY <1>2, PrepareResume
  <1>3. CASE Build(r)
    BY <1>3, BuildResume
  <1>4. CASE SwapData(r)
    BY <1>4, SwapResume
  <1>5. CASE Open(r)
    <2>1. CASE Goes(r, "over") /\ UNCHANGED <<bridges, turn, watching, todo>>
      BY <1>5, <2>1, RunBeside, BesideInv
    <2>2. CASE Goes(r, "running")
      <3>1. ~Goes(r, "over")
        BY <2>2 DEF Goes, IInv, Types, TurnTypes
      <3> QED
        BY <1>5, <3>1, OpenResume
    <2> QED
      BY <1>5, <2>1, <2>2 DEF Open
  <1>6. CASE Taken(r) \/ StillPending(r) \/ SwapClose(r) \/ SendResults(r)
    BY <1>6, RunBeside, BesideInv
  <1> QED
    BY <1>1, <1>2, <1>3, <1>4, <1>5, <1>6 DEF RunChat

\* The history keeps its types: few steps write it.
LEMMA HistoryInv ==
    ASSUME IInv, History, stopped \subseteq Requests, [Next]_vars
    PROVE  History'
  <1>1. CASE UNCHANGED <<before, used>>
    BY <1>1 DEF History
  <1>2. CASE UNCHANGED vars
    BY <1>1, <1>2 DEF vars, history
  <1>3. ASSUME NEW p \in Procs, Step(p) PROVE UNCHANGED <<before, used>>
    BY <1>3 DEF Step, EmitSkip, EmitWait, EmitSend, FinishBegin, FinishEnd, FinishAgain, Heart,
                CloseHeart, Drop, Checkpoint, Keep, Final, TurnEnded, RegisterCall, history
  <1>4. ASSUME NEW r \in Requests, Enter(r) PROVE History'
    <2>1. before' = [before EXCEPT ![r] = stopped] /\ used' = used
      BY <1>4 DEF Enter
    <2> QED
      BY <2>1 DEF History
  <1>5. ASSUME NEW r \in Requests, Build(r) PROVE History'
    <2>1. used' = [used EXCEPT ![r] = entry[stored[r]]] /\ before' = before
      BY <1>5 DEF Build
    <2>2. entry[stored[r]] \in Entry
      BY <1>5 DEF Build, IInv, Types, SessionTypes, Placed, PlacedAt
    <2> QED
      BY <2>1, <2>2 DEF History
  <1>6. ASSUME NEW r \in Requests,
               \/ Cleaned(r) \/ Taken(r) \/ Relock(r) \/ Prepare(r) \/ Open(r)
               \/ StillPending(r) \/ SwapData(r) \/ SwapClose(r) \/ SendResults(r)
        PROVE  UNCHANGED <<before, used>>
    BY <1>6 DEF Cleaned, Taken, Relock, Prepare, Open, StillPending, SwapData, SwapClose,
                SendResults, history
  <1>7. ASSUME NEW r \in Requests,
               WatchDone(r) \/ WatchCtx(r) \/ Receive(r) \/ Answer(r) \/ Leave(r)
        PROVE  UNCHANGED <<before, used>>
    BY <1>7 DEF WatchDone, WatchCtx, Receive, Answer, Leave, history
  <1>8. ASSUME NEW b \in Requests, NEW kind \in Kinds, Deliver(b, kind)
        PROVE  UNCHANGED <<before, used>>
    BY <1>8 DEF Deliver, history
  <1>9. ASSUME NEW b \in Requests, NEW code \in Codes, Close(b, code)
        PROVE  UNCHANGED <<before, used>>
    BY <1>9 DEF Close, history
  <1>10. CASE Evict
    BY <1>1, <1>10 DEF Evict, history
  <1> QED
    BY <1>1, <1>2, <1>3, <1>4, <1>5, <1>6, <1>7, <1>8, <1>9, <1>10
       DEF Next, Goroutines, Environment, RunChat

\* So does every step.
LEMMA NextResume ==
    ASSUME IInv, BInv, History, RInv, [Next]_vars
    PROVE  RInv'
  <1>1. CASE UNCHANGED vars \/ Evict
    BY <1>1, EvictBeside, BesideInv
  <1>2. ASSUME NEW p \in Procs, Step(p) PROVE RInv'
    BY <1>2, StepResume
  <1>3. ASSUME NEW r \in Requests, RunChat(r) PROVE RInv'
    BY <1>3, RunChatResume
  <1>4. ASSUME NEW r \in Requests,
               WatchDone(r) \/ WatchCtx(r) \/ Receive(r) \/ Answer(r) \/ Leave(r)
        PROVE  RInv'
    BY <1>4, OthersBeside, BesideInv
  <1>5. ASSUME NEW r \in Requests, Enter(r) PROVE RInv'
    BY <1>5, EnterResume, StoresResume
  <1>6. ASSUME NEW b \in Requests, NEW kind \in Kinds, Deliver(b, kind) PROVE RInv'
    <2>1. CASE kind = "exec"
      BY <1>6, <2>1, CallResume
    <2>2. CASE kind \in {"ended", "checkpoint"}
      BY <1>6, <2>2, HearsBeside, BesideInv
    <2>3. CASE kind \notin {"exec", "ended", "checkpoint"}
      BY <1>6, <2>3, FrameBeside, BesideInv
    <2> QED
      BY <2>1, <2>2, <2>3
  <1>7. ASSUME NEW b \in Requests, NEW code \in Codes, Close(b, code) PROVE RInv'
    BY <1>7, CloseResume
  <1> QED
    BY <1>1, <1>2, <1>3, <1>4, <1>5, <1>6, <1>7 DEF Next, Goroutines, Environment

\* The inductive invariant: no checkpoint of a turn that has ended is left for a request to
\* resume, and an entry refers to the blobs it has.
THEOREM ResumeInvariance == Spec => [](History /\ RInv)
  <1>1. Init => History /\ RInv
    BY InitResume
  <1>2. IInv /\ BInv /\ (History /\ RInv) /\ [Next]_vars => (History /\ RInv)'
    BY NextResume, HistoryInv DEF RInv, Prompted
  <1> QED
    BY <1>1, <1>2, Invariance, BridgeInvariance, PTL DEF Spec

\* A prompt that was answered with stop starts over when it is sent again, whatever bridges
\* close and requests cross meanwhile, and a checkpoint that is resumed is whole, unless a
\* resumed turn stored it.
THEOREM ResumesWholeAlways == Spec => []ResumesWhole
  <1>1. RInv => ResumesWhole
    BY DEF RInv, Prompted, PromptedAt, Whole, WholeAt, ResumesWhole
  <1> QED
    BY <1>1, ResumeInvariance, PTL
================================================================================
