---------------------------- MODULE OAuthLoginProofs ----------------------------
(* Proofs about OAuthLogin: a login makes at most one credential, for any      *)
(* logins, workers and delayed unbinds, and whatever the user reloads or pastes. *)
EXTENDS OAuthLogin, TLAPS

USE DEF vars, stored, listener, user, worker

\* The workers that have taken a login out of the map and are not done with it.
Holds(w) == pc[w] \in {"exchange", "unbind", "save"}

\* A login is new, pending, held by one worker or spent, and makes no credential
\* before it is spent.
Waiting ==
    /\ \A l \in pending : st[l] # "new"
    /\ \A l \in Logins : st[l] = "new" \/ l \in pending => saved[l] = 0

Taken ==
    \A w \in Workers : Holds(w) =>
        /\ got[w] \in Logins \ pending
        /\ st[got[w]] # "new" /\ saved[got[w]] = 0
        /\ \A v \in Workers \ {w} : Holds(v) => got[v] # got[w]

\* What is saved is the login that was taken: the provider has compared the two.
Verified == \A w \in Workers : pc[w] \in {"unbind", "save"} => code[w] = got[w]

IInv == TypeOK /\ Waiting /\ Taken /\ Verified /\ OneCredential

\* No login has begun.
LEMMA InitIInv == Init => IInv
  <1> SUFFICES ASSUME Init PROVE IInv
    OBVIOUS
  <1>1. TypeOK
    <2>1. /\ pending \subseteq Logins /\ before \in [Logins -> SUBSET Logins]
          /\ expired \subseteq Logins /\ codes \subseteq Logins /\ denied \subseteq Logins \ codes
      BY DEF Init
    <2>2. owner \in Logins \cup {None} /\ closing \in BOOLEAN /\ (closing => owner = None)
      BY DEF Init
    <2>3. timers \in 0 .. MaxTimers
      BY LoginsAssumption DEF Init
    <2>4. /\ pc \in [Workers -> {"idle", "take", "exchange", "unbind", "save"}]
          /\ code \in [Workers -> Logins \cup {None}] /\ state \in [Workers -> BOOLEAN]
          /\ got \in [Workers -> Logins \cup {None}] /\ paste \in [Workers -> BOOLEAN]
      BY DEF Init
    <2>5. /\ st \in [Logins -> {"new", "started", "listening", "busy"}]
          /\ saved \in [Logins -> Nat]
      BY DEF Init
    <2> QED
      BY <2>1, <2>2, <2>3, <2>4, <2>5 DEF TypeOK
  <1>2. Waiting /\ Taken /\ Verified /\ OneCredential
    BY DEF Init, Waiting, Taken, Holds, Verified, OneCredential
  <1> QED
    BY <1>1, <1>2 DEF IInv

\* A login enters the map only when it is started, and starts only once.
LEMMA StartStep ==
    ASSUME IInv, NEW l \in Logins, Start(l)
    PROVE  IInv'
  <1>1. TypeOK'
    BY DEF IInv, TypeOK, Start
  <1>2. Waiting'
    BY DEF IInv, TypeOK, Waiting, Start
  <1>3. Taken' /\ Verified' /\ OneCredential'
    BY DEF IInv, TypeOK, Taken, Holds, Verified, OneCredential, Start
  <1> QED
    BY <1>1, <1>2, <1>3 DEF IInv

\* What the listener, the clock, the browser and the provider do to a login that has
\* started takes none out of the map and completes none.
LEMMA AroundStep ==
    ASSUME IInv,
           \/ \E l \in Logins : Bind(l) \/ Expire(l) \/ SignIn(l) \/ Deny(l)
           \/ Favicon \/ DelayedUnbind \/ PortFreed
    PROVE  IInv'
  <1>1. TypeOK'
    <2> USE LoginsAssumption DEF IInv, TypeOK, DelayUnbind, Unbind
    <2>1. ASSUME NEW l \in Logins, Bind(l) PROVE TypeOK'
      BY <2>1 DEF Bind
    <2>2. ASSUME NEW l \in Logins, Expire(l) \/ SignIn(l) PROVE TypeOK'
      BY <2>2 DEF Expire, SignIn
    <2>3. ASSUME NEW l \in Logins, Deny(l) PROVE TypeOK'
      BY <2>3 DEF Deny
    <2>4. CASE Favicon
      BY <2>4 DEF Favicon
    <2>5. CASE DelayedUnbind
      BY <2>5 DEF DelayedUnbind
    <2>6. CASE PortFreed
      BY <2>6 DEF PortFreed
    <2> QED
      BY <2>1, <2>2, <2>3, <2>4, <2>5, <2>6
  <1>2. /\ UNCHANGED <<pending, pc, code, got, saved>>
        /\ \A l \in Logins : st'[l] = "new" <=> st[l] = "new"
    BY DEF IInv, TypeOK, Bind, Expire, SignIn, Deny, Favicon, DelayedUnbind, PortFreed
  <1>3. Waiting'
    BY <1>2 DEF IInv, TypeOK, Waiting
  <1>4. Taken' /\ Verified' /\ OneCredential'
    BY <1>2 DEF IInv, Taken, Holds, Verified, OneCredential
  <1> QED
    BY <1>1, <1>3, <1>4 DEF IInv

\* A worker that begins to complete a login holds none yet.
LEMMA CompleteStep ==
    ASSUME IInv, NEW l \in Logins, NEW w \in Workers, Callback(l, w) \/ Paste(l, w)
    PROVE  IInv'
  <1> USE DEF Callback, Paste, Complete, DelayUnbind
  <1>1. TypeOK'
    <2>1. CASE Callback(l, w)
      BY <2>1, LoginsAssumption DEF IInv, TypeOK
    <2>2. CASE Paste(l, w)
      BY <2>2 DEF IInv, TypeOK
    <2> QED
      BY <2>1, <2>2
  <1>2. Waiting' /\ OneCredential'
    BY DEF IInv, Waiting, OneCredential
  <1>3. Taken' /\ Verified'
    BY DEF IInv, TypeOK, Taken, Holds, Verified
  <1> QED
    BY <1>1, <1>2, <1>3 DEF IInv

\* Who takes a login out of the map is alone with it: nobody else can find it there,
\* and nobody has it from before.
LEMMA TakeStep ==
    ASSUME IInv, NEW w \in Workers, Take(w)
    PROVE  IInv'
  <1> USE DEF Take, Fresh, Newest
  <1>1. TypeOK'
    BY DEF IInv, TypeOK
  <1>2. Waiting' /\ OneCredential'
    BY DEF IInv, TypeOK, Waiting, OneCredential
  <1>3. Verified'
    BY DEF IInv, TypeOK, Verified
  <1>4. Taken'
    <2>1. CASE pc' = [pc EXCEPT ![w] = "idle"]
      BY <2>1 DEF IInv, TypeOK, Taken, Holds
    <2>2. ASSUME NEW l \in pending,
                 got' = [got EXCEPT ![w] = l], pc' = [pc EXCEPT ![w] = "exchange"],
                 pending' \subseteq pending \ {l}
          PROVE  Taken'
      BY <2>2 DEF IInv, TypeOK, Waiting, Taken, Holds
    <2> QED
      BY <2>1, <2>2 DEF IInv
  <1> QED
    BY <1>1, <1>2, <1>3, <1>4 DEF IInv

\* Only the code of the login that was taken gets past the provider.
LEMMA ExchangeStep ==
    ASSUME IInv, NEW w \in Workers, Exchange(w)
    PROVE  IInv'
  <1>1. TypeOK' /\ Waiting' /\ OneCredential'
    BY DEF IInv, TypeOK, Waiting, OneCredential, Exchange
  <1>2. Taken' /\ Verified'
    BY DEF IInv, TypeOK, Taken, Holds, Verified, Exchange, Accepts
  <1> QED
    BY <1>1, <1>2 DEF IInv

\* The paste handler closes the listener and keeps its login.
LEMMA PasteUnbindsStep ==
    ASSUME IInv, NEW w \in Workers, PasteUnbinds(w)
    PROVE  IInv'
  <1>1. TypeOK' /\ Waiting' /\ OneCredential'
    BY DEF IInv, TypeOK, Waiting, OneCredential, PasteUnbinds, Unbind
  <1>2. Taken' /\ Verified'
    BY DEF IInv, TypeOK, Taken, Holds, Verified, PasteUnbinds
  <1> QED
    BY <1>1, <1>2 DEF IInv

\* The login that is saved had made no credential, is nobody else's, and can be
\* neither started nor taken again.
LEMMA SaveStep ==
    ASSUME IInv, NEW w \in Workers, Save(w)
    PROVE  IInv'
  <1>1. /\ code[w] \in Logins \ pending /\ st[code[w]] # "new" /\ saved[code[w]] = 0
        /\ \A v \in Workers \ {w} : Holds(v) => got[v] # code[w]
    BY DEF IInv, Save, Taken, Holds, Verified
  <1>2. saved' = [saved EXCEPT ![code[w]] = 1]
    BY <1>1 DEF Save
  <1>3. TypeOK' /\ Waiting' /\ OneCredential'
    BY <1>1, <1>2 DEF IInv, TypeOK, Waiting, OneCredential, Save
  <1>4. Taken' /\ Verified'
    BY <1>1, <1>2 DEF IInv, TypeOK, Taken, Holds, Verified, Save
  <1> QED
    BY <1>3, <1>4 DEF IInv

\* Every step keeps the invariant.
LEMMA NextIInv == IInv /\ [Next]_vars => IInv'
  <1> SUFFICES ASSUME IInv, [Next]_vars PROVE IInv'
    OBVIOUS
  <1>1. CASE Next
    BY <1>1, StartStep, AroundStep, CompleteStep, TakeStep, ExchangeStep, PasteUnbindsStep,
       SaveStep DEF Next
  <1>2. CASE UNCHANGED vars
    BY <1>2 DEF IInv, TypeOK, Waiting, Taken, Holds, Verified, OneCredential
  <1> QED
    BY <1>1, <1>2

\* The strengthened invariant holds in every reachable state.
THEOREM Invariance == Spec => []IInv
  BY InitIInv, NextIInv, PTL DEF Spec

\* The variables keep their types, and while the listener of one login is being shut
\* down no other is taken for open.
THEOREM TypeCorrect == Spec => []TypeOK
  <1>1. IInv => TypeOK
    BY DEF IInv
  <1> QED
    BY <1>1, Invariance, PTL

\* A login makes at most one credential however often its callback is loaded, its URL
\* pasted, and its code brought to somebody else's entry: TakePending gives an entry away
\* once, and a state is never put back.
THEOREM OneCredentialAlways == Spec => []OneCredential
  <1>1. IInv => OneCredential
    BY DEF IInv
  <1> QED
    BY <1>1, Invariance, PTL
================================================================================
