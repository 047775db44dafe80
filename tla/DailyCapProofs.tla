----------------------------- MODULE DailyCapProofs ----------------------------
(* Proofs about DailyCap: the bound on the overshoot of the daily cap, for    *)
(* any keys, caps, number of concurrent requests and tokens per request.     *)
EXTENDS DailyCap, FiniteSetTheorems, TLAPS

USE DEF TypeOK, vars

\* The requests under way for a key are finitely many, as every set of slots is.
LEMMA UnderWayFinite ==
    ASSUME NEW k \in Keys
    PROVE  /\ IsFiniteSet(UnderWay(k))
           /\ Cardinality(UnderWay(k)) \in Nat
           /\ Cardinality(UnderWay(k)) <= Cardinality(Requests)
           /\ Cardinality(Requests) \in Nat
  <1>1. UnderWay(k) \subseteq Requests
    BY DEF UnderWay
  <1> QED
    BY <1>1, SlotsAssumption, FS_Subset, FS_CardinalityType

\* Some slot exists, so one request's tokens are always part of the bound.
LEMMA RoomForOne == MaxTokens * Cardinality(Requests) \in Nat /\ MaxTokens * Cardinality(Requests) >= 1
  <1>1. Cardinality(Requests) \in Nat /\ Cardinality(Requests) # 0
    BY SlotsAssumption, FS_CardinalityType, FS_EmptySet
  <1>2. \A n \in Nat : n # 0 => MaxTokens * n \in Nat /\ MaxTokens * n >= 1
    BY CapAssumption
  <1> QED
    BY <1>1, <1>2

\* A request that ends leaves one request less under way for its key and touches
\* no other key.
LEMMA UnderWayFreed ==
    ASSUME TypeOK, NEW r \in Requests, pc[r] # "idle", Free(r), NEW k \in Keys
    PROVE  /\ pc[r] = "run" /\ key[r] = k =>
                Cardinality(UnderWay(k)') = Cardinality(UnderWay(k)) - 1
           /\ ~(pc[r] = "run" /\ key[r] = k) => UnderWay(k)' = UnderWay(k)
  <1>1. UnderWay(k)' = UnderWay(k) \ {r}
    BY DEF UnderWay, Free
  <1>2. CASE pc[r] = "run" /\ key[r] = k
    <2>1. r \in UnderWay(k)
      BY <1>2 DEF UnderWay
    <2> QED
      BY <1>1, <1>2, <2>1, UnderWayFinite, FS_RemoveElement, ZenonT(30)
  <1>3. CASE ~(pc[r] = "run" /\ key[r] = k)
    BY <1>1, <1>3 DEF UnderWay
  <1> QED
    BY <1>2, <1>3

\* Nothing is spent and nothing is under way at the start.
LEMMA InitIInv == Init => IInv
  <1> SUFFICES ASSUME Init PROVE IInv
    OBVIOUS
  <1>1. TypeOK
    BY DEF Init
  <1>2. ASSUME NEW k \in Keys
        PROVE  spent[k] + MaxTokens * Cardinality(UnderWay(k))
                 <= Cap[k] - 1 + MaxTokens * Cardinality(Requests)
    <2>1. UnderWay(k) = {}
      BY DEF Init, UnderWay
    <2>2. Cardinality(UnderWay(k)) = 0
      BY <2>1, FS_EmptySet
    <2>3. spent[k] = 0
      BY DEF Init
    <2>4. MaxTokens * 0 = 0
      BY CapAssumption
    <2> QED
      BY <2>2, <2>3, <2>4, RoomForOne, CapAssumption
  <1> QED
    BY <1>1, <1>2 DEF IInv, Reserved

\* Every step keeps what is spent and what is under way inside the bound: the
\* only step that adds to it is the admission, which finds the cap not reached.
LEMMA NextIInv == IInv /\ [Next]_vars => IInv'
  <1> SUFFICES ASSUME IInv, [Next]_vars PROVE IInv'
    OBVIOUS
  <1> USE DEF IInv
  <1> DEFINE Within(k) == spent[k] + MaxTokens * Cardinality(UnderWay(k))
                            <= Cap[k] - 1 + MaxTokens * Cardinality(Requests)
  <1>0. \A k \in Keys : Within(k)
    BY DEF Reserved
  <1>1. ASSUME NEW r \in Requests, NEW k \in Keys, Verify(r, k) PROVE IInv'
    <2>1. TypeOK'
      BY <1>1 DEF Verify
    <2>2. ASSUME NEW j \in Keys PROVE UnderWay(j)' = UnderWay(j)
      BY <1>1 DEF Verify, UnderWay
    <2> QED
      BY <1>0, <1>1, <2>1, <2>2 DEF Verify, Reserved
  <1>2. ASSUME NEW r \in Requests, Admit(r) PROVE IInv'
    <2>1. TypeOK'
      BY <1>2 DEF Admit
    <2>2. ASSUME NEW k \in Keys PROVE Within(k)'
      <3>1. CASE key[r] = k
        <4>1. UnderWay(k)' = UnderWay(k) \cup {r} /\ r \notin UnderWay(k)
          BY <1>2, <3>1 DEF Admit, UnderWay
        <4>2. Cardinality(UnderWay(k)') = Cardinality(UnderWay(k)) + 1
          BY <4>1, UnderWayFinite, FS_AddElement
        <4>3. UnderWay(k)' \subseteq Requests
          BY <2>1 DEF UnderWay
        <4>4. Cardinality(UnderWay(k)') <= Cardinality(Requests)
          BY <4>3, SlotsAssumption, FS_Subset
        <4>5. spent[k]' = spent[k] /\ spent[k] <= Cap[k] - 1
          BY <1>2, <3>1, CapAssumption DEF Admit
        <4>6. MaxTokens * Cardinality(UnderWay(k)') <= MaxTokens * Cardinality(Requests)
          <5>1. \A m, n \in Nat : m <= n => MaxTokens * m <= MaxTokens * n
            BY CapAssumption
          <5> QED
            BY <4>2, <4>4, <5>1, UnderWayFinite
        <4>7. /\ MaxTokens * Cardinality(UnderWay(k)') \in Nat
              /\ MaxTokens * Cardinality(Requests) \in Nat
          BY <4>2, UnderWayFinite, CapAssumption
        <4> QED
          BY <4>5, <4>6, <4>7, CapAssumption
      <3>2. CASE key[r] # k
        <4>1. UnderWay(k)' = UnderWay(k)
          BY <1>2, <3>2 DEF Admit, UnderWay
        <4> QED
          BY <1>0, <1>2, <4>1 DEF Admit
      <3> QED
        BY <3>1, <3>2
    <2> QED
      BY <2>1, <2>2 DEF Reserved
  <1>3. ASSUME NEW r \in Requests, Refuse(r) PROVE IInv'
    <2>1. TypeOK'
      BY <1>3 DEF Refuse, Free
    <2>2. ASSUME NEW k \in Keys PROVE UnderWay(k)' = UnderWay(k)
      BY <1>3, UnderWayFreed DEF Refuse
    <2> QED
      BY <1>0, <1>3, <2>1, <2>2 DEF Refuse, Reserved
  <1>4. ASSUME NEW r \in Requests, NEW tokens \in 0 .. MaxTokens, Record(r, tokens)
        PROVE IInv'
    <2>0. key[r] \in Keys
      BY <1>4 DEF Record
    <2>1. TypeOK'
      BY <1>4, <2>0, CapAssumption DEF Record, Free
    <2>2. ASSUME NEW k \in Keys PROVE Within(k)'
      <3>1. CASE key[r] = k
        <4>1. spent[k]' = spent[k] + tokens
          BY <1>4, <3>1 DEF Record
        <4>2. Cardinality(UnderWay(k)') = Cardinality(UnderWay(k)) - 1
          BY <1>4, <3>1, UnderWayFreed DEF Record
        <4>3. \A n \in Nat : MaxTokens * (n - 1) = MaxTokens * n - MaxTokens
          BY CapAssumption
        <4>4. MaxTokens * Cardinality(UnderWay(k)')
                = MaxTokens * Cardinality(UnderWay(k)) - MaxTokens
          BY <4>2, <4>3, UnderWayFinite
        <4>5. /\ MaxTokens * Cardinality(UnderWay(k)) \in Nat
              /\ MaxTokens * Cardinality(Requests) \in Nat
          BY UnderWayFinite, CapAssumption
        <4> QED
          BY <1>0, <4>1, <4>4, <4>5, CapAssumption
      <3>2. CASE key[r] # k
        <4>1. UnderWay(k)' = UnderWay(k) /\ spent[k]' = spent[k]
          BY <1>4, <3>2, UnderWayFreed DEF Record
        <4> QED
          BY <1>0, <4>1
      <3> QED
        BY <3>1, <3>2
    <2> QED
      BY <2>1, <2>2 DEF Reserved
  <1>5. ASSUME NEW r \in Requests, Unrecorded(r) PROVE IInv'
    <2>1. TypeOK'
      BY <1>5 DEF Unrecorded, Free
    <2>2. ASSUME NEW k \in Keys PROVE Within(k)'
      <3>1. spent[k]' = spent[k]
        BY <1>5 DEF Unrecorded
      <3>2. /\ Cardinality(UnderWay(k)') \in Nat
            /\ Cardinality(UnderWay(k)') <= Cardinality(UnderWay(k))
        <4>1. UnderWay(k)' \subseteq UnderWay(k)
          BY <1>5 DEF Unrecorded, Free, UnderWay
        <4> QED
          BY <4>1, UnderWayFinite, FS_Subset, FS_CardinalityType
      <3>3. \A m, n \in Nat : m <= n => MaxTokens * m <= MaxTokens * n
        BY CapAssumption
      <3>4. MaxTokens * Cardinality(UnderWay(k)') <= MaxTokens * Cardinality(UnderWay(k))
        BY <3>2, <3>3, UnderWayFinite
      <3>5. /\ MaxTokens * Cardinality(UnderWay(k)') \in Nat
            /\ MaxTokens * Cardinality(UnderWay(k)) \in Nat
            /\ MaxTokens * Cardinality(Requests) \in Nat
        BY <3>2, UnderWayFinite, CapAssumption
      <3> QED
        BY <1>0, <3>1, <3>4, <3>5, CapAssumption
    <2> QED
      BY <2>1, <2>2 DEF Reserved
  <1>6. ASSUME NEW k \in Keys, Revoke(k) PROVE IInv'
    BY <1>0, <1>6 DEF Revoke, Reserved, UnderWay
  <1>7. CASE Midnight
    <2>1. TypeOK'
      BY <1>7 DEF Midnight
    <2>2. ASSUME NEW k \in Keys PROVE Within(k)'
      <3>1. UnderWay(k)' = UnderWay(k) /\ spent[k]' = 0
        BY <1>7 DEF Midnight, UnderWay
      <3>2. /\ MaxTokens * Cardinality(UnderWay(k)) \in Nat
            /\ MaxTokens * Cardinality(Requests) \in Nat
        BY UnderWayFinite, CapAssumption
      <3> QED
        BY <1>0, <3>1, <3>2, CapAssumption
    <2> QED
      BY <2>1, <2>2 DEF Reserved
  <1>8. CASE UNCHANGED vars
    BY <1>0, <1>8 DEF Reserved, UnderWay
  <1> QED
    BY <1>1, <1>2, <1>3, <1>4, <1>5, <1>6, <1>7, <1>8 DEF Next

\* The strengthened invariant holds in every behaviour.
THEOREM Invariance == Spec => []IInv
  BY InitIInv, NextIInv, PTL DEF Spec

\* spent stays a sum of tokens, and a slot in use has a key, whatever the order of
\* checks, records, revocations and midnights.
THEOREM TypeCorrect == Spec => []TypeOK
  BY Invariance, PTL DEF IInv

\* However many requests pass the check of TodayTokensForKey together, a day ends at
\* most one full round of concurrent requests over the cap.
THEOREM OvershootBounded == Spec => []Overshoot
  <1>1. IInv => Overshoot
    <2> SUFFICES ASSUME IInv, NEW k \in Keys
                 PROVE  spent[k] <= Cap[k] - 1 + MaxTokens * Cardinality(Requests)
      BY DEF Overshoot
    <2>1. /\ MaxTokens * Cardinality(UnderWay(k)) \in Nat
          /\ MaxTokens * Cardinality(Requests) \in Nat
      BY UnderWayFinite, CapAssumption
    <2> QED
      BY <2>1, CapAssumption DEF IInv, Reserved
  <1> QED
    BY <1>1, Invariance, PTL
================================================================================
