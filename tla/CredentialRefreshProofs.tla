------------------------ MODULE CredentialRefreshProofs ------------------------
(***************************************************************************)
(* Proofs about CredentialRefresh for any number of credentials, requests,  *)
(* keepalive loops and fetches, any bound and any set of faults.            *)
(***************************************************************************)
EXTENDS CredentialRefresh, TLAPS

\* The inductive invariant.  NoTokenLost needs OneSaver (a second saver could put an
\* older token over the newest), and OneSaver needs Bounded (a token just issued is
\* newer than everything listed, held or stored).
IInv == TypeOK /\ Bounded /\ OneSaver /\ NoTokenLost

USE CredsAssumption, WorkersAssumption, BoundsAssumption DEF Gen, PC, Asking, Saving, Executing

--------------------------------------------------------------------------------
\* A worker that asks, saves or executes has a credential and an issued token in hand.
LEMMA InHand ==
  ASSUME NEW w \in Workers, TypeOK, Bounded, pc[w] \notin {"idle", "walk"}
  PROVE  cred[w] \in Creds /\ copy[w] \in 1 .. live[cred[w]]
  BY DEF TypeOK, Bounded

\* Before the first login nothing is stored, listed or held.
LEMMA InitIInv == Init => IInv
  BY DEF Init, IInv, TypeOK, Bounded, OneSaver, NoTokenLost, Pending

\* A login under a new id stores the first generation of its tokens.
LEMMA ConnectIInv == ASSUME NEW c \in Creds, IInv, Connect(c) PROVE IInv'
<1> USE DEF IInv, Connect, local
<1>1. TypeOK'
  BY DEF TypeOK
<1>2. Bounded'
  BY DEF TypeOK, Bounded
<1>3. OneSaver'
  BY DEF TypeOK, Bounded, OneSaver, Pending
<1>4. NoTokenLost'
  BY DEF TypeOK, Bounded, NoTokenLost, Pending
<1>5. QED
  BY <1>1, <1>2, <1>3, <1>4

\* A removal clears the row and excuses the credential; copies in flight stay bounded.
LEMMA RemoveIInv == ASSUME NEW c \in Creds, IInv, Remove(c) PROVE IInv'
<1> USE DEF IInv, Remove, local
<1>1. TypeOK'
  BY DEF TypeOK
<1>2. Bounded'
  BY DEF TypeOK, Bounded
<1>3. OneSaver'
  BY DEF TypeOK, Bounded, OneSaver, Pending
<1>4. NoTokenLost'
  BY DEF TypeOK, NoTokenLost, Pending
<1>5. QED
  BY <1>1, <1>2, <1>3, <1>4

\* The clock changes no token.
LEMMA AgeIInv == ASSUME NEW c \in Creds, IInv, Age(c) PROVE IInv'
  BY DEF IInv, Age, local, TypeOK, Bounded, OneSaver, NoTokenLost, Pending

\* What is listed is what is stored, so a saver in the meantime stays the only one.
LEMMA ListRowsIInv ==
  ASSUME NEW w \in Workers, NEW S \in SUBSET Creds, IInv, ListRows(w, S)
  PROVE  IInv'
<1> USE DEF IInv, ListRows, vault
<1>1. TypeOK'
  BY DEF TypeOK
<1>2. Bounded'
  BY DEF TypeOK, Bounded
<1>3. OneSaver'
  BY DEF TypeOK, Bounded, OneSaver, Pending
<1>4. NoTokenLost'
  BY DEF TypeOK, NoTokenLost, Pending
<1>5. QED
  BY <1>1, <1>2, <1>3, <1>4

\* Dropping a listed copy holds nothing new.
LEMMA SkipIInv == ASSUME NEW w \in Workers, NEW c \in Creds, IInv, Skip(w, c) PROVE IInv'
<1> USE DEF IInv, Skip, vault
<1>1. TypeOK'
  BY DEF TypeOK, Bounded
<1>2. Bounded'
  BY DEF TypeOK, Bounded
<1>3. OneSaver'
  BY DEF TypeOK, Bounded, OneSaver, Pending
<1>4. NoTokenLost'
  BY DEF TypeOK, Bounded, OneSaver, NoTokenLost, Pending
<1>5. QED
  BY <1>1, <1>2, <1>3, <1>4

\* A listed copy moves into the hand; one that asks or executes is no saver.
LEMMA TakeIInv == ASSUME NEW w \in Workers, NEW c \in Creds, IInv, Take(w, c) PROVE IInv'
<1> USE DEF IInv, Take, FirstStep, vault
<1>1. TypeOK'
  BY DEF TypeOK, Bounded
<1>2. Bounded'
  BY DEF TypeOK, Bounded
<1>3. OneSaver'
  BY DEF TypeOK, Bounded, OneSaver, Pending
<1>4. NoTokenLost'
  BY DEF TypeOK, Bounded, OneSaver, NoTokenLost, Pending
<1>5. QED
  BY <1>1, <1>2, <1>3, <1>4

\* An empty list is given up.
LEMMA WalkEndsIInv == ASSUME NEW w \in Workers, IInv, WalkEnds(w) PROVE IInv'
<1> USE DEF IInv, WalkEnds, vault
<1>1. TypeOK'
  BY DEF TypeOK, Bounded
<1>2. Bounded'
  BY DEF TypeOK, Bounded
<1>3. OneSaver'
  BY DEF TypeOK, Bounded, OneSaver, Pending
<1>4. NoTokenLost'
  BY DEF TypeOK, Bounded, OneSaver, NoTokenLost, Pending
<1>5. QED
  BY <1>1, <1>2, <1>3, <1>4

--------------------------------------------------------------------------------
(* The provider's answers: an accepted refresh issues a token newer than       *)
(* everything there is, and shows that nobody else was about to save.          *)

\* An accepted refresh issues a token newer than all copies: its worker is the only saver.
LEMMA MintIInv == ASSUME NEW w \in Workers, IInv, Mint(w) PROVE IInv'
<1> USE DEF IInv, Mint, Accepts, SaveStep
<1>1. TypeOK'
  <2>1. cred[w] \in Creds /\ copy[w] \in 1 .. live[cred[w]]
    BY InHand
  <2>2. copy' \in [Workers -> Nat] /\ live' \in [Creds -> Nat]
    BY <2>1 DEF TypeOK
  <2> QED
    BY <2>1, <2>2 DEF TypeOK
<1>2. Bounded'
  BY DEF TypeOK, Bounded
<1>3. OneSaver'
  BY DEF TypeOK, Bounded, OneSaver, Pending
<1>4. NoTokenLost'
  BY DEF TypeOK, Bounded, OneSaver, NoTokenLost, Pending
<1>5. QED
  BY <1>1, <1>2, <1>3, <1>4

\* An unread answer is a fault: the credential is excused, nobody else was saving.
LEMMA MintUnreadIInv == ASSUME NEW w \in Workers, IInv, MintUnread(w) PROVE IInv'
<1> USE DEF IInv, MintUnread, Accepts, SaveStep
<1>0. cred[w] \in Creds /\ copy[w] \in 1 .. live[cred[w]]
  BY InHand DEF Accepts
<1>1. CASE NextCopy(w)
  <2> USE <1>0, <1>1 DEF NextCopy
  <2>1. TypeOK'
    BY DEF TypeOK
  <2>2. Bounded'
    BY DEF TypeOK, Bounded
  <2>3. OneSaver'
    BY DEF TypeOK, Bounded, OneSaver, Pending
  <2>4. NoTokenLost'
    BY DEF TypeOK, Bounded, OneSaver, NoTokenLost, Pending
  <2>5. QED
    BY <2>1, <2>2, <2>3, <2>4
<1>2. CASE w \notin Keepers /\ pc' = [pc EXCEPT ![w] = SaveStep(w)] /\ UNCHANGED <<cred, copy>>
  <2>1. TypeOK'
    BY <1>0, <1>2 DEF TypeOK
  <2>2. Bounded'
    BY <1>0, <1>2 DEF TypeOK, Bounded
  <2>3. OneSaver'
    BY <1>0, <1>2 DEF TypeOK, Bounded, OneSaver, Pending
  <2>4. NoTokenLost'
    BY <1>0, <1>2 DEF TypeOK, Bounded, OneSaver, NoTokenLost, Pending
  <2>5. QED
    BY <2>1, <2>2, <2>3, <2>4
<1>3. QED
  BY <1>1, <1>2 DEF MintUnread

\* A lost answer is a fault: the credential is excused, nobody else was saving.
LEMMA MintLostIInv == ASSUME NEW w \in Workers, IInv, MintLost(w) PROVE IInv'
<1> USE DEF IInv, MintLost, Accepts
<1>0. cred[w] \in Creds /\ copy[w] \in 1 .. live[cred[w]]
  BY InHand DEF Accepts
<1>1. CASE NextCopy(w)
  <2> USE <1>0, <1>1 DEF NextCopy
  <2>1. TypeOK'
    BY DEF TypeOK
  <2>2. Bounded'
    BY DEF TypeOK, Bounded
  <2>3. OneSaver'
    BY DEF TypeOK, Bounded, OneSaver, Pending
  <2>4. NoTokenLost'
    BY DEF TypeOK, Bounded, OneSaver, NoTokenLost, Pending
  <2>5. QED
    BY <2>1, <2>2, <2>3, <2>4
<1>2. CASE pc' = [pc EXCEPT ![w] = "exec1"] /\ UNCHANGED <<cred, copy>>
  <2>1. TypeOK'
    BY <1>0, <1>2 DEF TypeOK
  <2>2. Bounded'
    BY <1>0, <1>2 DEF TypeOK, Bounded
  <2>3. OneSaver'
    BY <1>0, <1>2 DEF TypeOK, Bounded, OneSaver, Pending
  <2>4. NoTokenLost'
    BY <1>0, <1>2, SMTT(20) DEF TypeOK, Bounded, OneSaver, NoTokenLost, Pending
  <2>5. QED
    BY <2>1, <2>2, <2>3, <2>4
<1>3. QED
  BY <1>1, <1>2 DEF AfterError

\* A refused refresh issues nothing and nobody starts to save.
LEMMA RefuseIInv == ASSUME NEW w \in Workers, IInv, Refuse(w) PROVE IInv'
<1> USE DEF IInv, Refuse, vault
<1>0. cred[w] \in Creds /\ copy[w] \in 1 .. live[cred[w]]
  BY InHand
<1>1. CASE NextCopy(w)
  <2> USE <1>0, <1>1 DEF NextCopy
  <2>1. TypeOK'
    BY DEF TypeOK
  <2>2. Bounded'
    BY DEF TypeOK, Bounded
  <2>3. OneSaver'
    BY DEF TypeOK, Bounded, OneSaver, Pending
  <2>4. NoTokenLost'
    BY DEF TypeOK, Bounded, OneSaver, NoTokenLost, Pending
  <2>5. QED
    BY <2>1, <2>2, <2>3, <2>4
<1>2. CASE pc' = [pc EXCEPT ![w] = "exec1"] /\ UNCHANGED <<cred, copy>>
  <2>1. TypeOK'
    BY <1>0, <1>2 DEF TypeOK
  <2>2. Bounded'
    BY <1>0, <1>2 DEF TypeOK, Bounded
  <2>3. OneSaver'
    BY <1>0, <1>2 DEF TypeOK, Bounded, OneSaver, Pending
  <2>4. NoTokenLost'
    BY <1>0, <1>2 DEF TypeOK, Bounded, OneSaver, NoTokenLost, Pending
  <2>5. QED
    BY <2>1, <2>2, <2>3, <2>4
<1>3. QED
  BY <1>1, <1>2 DEF AfterError


--------------------------------------------------------------------------------
(* Saving and executing.                                                   *)

\* A save of the only saver brings the row to its copy, and the saver is done.
LEMMA SaveIInv == ASSUME NEW w \in Workers, IInv, Save(w) PROVE IInv'
<1> USE DEF IInv, Save
<1>0. cred[w] \in Creds /\ copy[w] \in 1 .. live[cred[w]]
  BY InHand
<1>1. row'[cred[w]] = copy[w]
  BY <1>0 DEF TypeOK
<1>2. ASSUME NEW c \in Rotating \ excused, live[c] # 0, c = cred[w]
      PROVE  row'[c] = live[c]
  <2>1. Pending(w, c)
    BY <1>2 DEF Pending
  <2>2. row[c] # live[c]
    BY <1>2, <2>1 DEF OneSaver, TypeOK
  <2>3. PICK v \in Workers : Pending(v, c) /\ copy[v] = live[c]
    BY <1>2, <2>2 DEF NoTokenLost
  <2>4. v = w
    BY <1>2, <2>1, <2>3 DEF OneSaver, Pending
  <2>5. QED
    BY <1>1, <1>2, <2>3, <2>4
<1>3. CASE NextCopy(w)
  <2> USE <1>0, <1>3 DEF NextCopy
  <2>1. TypeOK'
    BY DEF TypeOK
  <2>2. Bounded'
    BY DEF TypeOK, Bounded
  <2>3. OneSaver'
    BY DEF TypeOK, Bounded, OneSaver, Pending
  <2>4. NoTokenLost'
    BY <1>2 DEF TypeOK, NoTokenLost, Pending
  <2>5. QED
    BY <2>1, <2>2, <2>3, <2>4
<1>4. CASE /\ pc' = [pc EXCEPT ![w] = IF pc[w] = "save1" THEN "exec1" ELSE "exec2"]
           /\ UNCHANGED <<cred, copy>>
  <2>1. TypeOK'
    BY <1>0, <1>4 DEF TypeOK
  <2>2. Bounded'
    BY <1>0, <1>4 DEF TypeOK, Bounded
  <2>3. OneSaver'
    BY <1>0, <1>4 DEF TypeOK, Bounded, OneSaver, Pending
  <2>4. NoTokenLost'
    BY <1>0, <1>2, <1>4 DEF TypeOK, NoTokenLost, Pending
  <2>5. QED
    BY <2>1, <2>2, <2>3, <2>4
<1>5. QED
  BY <1>3, <1>4 DEF AfterSave

\* A save that fails is a fault: the credential is excused.
LEMMA SaveFailsIInv == ASSUME NEW w \in Workers, IInv, SaveFails(w) PROVE IInv'
<1> USE DEF IInv, SaveFails, vault
<1>0. cred[w] \in Creds /\ copy[w] \in 1 .. live[cred[w]]
  BY InHand
<1>1. CASE NextCopy(w)
  <2> USE <1>0, <1>1 DEF NextCopy
  <2>1. TypeOK'
    BY DEF TypeOK
  <2>2. Bounded'
    BY DEF TypeOK, Bounded
  <2>3. OneSaver'
    BY DEF TypeOK, Bounded, OneSaver, Pending
  <2>4. NoTokenLost'
    BY DEF TypeOK, Bounded, OneSaver, NoTokenLost, Pending
  <2>5. QED
    BY <2>1, <2>2, <2>3, <2>4
<1>2. CASE /\ pc' = [pc EXCEPT ![w] = IF pc[w] = "save1" THEN "exec1" ELSE "exec2"]
           /\ UNCHANGED <<cred, copy>>
  <2>1. TypeOK'
    BY <1>0, <1>2 DEF TypeOK
  <2>2. Bounded'
    BY <1>0, <1>2 DEF TypeOK, Bounded
  <2>3. OneSaver'
    BY <1>0, <1>2 DEF TypeOK, Bounded, OneSaver, Pending
  <2>4. NoTokenLost'
    BY <1>0, <1>2 DEF TypeOK, Bounded, OneSaver, NoTokenLost, Pending
  <2>5. QED
    BY <2>1, <2>2, <2>3, <2>4
<1>3. QED
  BY <1>1, <1>2 DEF AfterSave

\* A request or fetch that is over holds nothing.
LEMMA FinishIInv == ASSUME NEW w \in Workers, IInv, Finish(w) PROVE IInv'
<1> USE DEF IInv, Finish, vault
<1>1. TypeOK'
  BY DEF TypeOK, Bounded
<1>2. Bounded'
  BY DEF TypeOK, Bounded
<1>3. OneSaver'
  BY DEF TypeOK, Bounded, OneSaver, Pending
<1>4. NoTokenLost'
  BY DEF TypeOK, Bounded, OneSaver, NoTokenLost, Pending
<1>5. QED
  BY <1>1, <1>2, <1>3, <1>4

\* A 401 sends a request to refresh; only an identity credential saves at once.
LEMMA UnauthorizedIInv == ASSUME NEW w \in Workers, IInv, Unauthorized(w) PROVE IInv'
<1> USE DEF IInv, Unauthorized, vault
<1>1. TypeOK'
  BY DEF TypeOK, Bounded
<1>2. Bounded'
  BY DEF TypeOK, Bounded
<1>3. OneSaver'
  BY DEF TypeOK, Bounded, OneSaver, Pending
<1>4. NoTokenLost'
  BY DEF TypeOK, Bounded, OneSaver, NoTokenLost, Pending
<1>5. QED
  BY <1>1, <1>2, <1>3, <1>4

\* A request that takes its next credential holds nothing.
LEMMA TryNextIInv == ASSUME NEW w \in Workers, IInv, TryNext(w) PROVE IInv'
<1> USE DEF IInv, TryNext, NextCopy, vault
<1>1. TypeOK'
  BY DEF TypeOK, Bounded
<1>2. Bounded'
  BY DEF TypeOK, Bounded
<1>3. OneSaver'
  BY DEF TypeOK, Bounded, OneSaver, Pending
<1>4. NoTokenLost'
  BY DEF TypeOK, Bounded, OneSaver, NoTokenLost, Pending
<1>5. QED
  BY <1>1, <1>2, <1>3, <1>4

\* A crash drops all copies and excuses what was about to be saved.
LEMMA CrashIInv == ASSUME IInv, Crash PROVE IInv'
<1> USE DEF IInv, Crash, vault
<1>1. TypeOK'
  BY DEF TypeOK, Bounded
<1>2. Bounded'
  BY DEF TypeOK, Bounded
<1>3. OneSaver'
  BY DEF TypeOK, Bounded, OneSaver, Pending
<1>4. NoTokenLost'
  BY DEF TypeOK, Bounded, OneSaver, NoTokenLost, Pending
<1>5. QED
  BY <1>1, <1>2, <1>3, <1>4

--------------------------------------------------------------------------------
\* One step of anybody preserves the invariant.
LEMMA NextIInv == IInv /\ [Next]_vars => IInv'
<1>1. CASE UNCHANGED vars
  BY <1>1 DEF vars, IInv, TypeOK, Bounded, OneSaver, NoTokenLost, Pending
<1>2. ASSUME IInv, Panel PROVE IInv'
  BY <1>2, ConnectIInv, RemoveIInv, AgeIInv DEF Panel
<1>3. ASSUME IInv, NEW w \in Workers, List(w) PROVE IInv'
  <2>1. \A c \in Creds : {c} \in SUBSET Creds
    OBVIOUS
  <2>2. QED
    BY <1>3, <2>1, ListRowsIInv DEF List
<1>4. ASSUME IInv, NEW w \in Workers, Answer(w) PROVE IInv'
  BY <1>4, MintIInv, MintUnreadIInv, MintLostIInv, RefuseIInv DEF Answer
<1>5. ASSUME IInv, NEW w \in Workers, Proceed(w) PROVE IInv'
  BY <1>4, <1>5, SkipIInv, TakeIInv, WalkEndsIInv, SaveIInv, SaveFailsIInv,
     FinishIInv, UnauthorizedIInv, TryNextIInv DEF Proceed
<1>6. QED
  BY <1>1, <1>2, <1>3, <1>5, CrashIInv DEF Next, Step

\* The conjunction of the invariants is inductive, hence invariant.
THEOREM Invariance == Spec => []IInv
  BY InitIInv, NextIInv, PTL DEF Spec

\* The variables keep their types whatever the workers, the panel and the faults do.
THEOREM TypeCorrect == Spec => []TypeOK
<1>1. IInv => TypeOK
  BY DEF IInv
<1>2. QED
  BY <1>1, Invariance, PTL

\* At most one worker is about to save a rotated credential, and nothing else that is
\* stored, listed or held is as new: List, Refresh and Save need no lock for that.
THEOREM OneSaverAlways == Spec => []OneSaver
<1>1. IInv => OneSaver
  BY DEF IInv
<1>2. QED
  BY <1>1, Invariance, PTL

\* The newest token is in the row or with the worker about to save it, unless a fault
\* or a removal touched the credential.
THEOREM NoTokenLostAlways == Spec => []NoTokenLost
<1>1. IInv => NoTokenLost
  BY DEF IInv
<1>2. QED
  BY <1>1, Invariance, PTL

\* Only Save overwrites a row, and then nothing newer is in it.
LEMMA StepNoStaleOverwrite ==
  ASSUME IInv, [Next]_vars, NEW c \in Rotating
  PROVE  row'[c] # 0 => row'[c] >= row[c]
<1> USE DEF IInv
<1>1. ASSUME NEW w \in Workers, Save(w) PROVE row'[c] >= row[c]
  <2>1. CASE cred[w] = c
    BY <1>1, <2>1 DEF Save, TypeOK, OneSaver, Pending
  <2>2. CASE cred[w] # c
    BY <1>1, <2>2 DEF Save, TypeOK
  <2>3. QED
    BY <2>1, <2>2
<1>2. ASSUME NEW d \in Creds, Connect(d) PROVE row'[c] >= row[c]
  BY <1>2 DEF Connect, TypeOK, Bounded
<1>3. ASSUME NEW d \in Creds, Remove(d) PROVE row'[c] # 0 => row'[c] >= row[c]
  BY <1>3 DEF Remove, TypeOK
<1>4. ASSUME UNCHANGED row PROVE row'[c] >= row[c]
  BY <1>4 DEF TypeOK
<1>5. ASSUME NEW w \in Workers, Step(w), ~Save(w) PROVE UNCHANGED row
  BY <1>5 DEF Step, List, ListRows, Proceed, Skip, Take, WalkEnds, Answer, Mint, MintUnread,
     MintLost, Refuse, SaveFails, Finish, Unauthorized, TryNext, vault
<1>6. QED
  BY <1>1, <1>2, <1>3, <1>4, <1>5 DEF Next, Panel, Age, Crash, vars, vault

\* A save never puts an older token of a rotating credential over a newer one.
THEOREM NoStaleOverwriteAlways == Spec => NoStaleOverwrite
<1>1. IInv /\ [Next]_vars => [\A c \in Rotating : row'[c] # 0 => row'[c] >= row[c]]_vars
  BY StepNoStaleOverwrite
<1>2. QED
  BY <1>1, Invariance, PTL DEF Spec, NoStaleOverwrite

\* Who has no copy of a removed credential can only get one from the table.
LEMMA StepSettled ==
  ASSUME IInv, [Next]_vars, NEW c \in Creds, Settled(c)
  PROVE  Settled(c)'
<1> USE DEF IInv, Settled, Held, TypeOK
<1>1. ASSUME NEW d \in Creds, Connect(d) \/ Remove(d) \/ Age(d) PROVE Settled(c)'
  BY <1>1 DEF Connect, Remove, Age, local
<1>2. CASE Crash
  BY <1>2 DEF Crash, vault
<1>3. ASSUME NEW w \in Workers, List(w) PROVE Settled(c)'
  BY <1>3 DEF List, ListRows, vault
<1>4. ASSUME NEW w \in Workers, NEW d \in Creds, Skip(w, d) \/ Take(w, d) PROVE Settled(c)'
  BY <1>4 DEF Skip, Take, vault
<1>5. ASSUME NEW w \in Workers, WalkEnds(w) \/ Finish(w) \/ Unauthorized(w) \/ TryNext(w)
      PROVE  Settled(c)'
  BY <1>5 DEF WalkEnds, Finish, Unauthorized, TryNext, NextCopy, vault
<1>6. ASSUME NEW w \in Workers, Answer(w) PROVE Settled(c)'
  <2>1. cred[w] \in Creds /\ cred[w] # c
    BY <1>6, InHand DEF Answer, Mint, MintUnread, MintLost, Refuse, Accepts
  <2>2. CASE Mint(w)
    BY <2>1, <2>2 DEF Mint
  <2>3. CASE MintUnread(w) \/ MintLost(w) \/ Refuse(w)
    BY <2>1, <2>3 DEF MintUnread, MintLost, Refuse, AfterError, NextCopy, vault
  <2>4. QED
    BY <1>6, <2>2, <2>3 DEF Answer
<1>7. ASSUME NEW w \in Workers, Save(w) \/ SaveFails(w) PROVE Settled(c)'
  <2>1. cred[w] \in Creds /\ cred[w] # c
    BY <1>7, InHand DEF Save, SaveFails
  <2>2. QED
    BY <1>7, <2>1 DEF Save, SaveFails, AfterSave, NextCopy, vault
<1>8. CASE UNCHANGED vars
  BY <1>8 DEF vars
<1>9. QED
  BY <1>1, <1>2, <1>3, <1>4, <1>5, <1>6, <1>7, <1>8 DEF Next, Panel, Step, Proceed

\* A removed credential nobody has a copy of is gone for good, whatever requests,
\* keepalive and fetches do.
THEOREM RemovalSettlesAlways == Spec => RemovalSettles
<1>1. IInv /\ [Next]_vars => [\A c \in Creds : Settled(c) => Settled(c)']_vars
  BY StepSettled
<1>2. QED
  BY <1>1, Invariance, PTL DEF Spec, RemovalSettles

--------------------------------------------------------------------------------
(* The refinement: every step of the code is a step of TokenCustody.  Where   *)
(* the newest token of one credential is depends on what one step does to it  *)
(* alone, so each action first gets a lemma about one credential c.           *)

\* Touched in this step or earlier.
Touched(c) == c \in excused'

Stays(c) == Place(c)' = Place(c)
IsLost(c) == Place(c) \in {"vault", "hand"} /\ Place(c)' = "gone" /\ Touched(c)

\* What a step may do to the one credential it is about.
MayMove(c) ==
    \/ Place(c) = "none" /\ Place(c)' = "vault"
    \/ Place(c) = "vault" /\ Place(c)' = "hand"
    \/ Place(c) = "hand" /\ Place(c)' = "vault"

\* A step that loses tokens of touched credentials and moves no other is a step of
\* TokenCustody: Lose, or nothing but a touch.
LEMMA LosingStep ==
  ASSUME excused \subseteq excused', excused' \in SUBSET Creds,
         \A c \in Rotating : Stays(c) \/ IsLost(c)
  PROVE  Custody!Next
<1> DEFINE S == {c \in Rotating : IsLost(c)}
<1>1. \E U \in SUBSET Rotating : Custody!Touch(U)
  <2>1. (excused \cap Rotating)' = (excused \cap Rotating) \cup (excused' \cap Rotating)
    OBVIOUS
  <2>2. QED
    BY <2>1 DEF Custody!Touch
<1>2. [c \in Rotating |-> Place(c)]' = [c \in Rotating |-> IF c \in S THEN "gone" ELSE Place(c)]
  BY DEF Stays, IsLost
<1>3. CASE S = {}
  BY <1>1, <1>2, <1>3 DEF Custody!Next
<1>4. CASE S # {}
  <2>1. Custody!Lose(S)
    BY <1>2, <1>4 DEF Custody!Lose, IsLost, Touched
  <2>2. S \in SUBSET Rotating
    OBVIOUS
  <2>3. QED
    BY <1>1, <2>1, <2>2 DEF Custody!Next
<1>5. QED
  BY <1>3, <1>4

\* A step that moves the token of one credential as TokenCustody allows is one of its steps.
LEMMA MovingStep ==
  ASSUME excused \subseteq excused', excused' \in SUBSET Creds,
         NEW d \in Creds,
         d \in Rotating => Stays(d) \/ IsLost(d) \/ MayMove(d),
         \A c \in Rotating \ {d} : Stays(c)
  PROVE  Custody!Next
<1>1. CASE d \notin Rotating \/ Stays(d) \/ IsLost(d)
  BY <1>1, LosingStep
<1>2. CASE d \in Rotating /\ MayMove(d)
  <2>1. \E U \in SUBSET Rotating : Custody!Touch(U)
    <3>1. (excused \cap Rotating)' = (excused \cap Rotating) \cup (excused' \cap Rotating)
      OBVIOUS
    <3>2. QED
      BY <3>1 DEF Custody!Touch
  <2>2. [c \in Rotating |-> Place(c)]'
          = [[c \in Rotating |-> Place(c)] EXCEPT ![d] = Place(d)']
    BY <1>2 DEF Stays
  <2>3. Custody!Connect(d) \/ Custody!Carry(d) \/ Custody!Put(d)
    BY <1>2, <2>2 DEF MayMove, Custody!Connect, Custody!Carry, Custody!Put, Custody!Move
  <2>4. QED
    BY <1>2, <2>1, <2>3 DEF Custody!Next
<1>3. QED
  BY <1>1, <1>2

\* Whoever drops copies, or takes copies of the row, loses nothing but touched tokens:
\* an untouched one is in the row or with its saver after the step as well.
LEMMA SameVault ==
  ASSUME IInv, IInv', UNCHANGED <<row, live>>, excused \subseteq excused',
         \A c \in Rotating : \A w \in Workers :
            HasNewest(w, c)' => \/ row[c] = live[c]
                                \/ \E v \in Workers : HasNewest(v, c)
  PROVE  Custody!Next
<1>1. ASSUME NEW c \in Rotating PROVE Stays(c) \/ IsLost(c)
  <2>1. CASE Place(c)' = "gone" /\ Place(c) \in {"vault", "hand"}
    <3>1. c \in excused'
      BY <2>1 DEF IInv, NoTokenLost, Place, HasNewest, Pending
    <3>2. QED
      BY <2>1, <3>1 DEF IsLost, Touched
  <2>2. QED
    BY <2>1 DEF Place, Stays
<1>2. excused' \in SUBSET Creds
  BY DEF IInv, TypeOK
<1>3. QED
  BY <1>1, <1>2, LosingStep

\* A login puts the first token into the vault.
LEMMA ConnectCustody == ASSUME NEW c \in Creds, IInv, Connect(c) PROVE Custody!Next
<1> USE DEF IInv, TypeOK, Connect, local, Place, HasNewest
<1>1. c \in Rotating => MayMove(c)
  BY DEF MayMove
<1>2. \A d \in Rotating \ {c} : Stays(d)
  BY DEF Stays
<1>3. QED
  BY <1>1, <1>2, MovingStep

\* A removal leaves the newest token to whoever has a copy, or loses it.
LEMMA RemoveCustody == ASSUME NEW c \in Creds, IInv, Remove(c) PROVE Custody!Next
<1> USE DEF IInv, TypeOK, Remove, local, Place, HasNewest
<1>1. row'[c] = 0 /\ live'[c] # 0 /\ c \in excused'
  BY DEF Bounded
<1>2. c \in Rotating => Stays(c) \/ IsLost(c) \/ MayMove(c)
  BY <1>1 DEF Stays, IsLost, Touched, MayMove
<1>3. \A d \in Rotating \ {c} : Stays(d)
  BY DEF Stays
<1>4. QED
  BY <1>2, <1>3, MovingStep

\* Who is asking the provider has the newest token of a rotating credential if the
\* provider accepts it.
LEMMA Accepted ==
  ASSUME NEW w \in Workers, NEW c \in Rotating, IInv, Accepts(w), c = cred[w]
  PROVE  Place(c) \in {"vault", "hand"}
<1>1. copy[w] = live[c] /\ live[c] # 0
  BY InHand DEF IInv, TypeOK, Accepts, Asking
<1>2. QED
  BY <1>1 DEF Place, HasNewest

\* The worker that reads the answer has the newest token in hand.
LEMMA MintCustody == ASSUME NEW w \in Workers, IInv, Mint(w) PROVE Custody!Next
<1> USE DEF IInv, TypeOK, Mint
<1>0. PICK c \in Creds : c = cred[w] /\ copy[w] \in 1 .. live[c]
  BY InHand DEF Accepts
<1>1. ASSUME c \in Rotating PROVE Stays(c) \/ MayMove(c)
  <2>1. Place(c) \in {"vault", "hand"}
    BY <1>0, <1>1, Accepted
  <2>2. /\ live'[c] = live[c] + 1 /\ row'[c] # live'[c]
        /\ cred'[w] = c /\ copy'[w] = live'[c]
    BY <1>0 DEF Bounded, Accepts
  <2>3. Place(c)' = "hand"
    BY <1>0, <2>2 DEF Place, HasNewest
  <2>4. QED
    BY <2>1, <2>3 DEF Stays, MayMove
<1>2. \A d \in Rotating \ {c} : Stays(d)
  BY <1>0 DEF Stays, Place, HasNewest
<1>3. QED
  BY <1>0, <1>1, <1>2, MovingStep

\* An answer nobody read: the provider has moved on and nobody has its newest token.
LEMMA Unanswered ==
  ASSUME NEW w \in Workers, IInv, Accepts(w),
         live' = [live EXCEPT ![cred[w]] = @ + 1],
         excused' = excused \cup {cred[w]},
         UNCHANGED <<row, aged, snap>>,
         NextCopy(w) \/ UNCHANGED <<cred, copy>>
  PROVE  Custody!Next
<1> USE DEF IInv, TypeOK
<1>0. PICK c \in Creds : c = cred[w] /\ copy[w] \in 1 .. live[c]
  BY InHand DEF Accepts
<1>1. \A v \in Workers : \A d \in Creds : cred'[v] = d => cred[v] = d /\ copy'[v] = copy[v]
  BY <1>0 DEF NextCopy
<1>2. ASSUME c \in Rotating PROVE IsLost(c)
  <2>1. Place(c) \in {"vault", "hand"}
    BY <1>0, <1>2, Accepted
  <2>2. live'[c] = live[c] + 1 /\ row'[c] # live'[c] /\ live'[c] # 0
    BY <1>0 DEF Bounded
  <2>3. \A v \in Workers : ~HasNewest(v, c)'
    BY <1>0, <1>1, <2>2 DEF Bounded, HasNewest
  <2>4. Place(c)' = "gone"
    BY <2>2, <2>3 DEF Place
  <2>5. QED
    BY <1>0, <2>1, <2>4 DEF IsLost, Touched
<1>3. \A d \in Rotating \ {c} : Stays(d)
  <2>1. ASSUME NEW d \in Rotating \ {c}, NEW v \in Workers
        PROVE  HasNewest(v, d)' = HasNewest(v, d)
    BY <1>0 DEF NextCopy, HasNewest
  <2>2. QED
    BY <1>0, <2>1 DEF Stays, Place
<1>4. QED
  BY <1>0, <1>2, <1>3, MovingStep

LEMMA MintUnreadCustody == ASSUME NEW w \in Workers, IInv, MintUnread(w) PROVE Custody!Next
  BY Unanswered DEF MintUnread

LEMMA MintLostCustody == ASSUME NEW w \in Workers, IInv, MintLost(w) PROVE Custody!Next
  BY Unanswered DEF MintLost, AfterError

\* A save puts the newest token into the vault; when its saver holds an older one the
\* newest was gone before (a second answer was lost), and it stays gone.
LEMMA SaveCustody == ASSUME NEW w \in Workers, IInv, Save(w) PROVE Custody!Next
<1> USE DEF IInv, TypeOK, Save
<1>0. PICK c \in Creds : c = cred[w] /\ copy[w] \in 1 .. live[c]
  BY InHand
<1>1. \A v \in Workers : \A d \in Creds : cred'[v] = d => cred[v] = d /\ copy'[v] = copy[v]
  BY <1>0 DEF AfterSave, NextCopy
<1>2. row'[c] = copy[w] /\ live'[c] = live[c] /\ live[c] # 0
  BY <1>0
<1>3. ASSUME c \in Rotating PROVE Stays(c) \/ MayMove(c)
  <2>1. Pending(w, c)
    BY <1>0 DEF Pending
  <2>2. row[c] # live[c]
    BY <1>3, <2>1 DEF OneSaver
  <2>3. CASE copy[w] = live[c]
    <3>1. Place(c) = "hand"
      BY <1>0, <1>2, <2>2, <2>3 DEF Place, HasNewest
    <3>2. Place(c)' = "vault"
      BY <1>2, <2>3 DEF Place
    <3>3. QED
      BY <3>1, <3>2 DEF MayMove
  <2>4. CASE copy[w] # live[c]
    <3>1. \A v \in Workers : ~HasNewest(v, c)
      BY <1>0, <1>3, <2>1, <2>4 DEF OneSaver, HasNewest
    <3>2. \A v \in Workers : ~HasNewest(v, c)'
      BY <1>1, <1>2, <3>1 DEF HasNewest
    <3>3. QED
      BY <1>2, <2>2, <2>4, <3>1, <3>2 DEF Place, Stays
  <2>5. QED
    BY <2>3, <2>4
<1>4. \A d \in Rotating \ {c} : Stays(d)
  <2>1. ASSUME NEW d \in Rotating \ {c}, NEW v \in Workers
        PROVE  HasNewest(v, d)' = HasNewest(v, d)
    BY <1>0 DEF AfterSave, NextCopy, HasNewest
  <2>2. QED
    BY <1>0, <2>1 DEF Stays, Place
<1>5. QED
  BY <1>0, <1>3, <1>4, MovingStep

\* All other actions leave the table and the provider alone.
LEMMA OtherCustody ==
  ASSUME IInv, IInv', UNCHANGED <<row, live>>, excused \subseteq excused',
         NEW w \in Workers,
         List(w) \/ (\E c \in Creds : Skip(w, c) \/ Take(w, c)) \/ WalkEnds(w) \/ Refuse(w)
           \/ SaveFails(w) \/ Finish(w) \/ Unauthorized(w) \/ TryNext(w)
  PROVE  Custody!Next
<1> USE DEF IInv, TypeOK
<1>1. ASSUME NEW c \in Rotating, NEW v \in Workers, HasNewest(v, c)', live[c] # 0
      PROVE  row[c] = live[c] \/ HasNewest(v, c)
  <2>1. CASE List(w)
    <3>1. snap'[v][c] \in {snap[v][c], row[c], 0} /\ UNCHANGED <<live, cred, copy>>
      BY <2>1 DEF List, ListRows, vault
    <3>2. QED
      BY <1>1, <3>1 DEF HasNewest
  <2>2. ASSUME NEW d \in Creds, Skip(w, d) PROVE HasNewest(v, c)
    BY <1>1, <2>2 DEF Skip, vault, HasNewest
  <2>7. ASSUME NEW d \in Creds, Take(w, d) PROVE HasNewest(v, c)
    BY <1>1, <2>7 DEF Take, vault, HasNewest
  <2>3. CASE Refuse(w)
    BY <1>1, <2>3 DEF Refuse, AfterError, NextCopy, HasNewest
  <2>4. CASE SaveFails(w)
    BY <1>1, <2>4 DEF SaveFails, AfterSave, NextCopy, HasNewest
  <2>5. CASE WalkEnds(w) \/ Finish(w) \/ Unauthorized(w) \/ TryNext(w)
    BY <1>1, <2>5 DEF WalkEnds, Finish, Unauthorized, TryNext, NextCopy, HasNewest
  <2>6. QED
    BY <2>1, <2>2, <2>3, <2>4, <2>5, <2>7
<1>2. \A c \in Rotating : live[c] = 0 => row[c] = live[c]
  BY DEF Bounded
<1>3. QED
  BY <1>1, <1>2, SameVault

\* A crash drops all copies and moves no row.
LEMMA CrashCustody == ASSUME IInv, IInv', Crash PROVE Custody!Next
<1>1. \A v \in Workers : \A c \in Creds : live[c] # 0 => ~HasNewest(v, c)'
  BY DEF IInv, TypeOK, Crash, vault, HasNewest
<1>2. \A c \in Rotating : live[c] = 0 => row[c] = live[c]
  BY DEF IInv, TypeOK, Bounded
<1>3. QED
  BY <1>1, <1>2, SameVault DEF Crash, vault

\* The clock changes neither a token nor a copy.
LEMMA AgeCustody == ASSUME NEW c \in Creds, IInv, IInv', Age(c) PROVE Custody!Next
<1>1. \A v \in Workers : \A d \in Rotating : HasNewest(v, d)' = HasNewest(v, d)
  BY DEF Age, local, HasNewest
<1>2. QED
  BY <1>1, SameVault DEF Age, local

\* Every step of the code is a step of TokenCustody or leaves it alone.
LEMMA StepCustody == IInv /\ IInv' /\ [Next]_vars => [Custody!Next]_(Custody!vars)
<1> SUFFICES ASSUME IInv, IInv', [Next]_vars PROVE Custody!Next \/ UNCHANGED Custody!vars
  OBVIOUS
<1>1. CASE UNCHANGED vars
  <2>1. \A c \in Rotating : Place(c)' = Place(c)
    BY <1>1 DEF vars, Place, HasNewest
  <2>2. QED
    BY <1>1, <2>1 DEF vars, Custody!vars
<1>2. CASE Panel
  BY <1>2, ConnectCustody, RemoveCustody, AgeCustody DEF Panel
<1>3. ASSUME NEW w \in Workers, Answer(w) PROVE Custody!Next
  <2>1. CASE Refuse(w)
    BY <2>1, OtherCustody DEF Refuse, vault
  <2>2. QED
    BY <1>3, <2>1, MintCustody, MintUnreadCustody, MintLostCustody DEF Answer
<1>4. ASSUME NEW w \in Workers, List(w) PROVE Custody!Next
  BY <1>4, OtherCustody DEF List, ListRows, vault
<1>5. ASSUME NEW w \in Workers, Proceed(w) PROVE Custody!Next
  <2>1. ASSUME NEW c \in Creds, Skip(w, c) \/ Take(w, c) PROVE Custody!Next
    BY <2>1, OtherCustody DEF Skip, Take, vault
  <2>2. CASE SaveFails(w)
    BY <2>2, OtherCustody DEF SaveFails, vault
  <2>3. CASE WalkEnds(w) \/ Finish(w) \/ Unauthorized(w) \/ TryNext(w)
    BY <2>3, OtherCustody DEF WalkEnds, Finish, Unauthorized, TryNext, vault
  <2>4. QED
    BY <1>3, <1>5, <2>1, <2>2, <2>3, SaveCustody DEF Proceed
<1>6. QED
  BY <1>1, <1>2, <1>3, <1>4, <1>5, CrashCustody DEF Next, Step

\* Nobody has logged in: every token is nowhere yet.
LEMMA InitCustody == Init => Custody!Init
  BY DEF Init, Custody!Init, Place

\* Every behaviour of the code is one of TokenCustody, up to its fairness: the newest
\* token of a rotating credential moves between the row and some worker's hands, it is
\* lost only when a fault or a removal has touched the credential, and no stale copy,
\* late save or other interleaving of List, Refresh and Save brings it back.
THEOREM CustodySafety == Spec => Custody!Safety
<1>1. Custody!Safety <=> Custody!Init /\ [][Custody!Next]_(Custody!vars)
  BY DEF Custody!Safety
<1>2. QED
  BY <1>1, InitCustody, StepCustody, Invariance, PTL DEF Spec
================================================================================
