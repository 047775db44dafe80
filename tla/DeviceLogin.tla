------------------------------ MODULE DeviceLogin ------------------------------
(***************************************************************************)
(* A device login of Grok or a poll login of Cursor, internal/oauth/grok.go  *)
(* and cursor.go: one login that was started, and the pages of the panel     *)
(* that were sent to complete it, each of which polls in its own request     *)
(* (POST /device/{provider} of internal/app/panel.go).                      *)
(*                                                                         *)
(* The sign-in server is external.  It answers, or does not; Grok gives the  *)
(* tokens of a code once (RFC 8628), of Cursor that is not known.           *)
(***************************************************************************)
EXTENDS Integers, FiniteSets

CONSTANTS
    Pages,     \* submissions of the form
    MaxPolls,  \* cursorPollMax
    MaxStrikes \* failures in a row that end a poll of Cursor: 3

VARIABLES
    provider,  \* "grok" or "cursor"
    known,     \* the login is in grokDevices or cursorDevices
    server,    \* the login there: "asked", "approved", "refused" or "spent"
    timedOut,  \* a poll of Grok has used up its 15 minutes
    page,      \* a page: "new", "waiting", "asking", "given", "refused", "late",
               \* "saving", "saved", "failed"
    ctxDone,   \* pages whose browser left, or whose 16 minutes are over
    polls,     \* attempts of a page
    strikes,   \* `consecutive` of a page
    issued,    \* answers with tokens
    lost,      \* tokens that were lost on the way or by Save
    creds      \* credentials saved

vars == <<provider, known, server, timedOut, page, ctxDone, polls, strikes, issued, lost, creds>>
login == <<provider, server, timedOut>>
tokens == <<issued, lost, creds>>

Polling == {"waiting", "asking", "given", "refused", "late", "saving"}

TypeOK ==
    /\ provider \in {"grok", "cursor"} /\ known \in BOOLEAN /\ timedOut \in BOOLEAN
    /\ server \in {"asked", "approved", "refused", "spent"}
    /\ page \in [Pages -> Polling \cup {"new", "saved", "failed"}]
    /\ ctxDone \subseteq Pages
    /\ polls \in [Pages -> 0 .. MaxPolls] /\ strikes \in [Pages -> 0 .. MaxStrikes]
    /\ issued \in Nat /\ lost \in Nat /\ creds \in Nat

Init ==
    /\ provider \in {"grok", "cursor"}
    /\ known = TRUE /\ server = "asked" /\ timedOut = FALSE
    /\ page = [p \in Pages |-> "new"] /\ ctxDone = {}
    /\ polls = [p \in Pages |-> 0] /\ strikes = [p \in Pages |-> 0]
    /\ issued = 0 /\ lost = 0 /\ creds = 0

Goes(p, s) == page' = [page EXCEPT ![p] = s]

\* A failure ends a poll of Grok; one of Cursor goes on until the third in a row.
Strike(p) ==
    LET count == strikes[p] + 1 IN
    /\ strikes' = [strikes EXCEPT ![p] = count]
    /\ Goes(p, IF provider = "grok" \/ count >= MaxStrikes THEN "failed" ELSE "waiting")

--------------------------------------------------------------------------------
(* A page: Complete and Save.                                              *)

\* Grok asks at once, Cursor waits first.
Submit(p) ==
    /\ page[p] = "new"
    /\ Goes(p, IF ~known THEN "failed" ELSE IF provider = "grok" THEN "asking" ELSE "waiting")
    /\ UNCHANGED <<login, known, ctxDone, polls, strikes, tokens>>

\* The timer of the select.  Grok looks at the time, Cursor at the attempts.  A
\* request whose context is done fails at once, which is Cancelled.
Wake(p) ==
    /\ page[p] = "waiting" /\ p \notin ctxDone
    /\ IF provider = "grok"
         THEN Goes(p, "asking") /\ UNCHANGED polls
         ELSE IF polls[p] < MaxPolls
                THEN Goes(p, "asking") /\ polls' = [polls EXCEPT ![p] = @ + 1]
                ELSE Goes(p, "failed") /\ UNCHANGED polls
    /\ UNCHANGED <<login, known, ctxDone, strikes, tokens>>

GrokDeadline(p) ==
    /\ provider = "grok" /\ page[p] = "waiting"
    /\ timedOut' = TRUE
    /\ Goes(p, "late")
    /\ UNCHANGED <<provider, server, known, ctxDone, polls, strikes, tokens>>

\* Mutated: who leaves the page gives up the login.
CancelledForgets(p) ==
    /\ page[p] \in {"waiting", "asking"} /\ p \in ctxDone
    /\ Goes(p, "failed") /\ known' = FALSE
    /\ UNCHANGED <<login, ctxDone, polls, strikes, tokens>>

\* Between two polls or in one: the login stays in the map.
Cancelled(p) ==
    /\ page[p] \in {"waiting", "asking"} /\ p \in ctxDone
    /\ Goes(p, "failed")
    /\ UNCHANGED <<login, known, ctxDone, polls, strikes, tokens>>

\* The entry is deleted under the mutex, after the answer that decides.
Forget(p) ==
    /\ page[p] \in {"given", "refused", "late"}
    /\ known' = FALSE
    /\ Goes(p, IF page[p] = "given" THEN "saving" ELSE "failed")
    /\ UNCHANGED <<login, ctxDone, polls, strikes, tokens>>

\* The error of Save is dropped.
Save(p) ==
    /\ page[p] = "saving"
    /\ Goes(p, "saved")
    /\ \/ creds' = creds + 1 /\ UNCHANGED lost
       \/ lost' = lost + 1 /\ UNCHANGED creds
    /\ UNCHANGED <<login, known, ctxDone, polls, strikes, issued>>

--------------------------------------------------------------------------------
(* What comes back from a poll.                                            *)

\* The tokens; the answer may get lost, or be unreadable, which for Grok is one
\* without error and for Cursor one without tokens.
Given(p) ==
    /\ page[p] = "asking"
    /\ server = "approved" \/ (provider = "cursor" /\ server = "spent")
    /\ server' = "spent" /\ issued' = issued + 1
    /\ \/ Goes(p, "given") /\ UNCHANGED <<strikes, lost>>
       \/ /\ lost' = lost + 1
          /\ \/ provider = "grok" /\ Goes(p, "waiting") /\ UNCHANGED strikes
             \/ Strike(p)
    /\ UNCHANGED <<provider, known, timedOut, ctxDone, polls, creds>>

\* authorization_pending, slow_down, or no answer Grok understands; the 404 of
\* Cursor.
NotYet(p) ==
    /\ page[p] = "asking"
    /\ Goes(p, "waiting")
    /\ strikes' = [strikes EXCEPT ![p] = 0]
    /\ UNCHANGED <<login, known, ctxDone, polls, tokens>>

\* Another OAuth error ends the login of Grok.
Refused(p) ==
    /\ page[p] = "asking" /\ provider = "grok" /\ server \in {"refused", "spent"}
    /\ Goes(p, "refused")
    /\ UNCHANGED <<login, known, ctxDone, polls, strikes, tokens>>

\* The network, and for Cursor a status it does not expect or missing tokens.
Fails(p) ==
    /\ page[p] = "asking"
    /\ Strike(p)
    /\ UNCHANGED <<login, known, ctxDone, polls, tokens>>

--------------------------------------------------------------------------------
(* The user, the browser and the clock.                                    *)

Decide ==
    /\ server = "asked"
    /\ server' \in {"approved", "refused"}
    /\ UNCHANGED <<provider, known, timedOut, page, ctxDone, polls, strikes, tokens>>

ServerExpires ==
    /\ server \in {"asked", "approved"}
    /\ server' = "refused"
    /\ UNCHANGED <<provider, known, timedOut, page, ctxDone, polls, strikes, tokens>>

CtxDone(p) ==
    /\ page[p] \in Polling \ {"saving"} /\ p \notin ctxDone
    /\ ctxDone' = ctxDone \cup {p}
    /\ UNCHANGED <<login, known, page, polls, strikes, tokens>>

--------------------------------------------------------------------------------

Poll(p) == Wake(p) \/ GrokDeadline(p) \/ Cancelled(p) \/ Forget(p) \/ Save(p)
Answer(p) == Given(p) \/ NotYet(p) \/ Refused(p) \/ Fails(p)

Next ==
    \/ \E p \in Pages : Submit(p) \/ Poll(p) \/ Answer(p) \/ CtxDone(p)
    \/ Decide \/ ServerExpires

\* Goroutines go on, and a context with a deadline ends; the server need not answer.
Fairness == \A p \in Pages : WF_vars(Poll(p)) /\ WF_vars(CtxDone(p))

Spec == Init /\ [][Next]_vars /\ Fairness

--------------------------------------------------------------------------------

\* A login that can still be completed can be completed here: a page that is
\* closed, cancelled or fails leaves it in the map for the next one.  It goes when
\* its tokens came, the server refused it, or a poll of Grok lasted 15 minutes.
\* And tokens that were given are saved, about to be, or lost to a fault; no two
\* credentials come of one answer.
LoginKept ==
    /\ ~known => server \in {"refused", "spent"} \/ timedOut
    /\ issued = creds + lost + Cardinality({p \in Pages : page[p] \in {"given", "saving"}})

\* Every page that was submitted is answered in the end, whatever the server does.
Pending == \E p \in Pages : page[p] \in Polling
================================================================================
