------------------------------- MODULE OAuthLogin ------------------------------
(***************************************************************************)
(* Redirect logins (Claude, Codex): the panel handlers /login/{provider}    *)
(* and /login/{provider}/finish of internal/app/panel.go, the pending map   *)
(* and the callback listener of internal/oauth, and Complete of the two     *)
(* providers.  Providers share nothing, so there is one here.  The listener *)
(* is known by provider only: what closes it does not say which login's     *)
(* listener it means.                                                      *)
(***************************************************************************)
EXTENDS Integers

CONSTANTS
    Logins,     \* logins started in the panel, each with its own random state
    Workers,    \* goroutines that complete a login: onCode, or a paste handler
    MaxTimers,  \* bound: delayed UnbindCallback calls at a time
    None        \* no login

ASSUME LoginsAssumption == None \notin Logins /\ MaxTimers \in Nat \ {0}

VARIABLES
    pending,  \* the logins in the map `pending`
    before,   \* the logins started before a login: the order of CreatedAt
    expired,  \* logins older than pendingTTL
    owner,    \* the login whose handler opened the listener that is open
    closing,  \* UnbindCallback has emptied activeBinds, Shutdown is under way
    timers,   \* goroutines that sleep 200 ms before UnbindCallback
    st,       \* a login in the panel: "new", "started", "listening", "busy"
    codes,    \* logins the user has signed in for: the provider issued a code
    denied,   \* logins the provider sent back with an error instead
    pc, code, state, got,  \* a worker: where it is, the login whose code it has,
                           \* whether it has its state too, the pending login it took
    paste,    \* whether the worker is a paste handler
    saved     \* credentials saved with the code of a login

listener == <<owner, closing, timers>>
user == <<st, codes, denied>>
worker == <<pc, code, state, got, paste>>
stored == <<pending, before>>
vars == <<stored, expired, listener, user, worker, saved>>

TypeOK ==
    /\ pending \subseteq Logins /\ before \in [Logins -> SUBSET Logins]
    /\ expired \subseteq Logins
    /\ owner \in Logins \cup {None}
    /\ closing \in BOOLEAN /\ (closing => owner = None)
    /\ timers \in 0 .. MaxTimers
    /\ st \in [Logins -> {"new", "started", "listening", "busy"}]
    /\ codes \subseteq Logins /\ denied \subseteq Logins \ codes
    /\ pc \in [Workers -> {"idle", "take", "exchange", "unbind", "save"}]
    /\ code \in [Workers -> Logins \cup {None}]
    /\ state \in [Workers -> BOOLEAN]
    /\ got \in [Workers -> Logins \cup {None}]
    /\ paste \in [Workers -> BOOLEAN]
    /\ saved \in [Logins -> Nat]

Init ==
    /\ pending = {} /\ before = [l \in Logins |-> {}] /\ expired = {}
    /\ owner = None /\ closing = FALSE /\ timers = 0
    /\ st = [l \in Logins |-> "new"] /\ codes = {} /\ denied = {}
    /\ pc = [w \in Workers |-> "idle"]
    /\ code = [w \in Workers |-> None]
    /\ state = [w \in Workers |-> FALSE]
    /\ got = [w \in Workers |-> None]
    /\ paste = [w \in Workers |-> FALSE]
    /\ saved = [l \in Logins |-> 0]

--------------------------------------------------------------------------------
(* The panel opens a login.                                                *)

\* ProviderLogin.Start: PutPending under a new random state.
Start(l) ==
    /\ st[l] = "new"
    /\ st' = [st EXCEPT ![l] = "started"]
    /\ pending' = pending \cup {l}
    /\ before' = [before EXCEPT ![l] = {k \in Logins : st[k] # "new"}]
    /\ UNCHANGED <<expired, listener, codes, denied, worker, saved>>

\* BindCallback: net.Listen fails while any listener holds the port.
Bind(l) ==
    /\ st[l] = "started"
    /\ \/ /\ owner = None /\ ~closing
          /\ owner' = l
          /\ st' = [st EXCEPT ![l] = "listening"]
       \/ /\ owner # None \/ closing
          /\ st' = [st EXCEPT ![l] = "busy"]
          /\ UNCHANGED owner
    /\ UNCHANGED <<stored, expired, closing, timers, codes, denied, worker, saved>>

Expire(l) ==
    /\ l \in pending \ expired
    /\ expired' = expired \cup {l}
    /\ UNCHANGED <<stored, listener, user, worker, saved>>

--------------------------------------------------------------------------------
(* The user at the provider, and the browser that comes back.              *)

SignIn(l) ==
    /\ st[l] \in {"listening", "busy"}
    /\ l \notin codes \cup denied
    /\ codes' = codes \cup {l}
    /\ UNCHANGED <<stored, expired, listener, st, denied, worker, saved>>

Complete(w, l, withState, pasted) ==
    /\ pc[w] = "idle"
    /\ pc' = [pc EXCEPT ![w] = "take"]
    /\ code' = [code EXCEPT ![w] = l]
    /\ state' = [state EXCEPT ![w] = withState]
    /\ paste' = [paste EXCEPT ![w] = pasted]
    /\ UNCHANGED got

\* Mutated: only a request without a code closes the listener.
DelayUnlessCode(withCode) ==
    /\ timers < MaxTimers
    /\ timers' = IF withCode THEN timers ELSE timers + 1

\* Every request to the port, with a code or not, closes the listener 200 ms later.
DelayUnbind(withCode) ==
    /\ timers < MaxTimers
    /\ timers' = timers + 1

\* The callback finds a listener, no matter whose, and brings code and state.
Callback(l, w) ==
    /\ l \in codes
    /\ owner # None
    /\ DelayUnbind(TRUE)
    /\ Complete(w, l, TRUE, FALSE)
    /\ UNCHANGED <<stored, expired, owner, closing, user, saved>>

\* The provider sends the browser back with an error and no code.
Deny(l) ==
    /\ st[l] \in {"listening", "busy"}
    /\ l \notin codes \cup denied
    /\ owner # None
    /\ denied' = denied \cup {l}
    /\ DelayUnbind(FALSE)
    /\ UNCHANGED <<stored, expired, owner, closing, st, codes, worker, saved>>

\* The browser asks for the icon of the page it was just served.
Favicon ==
    /\ timers > 0
    /\ owner # None
    /\ DelayUnbind(FALSE)
    /\ UNCHANGED <<stored, expired, owner, closing, user, worker, saved>>

\* The user pastes the failed callback URL, or the bare code.
Paste(l, w) ==
    /\ l \in codes
    /\ \E withState \in BOOLEAN : Complete(w, l, withState, TRUE)
    /\ UNCHANGED <<stored, expired, listener, user, saved>>

--------------------------------------------------------------------------------
(* UnbindCallback(provider).                                               *)

\* Mutated: Shutdown without taking the server out of activeBinds.
UnbindKept ==
    /\ UNCHANGED owner
    /\ closing' = (closing \/ owner # None)

Unbind ==
    /\ owner' = None
    /\ closing' = (closing \/ owner # None)

DelayedUnbind ==
    /\ timers > 0
    /\ timers' = timers - 1
    /\ Unbind
    /\ UNCHANGED <<stored, expired, user, worker, saved>>

PortFreed ==
    /\ closing
    /\ closing' = FALSE
    /\ UNCHANGED <<stored, expired, owner, timers, user, worker, saved>>

--------------------------------------------------------------------------------
(* Completing a login.                                                     *)

Fresh == pending \ expired
Newest == {l \in Fresh : Fresh \ {l} \subseteq before[l]}

\* Mutated: the entry is read and stays in the map.
TakeKept(w) ==
    /\ pc[w] = "take"
    /\ \/ /\ state[w] /\ code[w] \in Fresh
          /\ got' = [got EXCEPT ![w] = code[w]]
          /\ pc' = [pc EXCEPT ![w] = "exchange"]
       \/ /\ ~(state[w] /\ code[w] \in Fresh)
          /\ pc' = [pc EXCEPT ![w] = "idle"]
          /\ UNCHANGED got
    /\ UNCHANGED <<stored, expired, listener, user, code, state, paste, saved>>

\* TakePending by the state, and when that finds nothing TakePendingForProvider: the
\* newest login of the provider, whoever's code this is, and expired ones are dropped.
\* States are never reused, so what the first finds is not changed by what happens
\* before the second.
Take(w) ==
    LET own == state[w] /\ code[w] \in Fresh
        takes(l) == /\ got' = [got EXCEPT ![w] = l]
                    /\ pc' = [pc EXCEPT ![w] = "exchange"]
    IN  /\ pc[w] = "take"
        /\ \/ /\ own
              /\ takes(code[w])
              /\ pending' = pending \ {code[w]}
           \/ /\ ~own
              /\ \E l \in Newest : takes(l) /\ pending' = Fresh \ {l}
           \/ /\ ~own /\ Fresh = {}
              /\ pending' = {}
              /\ pc' = [pc EXCEPT ![w] = "idle"]
              /\ UNCHANGED got
        /\ UNCHANGED <<before, expired, listener, user, code, state, paste, saved>>

\* The provider checks the verifier of the login taken against the code; Fob does
\* not rely on the provider to refuse a code it has already seen.
Accepts(w) == got[w] = code[w]

\* Refused or failed, the pending login stays consumed.
Exchange(w) ==
    /\ pc[w] = "exchange"
    /\ \/ Accepts(w) /\ pc' = [pc EXCEPT ![w] = IF paste[w] THEN "unbind" ELSE "save"]
       \/ pc' = [pc EXCEPT ![w] = "idle"]
    /\ UNCHANGED <<stored, expired, listener, user, code, state, got, paste, saved>>

PasteUnbinds(w) ==
    /\ pc[w] = "unbind"
    /\ pc' = [pc EXCEPT ![w] = "save"]
    /\ Unbind
    /\ UNCHANGED <<stored, expired, timers, user, code, state, got, paste, saved>>

\* Without an id the vault makes a new credential.
Save(w) ==
    /\ pc[w] = "save"
    /\ pc' = [pc EXCEPT ![w] = "idle"]
    /\ saved' = [saved EXCEPT ![code[w]] = @ + 1]
    /\ UNCHANGED <<stored, expired, listener, user, code, state, got, paste>>

Next ==
    \/ \E l \in Logins : Start(l) \/ Bind(l) \/ Expire(l) \/ SignIn(l) \/ Deny(l)
    \/ \E l \in Logins, w \in Workers : Callback(l, w) \/ Paste(l, w)
    \/ Favicon \/ DelayedUnbind \/ PortFreed
    \/ \E w \in Workers : Take(w) \/ Exchange(w) \/ PasteUnbinds(w) \/ Save(w)

Spec == Init /\ [][Next]_vars

\* Sleeps end and Shutdown returns after at most two seconds.
FairSpec == Spec /\ WF_vars(DelayedUnbind) /\ WF_vars(PortFreed)

--------------------------------------------------------------------------------
(* Properties.                                                             *)

\* One login makes at most one credential, although its callback may be loaded again
\* and pasted at the same time: whoever takes the pending entry is alone with it.
OneCredential == \A l \in Logins : saved[l] <= 1

\* The listener a login opened does not outlive the credential it brought: it is
\* closed by the delayed unbind of the callback or by the paste handler.
ListenerClosed == \A l \in Logins : saved[l] > 0 ~> owner # l

\* "While a login is in flight, Fob binds those ports" (README.md): as long as the
\* user is still at the provider, the login the panel called "Listening" keeps its port.
BoundInFlight ==
    \A l \in Logins :
        st[l] = "listening" /\ l \in pending \ (expired \cup codes \cup denied)
            => owner = l
================================================================================
