# Fob in TLA+

Fob is one Go process: an HTTP proxy that turns subscription logins (Claude, Codex, Grok,
Cursor), OpenCode and OpenAI-compatible sources into one endpoint, with a panel, a SQLite
file and a few background loops. This directory holds TLA+ models of the parts where
goroutines, providers and clients meet, the TLC instances that check them, and TLAPS proofs
of what matters most for any number of credentials, workers and requests.

- [The system](#the-system): components, state, operations, interactions, what is hard
- [Modules](#modules): which module stands for which code, and how
- [Runs](#runs): questions, bounds, fairness
- [Proofs](#proofs)
- [Findings](#findings)
- [Not modelled](#not-modelled)
- [Plan](#plan)

Check a module with `tlc -workers 2 -config X.cfg M.tla`, prove with `tlapm M.tla`.
`PROJECT.json` lists runs, mutants, source lines of every definition, hazards and theorems.

## The system

| Component | Code (under `src/`) | State | Operations |
|---|---|---|---|
| Vault | `internal/store/vault.go` | table `credentials` (id, blob, expires_at, created_at) | Save (upsert), List, Get, Remove, Healthy |
| Refreshers | `internal/proxy/proxy.go`, `internal/sub/sub.go`, executors' `Refresh` | copies of credentials in local variables | list, refresh near expiry or after a 401, save |
| Proxy | `internal/proxy/proxy.go` | map `sticky`, one goroutine per request | resolve chain, pick credentials, retry, fail over, stream, record |
| Keys and usage | `internal/store/keys.go`, `usage.go` | tables `local_keys`, `usage_events` | Create, Verify, Revoke, Allows; Record, TodayTokensForKey, Purge, reports |
| Redirect logins | `internal/oauth/*.go`, `internal/app/panel.go` | map `pending`, `activeBinds`, one listener per provider | Start, bind, callback, paste, Complete, unbind |
| Device and poll logins | `internal/oauth/grok.go`, `cursor.go` | maps of the logins under way | start, poll, forget, save |
| Stream pipeline | `internal/provider/httpjson.go`, `internal/proxy/proxy.go`, `internal/httpx/stream.go` | channels, `StreamState` | parse, restore, translate, write, record |
| Translators | `internal/translate` | `StreamState` of one stream | request, response, stream event |
| Cursor sessions | `internal/provider/cursor/protocol.go`, `h2.go` | conversations, active bridges, heartbeats, pending tool calls | RunChat, resume, evict, cancel |
| Agent URL, model cache | `internal/provider/cursor/agenturl.go`, `models.go` | cache with single flight | resolve, refresh |
| Connection pool | `internal/provider/orderedh1.go`, `transport.go` | idle connections per host | borrow, return, expire |
| Server | `internal/httpx/server.go` | one `timeoutWriter` per request | Guard: serve, 504, late write |
| Panel | `internal/app/panel.go`, `internal/store/panelauth.go`, `settings.go`, `internal/session` | password row, settings, signed cookie | login, reset, settings, delete, revoke |
| Sources | `internal/provider/openai/source.go` | slug per credential | discover, UniqueSlug, save |
| Prices | `internal/store/prices.go` | table `prices` | refresh, estimate |

How they interact. A client's request goes through `Guard` and `requireLocalKey` to `Proxy`.
`Proxy` reads the vault once per question it has (is Cursor connected? which credentials
has this hop?) and then works on its own list. Each wait for a provider lets the panel, the
keepalive loop, the subscription fetches and other requests change the vault under that
list. Nobody locks a credential from `List` to `Save`. A successful stream leaves `Proxy`
as a channel; the goroutine behind it is the only one that records the usage. The daily cap
reads the sum of what was recorded. Logins are completed by the panel's paste handler or by
the goroutine of a callback listener that belongs to a provider, not to a login.

What is hard, and what makes each component correct:

- *Vault and refreshers*: rotating refresh tokens are spent when used, so the newest token
  must reach the row whatever the interleaving, and no save may bring an older one back; a
  removed credential may come back only through a save that was already under way; keepalive
  must really keep tokens fresh.
- *Proxy*: failover order and completeness while the panel edits the vault; exactly one usage
  event on each way out; stickiness that never repeats or skips a credential; an answer for
  every request.
- *Daily cap*: check-then-act with an unknown time in between; the overshoot must be bounded.
- *Redirect logins*: callback, reload, paste and delayed unbind race; one login is one
  credential; the port is neither kept nor taken away from a login.
- *Stream pipeline*: three or four goroutines with bounded channels, clients that leave and
  bodies that break off; order, one `[DONE]`, a status that is true, no circular wait.
- *Device logins*: several pages poll one login, are cancelled, fail and lose answers; the
  login stays until it is decided, its tokens are saved once, and every page ends.
- *Translators*: nine pairs of formats with state between the events; the client must hear
  what the provider says, in blocks and calls its format allows, and the meter must agree. A
  conversation that changes provider is told in another format each time, and nothing of it may
  be dropped, doubled or given to the other side.
- *Cursor sessions*: the reader of a bridge, the goroutine of a late close, the watcher of a
  request and the next requests end the same streams and share a conversation; a stream ends
  once, nothing is sent on a closed channel, a tool result reaches the bridge that waits for it.
- *Thinking filter*: tags cut anywhere must part text from thoughts as if they were not.
- *Agent URL*: callers wait for somebody else's fetch.
- *Server*: a handler that goes on behind its deadline; one answer, whole or a 504.
- *Connection pool*: a connection that is expired, broken or not read to its end when it is
  borrowed; nobody gets another one's response, and nothing is sent twice.

## Modules

| Module | Models |
|---|---|
| `CredentialRefresh` | the vault's rows and everybody who refreshes them |
| `TokenCustody` | abstract: where the newest token of a credential is |
| `CredentialRefreshProofs` | theorems about `CredentialRefresh`, and that it takes the steps of `TokenCustody` |
| `ProviderChain` | pure: `resolveProviderChain` and `pickCredentials` |
| `Proxy`, `ProxyProofs` | extends `ProviderChain`: requests over one vault, with the panel |
| `DailyCap`, `DailyCapProofs` | cap check against usage sum, and its bound |
| `OAuthLogin`, `OAuthLoginProofs` | redirect logins of one provider |
| `StreamPipe`, `StreamPipeProofs` | one streamed answer |
| `StreamTranslate` | the nine stream translators between upstream grammars and clients |
| `BodyTranslate` | the translators of requests and whole answers, and `ParseMessages` |
| `CursorSession`, `CursorSessionProofs`, `CursorBridgeProofs` | requests, streams, bridges and the stored conversation of one Cursor key |
| `ThinkFilter` | the thinking tags in Cursor's text |
| `DeviceLogin` | one device or poll login and the pages that poll it |
| `RequestTimeout` | `Guard` and `timeoutWriter` for one request |
| `OrderedH1Pool` | the HTTP/1 pool of one host |
| `AgentURL` | the single flight of `ResolveAgentURL` |
| `MCPlumbing` | instances of the small components and the translators, side by side |
| `PlumbingProofs` | theorems about the small components of `MCPlumbing` |
| other `MC*` | constants of the TLC instances |

**CredentialRefresh.** A token is a generation: generation n of a credential is the n-th the
provider issued. `row[c]` is the table (0: no row), `live[c]` what the provider issued last,
`aged[c]` the generations inside the five minute skew. A worker is a request, the keepalive
loop or a `fetchOne` goroutine; `snap[w]` are the listed copies it has not come to, `cred` and
`copy` the local variable `cred`. `ListRows` is `Vault.List`, `Take` the loop head with
`nearExpiry`, `Mint`, `MintUnread`, `MintLost` and `Refuse` the outcomes of `Refresh`, `Save`
the upsert, `Unauthorized` the refresh after a 401. Between any two of them anything else
may happen. Faults are injected by name (crash, lost answer, unreadable body, failed save,
outage, removal), and `excused` remembers the credentials they touched, since a lost answer
to a rotating refresh loses the token whatever Fob does.

**TokenCustody.** The promise: the newest token is in the vault, in somebody's hands, or lost
by a fault, and what is in somebody's hands is put down or lost. `ImplementsCustody` checks
that `CredentialRefresh` is such a system, with the refinement mapping `Place`. `Safety` is the
specification without its fairness, which is what can be proved.

**ProviderChain and Proxy.** A model name is the record of the answers `resolveProviderChain`
asks of it: which prefix rule it meets, whether it has a twin on the Cursor side, its source
slug, which catalogs list it. `chain` holds the hops to go, `todo` the credentials of the
current hop, `last` the variable of that name. `TryHop` is one turn of the outer loop,
`Turn`..`Failed` the inner one, `HopsEnd` the code behind both loops. The history variables
`owed` (what the chain led to when it was resolved and was stored ever since) and `tried` say
what failover owes a request; `failed` has those of `tried` whose last answer in the request was a
failure, so that `StickyServed` can tell who served it. Lists are filtered with `Kept`, which ranks the places it
keeps by counting: the provers know nothing of `SelectSeq`. The models leave out bodies and what a refresh does to tokens
(that is `CredentialRefresh`).

**DailyCap.** Requests are slots that are used again and again: `Verify`, `Admit` or `Refuse`
(429), `Record` with any number of tokens up to a bound, `Unrecorded` for store errors, crashes
and clients that left. `Midnight` is the start of the UTC day of `TodayTokensForKey`.

**OAuthLogin.** `pending` is the map and `before[l]` the logins that had started when `l` did, the
order of `CreatedAt`, in which `Newest` finds the entry for `TakePendingForProvider`; `owner` the login whose
handler opened the open listener, `timers` the goroutines that sleep 200 ms before
`UnbindCallback`. `Callback` needs a listener, no matter whose. `Take` is `TakePending` with
its fallback `TakePendingForProvider`. A provider may accept a code again (`Accepts` checks
only the verifier), so the pending entry alone protects against double completion.

**StreamPipe.** `parsed` and `relayed` are the channels of 16, `pump` the goroutine in `Proxy`,
`line` what `StreamSSE` has in hand. Lines carry the number of the event they were made from.
The five forms of `AllRoutes` cover the fifteen entries of `streamFns`.

**StreamTranslate.** An upstream that follows the grammar of its format (`ClaudeEvent`,
`ResponsesEvent`, `ChatEvent`, taken from what the translators read), the translator of the
pair with its `StreamState`, and a reader of the client's format that keeps what it has heard.
A delta is a serial number and a tool call an ordinal, so that loss, doubling, swapping and a
wrong block or call can be told apart. Upstreams send tool calls one after the other, as the
three providers do, and one reasoning line stands for the summary and the text that the
Responses translators send in pairs. What the code loses is named and excused: `CallsMerged`
(two Claude tool calls have one index for a chat client, since the index advances only at a
`content_block_stop` that carries a `content_block`), `EndLost` (`response.incomplete` and
`response.failed` are translated into nothing) and `Stateless` (`claudeStreamIdentity`).

**BodyTranslate.** A body is its instructions and its messages, each with a role and numbered
parts: texts, thoughts, calls and results. The operators have the names of the Go functions;
`grokToOpenaiChat` and the pairs of one format with itself change no part. A client starts a
conversation with up to three system prompts, of which a Responses client may give the first as its
instructions or not, keeps every answer as it was translated for it and
sends all of it again; each answer may come from another provider, as failover and a changed
model name have it. `SameConversation` compares what any provider would be told with what the
client has, side by side and turn by turn, `SameReply` what the client got with what was said, and
`RightTurn` what `ParseMessages` makes of the request to Cursor: the last thing the user said, the
results since then, and the rest as past. Four losses of the code are named and excused:
`TextBesideResults`, `OnlyLastSystem`, `OnlyLastText` and `TextBehindCalls`.

**CursorSession.** A request, the stream it answers with (its turn) and the bridge it opens have
one name. The code of a callback is a program, a sequence of the steps between which another
goroutine may come: a send on the stream, a section under `sessionMu`, a look at `stopHeart` and
its close. Programs run in the reader of a bridge, in the goroutine of a close that comes late,
in the watcher of a request and in its handler. `entry` are the `storedConversation`s, also those
that were dropped and that a request still holds; `active` and `pending` the `activeBridge`,
by the tool call that made it. A blob is known by its bridge and its frame; a checkpoint refers to
the blobs the bridge has when it comes. `RunChat` reads and resets the conversation (`Prepare`) and
copies it into the request (`Build`) without the lock, in two steps. `emit` holds `emitMu` while the channel is full. `Deliver` lets the
server send any frame of the chosen kinds, `Close` any end.

**ThinkFilter.** Text is a sequence of signs, cut anywhere; `Process` and `Flush` as they are, and
`Reads`, what the whole text says. A tag with a blank in it that is cut behind its first
blank is taken for text, which `Spaced` excuses.

**DeviceLogin.** One login in `grokDevices` or `cursorDevices` and the pages of the panel that poll
it, each in a request of its own with 16 minutes. The server is the environment: it decides, or
never does, it loses answers and it lets a code expire.

**RequestTimeout.** Guard, the goroutine of the handler and the `timeoutWriter` between them. The
handlers of this program set headers before they write. A flush is two steps, the copy of the
headers and the body, with the lock between `BeginFlush` and `EndFlush`.

**OrderedH1Pool.** `wire[c]` is what a connection carries for this side: heads and bodies, by the
request they belong to. A request whose write fails is sent again on another connection.

**AgentURL.** `inflight` by leader, so that what a waiter waits for is the channel of that fetch.

**MCPlumbing.** These components share no state; a behaviour of the instance follows one of them
(`part`), which is chosen by `Init`. The state spaces add up instead of being multiplied.

## Runs

| Run | Instance | States | Shows |
|---|---|---|---|
| `credential_refresh` | 1 rotating credential, 2 requests, keepalive, 1 fetch, 3 generations, all faults, fair | 147k | `OneSaver`, `NoTokenLost`, `NoStaleOverwrite`, `RemovalSettles`, refinement of `TokenCustody` |
| `credential_live` | 1 rotating credential, 1 with the identity as Refresh, 1 request, keepalive, 1 fetch, 3 generations, lost tokens and removals, fair | 459k | `Freshened` |
| `proxy_race` | 2 requests (1 stream), 2 Claude + 1 Cursor credential | 1.15M | `TriedOnce`, `StickyServed`, `MeteredOnce` |
| `proxy_rules` | 1 request, 7 kinds of name, 4 credentials, toggle, scope, cap, all faults, fair | 280k | `HopsInOrder`, `FailoverComplete`, `Answered` |
| `daily_cap` | 2 keys, 3 slots, up to 2 tokens | 600 | `Overshoot` |
| `oauth_login` | 2 logins, 2 completing goroutines, 2 timers, fair | 402k | `OneCredential`, `ListenerClosed` |
| `oauth_bound` | as `oauth_login` | violation | README's promise about the port |
| `stream_pipe` | 4 events, up to 2 lines each, channels of 1, fair | 2.3M | `NothingLost`, `EndsMetered`, `OneDone`, `OkIsComplete`, `Completes` |
| `stream_ok` | 3 events | violation | a finished stream is metered ok |
| `cursor_session` | eight settings, see below, fair | 673k | `NoSendOnClosed`, `OneEnding`, `ResultOnce`, `CallsKept`, `ResumesWhole`, `TurnEnds`, `HeartStops` |
| `cursor_overlap` | the setting `Overlap` | violation | overlapping requests have conversations of their own |
| `plumbing` | seven components, see below, fair | 455k | `OneAnswer`, `NothingDiscarded`, `PoolSound`, `OneFetch`, `SameAnswer`, `LoginKept`, `AllAnswered` |

The settings of `cursor_session` (`MCCursorSession`): `Tools`, three requests that want one bridge
with up to two tool calls; `Resume`, two requests over one bridge with tool calls, protocol
failures, closes and clients that leave; `Overlap`, two requests with a bridge each, blobs,
checkpoints and closes; `Carry`, a checkpoint of a first turn, a tool call, and a blob and a
checkpoint in the turn that resumes the bridge, before a third request; `Displace`, two bridges
that wait for tool results and a request that brings some; `Single`, one request with every kind of frame, with and without a stream, evicted,
left, closed, and with a bridge that is dead at once; `StalledSingle`, such a request with texts and
tool calls over a server that may stop reading; and `StalledLock`, a request that cancels a bridge of
such a server while another one's bridge is dead. All of it in one setting does not end in
reasonable time. Their channel has one slot.

The parts of `plumbing`: `timeout`, a handler that writes up to two chunks; `pool`, three round trips
over three connections of which one may be idle; `url`, three callers with two tokens;
`translate`, up to ten events of Claude, nine of Responses and six chunks, which is two tool
calls with arguments and the end in each, or texts, thoughts and a call in any order the
grammar allows; `think`, texts of six signs in pieces of up to three; `device`, two pages, four
polls of Cursor and three failures in a row; `bodies`, five parts: a prompt, a question, two parts
of an answer and their results, and another answer. In `pool` a new connection gets the first unused
name, since the names of connections cannot be told apart.

Bounds. Two requests next to keepalive and a fetch give every pair of refreshers that can
meet, and a third that is stale to both; generations above 3 only repeat (the bound is there
because tokens age for ever). A credential without `expires_at` is refreshed after a 401 only,
which is a part of what the others do. In `Proxy` two requests of one key are what `sticky` can be
raced with; a third credential of a provider adds a turn of the same loop. Channels of one
slot are fuller sooner than channels of sixteen, so every blocking happens with 4 events.
`MaxTimers` bounds the sleeping goroutines, of which a browser can start any number. The
models of single requests, logins and streams end when all of them are over, hence
`CHECK_DEADLOCK FALSE`; `daily_cap` runs for ever and checks deadlock.
Symmetry is used only in the runs without a liveness property, over credentials of one
provider, slots, logins and goroutines that the code cannot tell apart.

Fairness. Weak fairness of goroutines that can go on is Go's scheduler. `credential_live`
also assumes that a token endpoint answers each call in the end: the code has no deadline
there. `proxy_rules` and `stream_pipe` assume it of `Execute` and of the end of a body, which
the client transport does not bound either (`Timeout: 0`). `oauth_login` needs only that
a sleep of 200 ms ends and that `Shutdown` returns, which its context of two seconds ensures.
`cursor_session` has fairness of the goroutines and of clients that stay, none of servers: that
a turn ends is claimed only of bridges that died and clients that left. A write to a bridge is
one to an `io.Pipe` and ends when the transport takes the bytes. On the bridges of `limit.stalls`,
whose server may stop reading, `FairSpec` therefore leaves the steps that write without fairness
(`Cancelling`, `SendingResults`, `SendingRequest`) as long as the bridge lives or its reader has callbacks
to run, and `TurnEnds` excuses by name what such a write holds up: the turn of that bridge (`HeldUp`)
and, when `RunChat` cancels a bridge with `sessionMu` in hand, every turn (`LockHeld`). Each of the
excuses is needed: without it the run finds a stream that does not end. `plumbing` assumes
that Guard's timer fires and its goroutine runs, nothing of handlers; that a fetch of the
agent URL ends, which its 8 seconds ensure; and that the context of a page ends, by its 16
minutes, while the sign-in server may keep silent.
Nothing is assumed of users, clients and the panel. `credential_live` has no endless outage and
no endless restarts among its faults: under those no token is fresh.

`OneAnswer`, `PoolSound`, `OneFetch`, `SameAnswer` and `AllAnswered` of `MCPlumbing` are conjunctions of
what the modules state: `AcceptedIsSent` and `HeadersQuiet` with `OneAnswer`; `OwnResponse`,
`NoLeak`, `CleanIdle` and `SentOnce`; `FailsWithLeader` with `OneFetch`; `SplitAgnostic` with
`SameAnswer`, and with it `SameConversation`, `SameReply` and `RightTurn`; `AllAnswered` says that there
is always a later moment without anybody `Pending` in one of three modules, where who was answered
stays so.

Every property of a passing run has a mutant of the code in its module (comments beginning
"Mutated:") that breaks it under the same configuration.

## Proofs

Each proof module has one invariant, `IInv` or one named after the component, that every action
keeps; there is a lemma for each action or group of quiet ones, and the theorems follow from it.
The assumptions are those on the constants (`ASSUME` in the modules, or at the theorem); sets are
arbitrary, finite or not, unless it says otherwise.

**CredentialRefreshProofs**, for all credentials, workers, bounds and faults: `TypeCorrect`,
`OneSaverAlways`, `NoTokenLostAlways`, the action properties `NoStaleOverwriteAlways` and
`RemovalSettlesAlways`, and the refinement `CustodySafety`.

`NoTokenLost` is not inductive: from a state where two workers are about to save the same
rotating credential, a save of the older token loses the newer one. `OneSaver` excludes it:
a provider accepts only the newest refresh token, so a second worker that gets an answer shows
that the first token was in use, i.e. had reached the row or a listed copy, which cannot be as
long as its saver has not saved. `Bounded` says that nobody holds a generation that was not
issued. `IInv` is the conjunction of `TypeOK`, `Bounded`, `OneSaver` and `NoTokenLost`; there is
one lemma per action, and `Mint` and `Save` carry the argument. The assumptions are those on
the constants, above all that `Rotating` credentials are exactly those whose token is spent
by use: credentials a provider lets one refresh twice with one token are not `Rotating`, and for
those the newest token may be overwritten by an older one that still works.

`CustodySafety` says that every behaviour of `CredentialRefresh` is one of `Custody!Safety` under
`Place`: each step connects, carries or puts down the newest token of one credential, or loses
those of a set that a fault or a removal has touched, or leaves all places as they are.
`StepCustody` is the step, with one lemma per action. Most change no `Place` (`Stays`); `MovingStep`
turns a change of one place into `Move`, `LosingStep` a change of several into `Lose`, where
`NoTokenLost` shows that what is lost was touched. A crash loses what several workers had in hand
in one step, which is why `Lose` has a set.

**ProxyProofs**, for any keys, requests, models, credentials and faults, and whatever the panel does:
`TypeCorrect`, `TriedOnceAlways`, `StickyServedAlways`, `MeteredOnceAlways`, `HopsInOrderAlways`
and `FailoverCompleteAlways`. `Lists` says that the providers of a chain and the credentials of a
hop are without repetition and belong together, which needs that `resolveProviderChain` never
puts a provider behind itself (`ChainProperties`) and that `pickCredentials` loses and doubles nothing
(`PickProperties`). `NoneAgain` says that what was tried is on no list that is still to come, `Ahead`
that what is owed and was not tried is on one, and `Owing` that it is still stored and serves
the model, so that the hop that looks for it finds it. `Ahead` and `NoneAgain` are one loop
invariant each for the two nested loops; without them `TriedOnce` says nothing of
the credentials of a later hop. `Replies` and `Counted` tie the usage events to the ways out.

**StreamPipeProofs**, for any number of events, lines and slots: `TypeCorrect`, `NothingLostAlways`,
`EndsMeteredAlways`, `OneDoneAlways` and `OkIsCompleteAlways`. `HandsEmpty` and `Phases` tie the
goroutines to each other: behind the range the channels are empty, `metered` is set exactly
between the last line and the close, and a client that reads hears of the close last. `Heard`
says that a final event was received when `finished` is set, and that an error the
provider sent is known or still in a channel. `DoneOnce` counts the `[DONE]` lines, which the range
and the tail may both make.

**OAuthLoginProofs**, for any logins, goroutines and timers: `TypeCorrect` and `OneCredentialAlways`.
`Taken` says that a login is either in `pending` or with one goroutine, since both lookups take it
out under the lock; `Verified` that what is saved is the login whose verifier the provider has compared.

**DailyCapProofs**: `TypeCorrect` and `OvershootBounded`. `Overshoot` is not inductive:
it forgets the admitted requests. `Reserved` counts what they may still use, so that
`Record` moves tokens from one summand to the other and only `Admit` adds, when the cap is
not reached and, the admitted slot being one of `Requests`, at most a full round is reserved.
`Requests` is finite and not empty.

**PlumbingProofs** is about the specification of `MCPlumbing`, in which one component acts and the
others stand still:

- `OneAnswerAlways` and `NothingDiscardedAlways` (Guard), for any number of chunks. `Buffering`
  says that before the answer the buffer has what was accepted and nothing is out, `Sealed` that
  whoever takes the answer has closed the writer, or the handler is over.
- `PoolSoundAlways`, for any round trips, connections and a limit of idle ones in Nat.
  `Owned` says that an open connection is idle once or held by one round trip,
  `Carried` that what it carries is the rest of the answer to whoever holds it and nothing when
  it is idle, `Counts` that nothing was sent before the write that succeeds. Only a round trip that
  has read its body to the end puts a connection back, and that is why the next one reads its own.
- `OneFetchAlways`, for any callers and tokens. `Leaders` ties the entries of `inflight` to the
  callers that fetch, one per token; `Served` says that whoever waits does so for a fetch under
  way, an origin that is there or a leader that failed.
- `LoginKeptAlways`, for any finite set of pages. `Decided` says that a page about to delete the
  login has seen a reason that does not go away; `Conserved` counts the answers with tokens as
  credentials, losses and pages that hold them.

**CursorSessionProofs**, for any number of requests, tool calls, frames and slots in a channel, and
any faults: `TypeCorrect`, `NoSendOnClosedAlways` and `OneEndingAlways`. `SessionAssumption` says that the
bounds are numbers and `None` is none of the requests, executions and goroutines.

That `emit` never sends on a closed channel does not follow from `emitMu` and `state` alone, because
who waits for room has let the test of `state` behind: `Locked` says that who holds `emitMu` is in
front of a send to that stream, which is not closed, and `finish` waits for `emitMu`. That a stream ends once
is about the programs still to be done. `Programs` says that the program of a goroutine is about one turn,
tells it at most one end and then does nothing but `finish`, and that the closer of a late `OnClose`
has something to do only when the bridge is dead and its reader tells that turn nothing more. `Endings`
says that a stream which was told its end has but `finish` ahead, or is closed, or its request was
cancelled. `Placed` and `Wired` tie these to where `RunChat` is and to the callbacks of the bridges: the
callbacks point at turns of the same bridge, and a request that resumes one has not started a program for it.
The steps that neither end a stream nor change a program's turn (`Onward`, `Quietly`, `SameEnds`, `Moves`)
keep it all for one reason; those that do have a lemma each.

**CursorBridgeProofs** goes on from there to the bridges: `ResultOnceAlways` and `CallsKeptAlways`, under
the same assumptions, and to the stored conversations below. `CallsKept` is about the calls that the client was told, `ResultOnce` about a
counter; neither says who has the struct of a bridge and for whom it waits, so neither is inductive. `Owned`
says that the struct of a bridge that is not `stray` is in `activeBridges` or with one request, and that
its open calls are calls of the turn that has the callbacks, until that is the turn which brings their
results (the callbacks are swapped before the results are sent); a result that was sent belongs to no such
turn, and that is why it is not sent again. `Scripts` says that a program registers a call once and
announces it behind that, `Accounts` that calls, turns and structs belong to the same bridge, `AllFound`
states `CallsKept` of every call that was registered, told or not, and `Announced` that clients hear of no
other. `Cleaning` says that who cleans up a bridge holds the lock and has ended the bridge before letting go of
it. Most steps touch none of this (`AsideInv`); those that move a struct, register a call or change the
callbacks have a lemma each, the moves by way of `HandOver`.

The second part of the module is about the stored conversations: `ResumesWholeAlways`, from `RInv` and the
two invariants before. `ResumesWhole` speaks of what a request has copied when it is too late; the
argument is about the entry of the key at any earlier time, and about the two that write it, the reader
on a checkpoint and OnClose, whenever they get the lock. `Past` says that a bridge is dead and OnClose has kept
what it had to, after which nobody writes a checkpoint of it (`Callbacks`: the reader handles frames of a
bridge that is alive, OnClose one that is dead). `Stopping` says that a turn which answered with stop, or
is about to, is past, and `Settled`: the entry of the key has no checkpoint of it with a hash.
`Closing` is the same of a turn that has ended without a tool call and was not cancelled. It is needed one step earlier: OnClose
keeps first and says stop then, so when it decides to say stop the entry must be settled already.
It is so because OnClose has kept the last checkpoint without a hash, or there was
none at all (`Sources`: an entry names only bridges that sent a checkpoint or a call), and because a
resumed bridge had a call in its first turn (`Firsts`), which never says stop. `Prompted` follows a request
through RunChat: what had stopped when it came is settled when it takes the entry, so that `Prepare` does not
resume it but empties the entry, and nobody writes it back before `Build` copies. `Written` says that a
request which makes an entry finds it new; `Whole` that the blobs a checkpoint refers to are there, in
the entry and in the payload they came from. `History` holds the types of the history variables.
A step that neither writes an entry nor keeps anything is `Beside`, one that also changes calls or bridges
is `Near`; the others have a lemma each.

Model-checked only:

- liveness and what needs fairness or `ENABLED`: `Freshened`, `Answered`, `ListenerClosed`, `Completes`,
  `AllAnswered`, `TurnEnds`, `HeartStops`, and the fairness of `ImplementsCustody`;
- `SameAnswer` and `TypeOK` of `MCPlumbing`: the translators, the thinking filter and the bodies are
  recursive over their input, and induction over data is out of the prover's reach.

## Findings

1. *The callback port of a login in flight is taken away* (`oauth_bound`). README: "While a
   login is in flight, Fob binds those ports." `UnbindCallback` is called with the provider, 200
   ms after any request to the port. With two logins of one provider the browser of the second
   reaches the listener of the first and closes it under the first login.
2. *Native Claude streams are metered as errors* (`stream_ok`). `claudeStreamIdentity` never sets
   `Finished` nor the token counts, so each complete stream of a Claude Messages client
   from Claude is logged as "stream ended before the provider finished" and recorded with status
   `error` and no tokens, which the daily cap then does not count either.
3. *Overlapping requests share a conversation* (`cursor_overlap`). A test asserts that two
   overlapping requests with the same prompt get conversation IDs of their own; its fake bridge
   sends no checkpoint. With one, `onCheckpoint` stores the hash of the running request, and the
   second request resumes the conversation that the first one still runs.

What the models reach without a doc or test that says otherwise, and the properties therefore
leave out: `stopHeart` may be closed twice, by the reader's OnClose and the watcher of a client
that leaves at that moment, which ends the process; `finish` waits for ever when a client
leaves a stream whose channel is full, and the bridge's reader with it; a server that stops reading
holds up the cancel frame, so that the stream of a client that left does not end, and when `RunChat`
writes that frame with `sessionMu` in hand no Cursor session goes on: even `closeIdle` does not reach
the connection, since `OnClose` comes first and waits for the mutex; the heartbeat of a
bridge that closes under a resumed turn goes on; a tool call that comes while another request
takes the bridge may be lost or answered twice (`stray`); a bridge that another one of its key
displaces in `activeBridges` is not found again (`displaced`); a checkpoint that comes in a
resumed turn is stored without the blobs it refers to, under the hash of the request that
opened the bridge, and a later request resumes it so (`resumed`); two Claude tool calls have the same
index for a chat client; the end of an incomplete or failed Responses stream does not reach a
client of another format; what a Claude client says beside tool results does not reach a provider
that speaks chat; of the system messages and the instructions of a Responses client only the last
system message reaches Claude; a chat client gets the last message of a whole Codex answer only; and a Responses client whose
provider said a text behind a tool call is told "No user message found" when it sends the result to
Cursor. `PROJECT.json` lists them among the hazards.

## Not modelled

- Headers and labels; of whole bodies the tool lists, images, limits, usage and stop reasons, other
  roles than those of `BodyTranslate` ("developer"), and results that are not text; identity headers,
  sanitizers, catalogs, the panel's HTML.
- Encryption of tokens, password hashing, environment and schema: library calls and I/O.
- Purge and the reports: single SQL statements. `ListModels`, prices and the model tables:
  read-only for the rest of the system, or a table refresh whose races only shift an estimate.
- The password row and the session cookie: one row, one hash. The two races there (a crash
  between storing and printing the seed password, two resets at a time) and the one of
  `UniqueSlug` with a save are two statements of one owner each.
- Of Cursor: what a request is made of, the replies to executions other than tool
  calls, the frame parser, `CleanupAllSessionState`. The login by a Cursor API key is one exchange.
- `collectCodexResponse` and the other readers of whole responses.
- `agentpb`: generated. It is two thirds of all lines of the implementation (38055 of 56338), and
  most of the rest are tables and mappings, so that the share of lines the models
  stand for is small although the goroutines and the state of the program are in them.
- `StickyID` of `proxy.Request`: no caller sets it. The branch for a provider without executor:
  `app.Create` registers all six.

## Plan

1. `RequestLedger`, an abstract ledger (in, metered once or excused) that `Proxy` implements.
2. Pure algorithms against reference definitions: the Connect frame parser, the collapse of effort
   variants, price lookup.
