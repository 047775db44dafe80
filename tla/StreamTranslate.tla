---------------------------- MODULE StreamTranslate ----------------------------
(***************************************************************************)
(* The stream translators of internal/translate: one stream of an upstream   *)
(* format, event by event, through its translator and its StreamState to a   *)
(* client that reads the lines.  The nine pairs of formats stand for the     *)
(* fifteen keys of streamFns: codex and grok speak Responses, cursor and the *)
(* OpenAI-compatible sources chat chunks.                                   *)
(*                                                                         *)
(* The text of a delta is a serial number, the ID of a tool call its ordinal *)
(* and 0 the empty string.  An upstream sends its tool calls one after the   *)
(* other, as the providers do.                                             *)
(***************************************************************************)
EXTENDS Integers, Sequences, SequencesExt

CONSTANT MaxEvents  \* bound: events of an upstream of each format

VARIABLES
    source, client,  \* formats: "claude", "responses", "chat"
    phase,           \* where the upstream is in its grammar
    used,            \* events it has sent
    said,            \* what they mean
    state,           \* StreamState, and in `out` the lines of the last event
    heard            \* what the client made of the lines

vars == <<source, client, phase, used, said, state, heard>>

Formats == {"claude", "responses", "chat"}
Blocks == {"text", "think", "call"}

\* An event, of the upstream or for the client.
Event == [type |-> "none", kind |-> "none", index |-> 0, id |-> 0, n |-> 0,
          stop |-> "none", tokens |-> 0, output |-> "none"]

Silence == [text |-> << >>, think |-> << >>, tools |-> << >>]
Piece(n) == IF n = 0 THEN << >> ELSE <<n>>

\* Content with a call or a delta more: arguments belong to the last call.  The end
\* of an item repeats it.
Gains(content, e) ==
    CASE e.type = "response.output_item.done" -> content
      [] e.kind = "text" -> [content EXCEPT !.text = @ \o Piece(e.n)]
      [] e.kind = "think" -> [content EXCEPT !.think = @ \o Piece(e.n)]
      [] e.kind = "call" ->
            [content EXCEPT !.tools = Append(@, [id |-> e.id, args |-> Piece(e.n)])]
      [] e.kind = "args" /\ content.tools # << >> ->
            [content EXCEPT !.tools[Len(content.tools)].args = @ \o Piece(e.n)]
      [] OTHER -> content

Init ==
    /\ source \in Formats /\ client \in Formats
    /\ phase = "start" /\ used = 0
    /\ said = [content |-> Silence, stop |-> "none", tokens |-> 0, block |-> 0]
    /\ state = [Started |-> FALSE, Finished |-> FALSE, Error |-> FALSE, HasTools |-> FALSE,
                ToolIndex |-> 0, BlockIndex |-> 0, BlockKind |-> "none",
                output |-> Silence, tokens |-> 0, out |-> << >>]
    /\ heard = [content |-> Silence, stop |-> "none", block |-> "none", next |-> 0,
                begun |-> FALSE, done |-> FALSE, bad |-> FALSE]

TypeOK ==
    /\ source \in Formats /\ client \in Formats
    /\ phase \in {"start", "idle", "ending", "over"} \cup Blocks
    /\ used \in 0 .. MaxEvents[source]
    /\ said.content.text \in Seq(1 .. used) /\ heard.content.text \in Seq(1 .. used)
    /\ state.ToolIndex <= used /\ state.BlockIndex <= used /\ heard.next <= used
    /\ state.BlockKind \in Blocks \cup {"none"} /\ heard.block \in Blocks \cup {"none"}

Emit(s, line) == [s EXCEPT !.out = Append(@, line)]
Start(s) == [s EXCEPT !.Started = TRUE]
Finish(s) == [s EXCEPT !.Finished = TRUE]
Meter(s, e) == IF e.tokens = 0 THEN s ELSE [s EXCEPT !.tokens = e.tokens]
Collect(s, e) == [s EXCEPT !.output = Gains(@, e)]

--------------------------------------------------------------------------------
(* Towards a chat client.                                                  *)

Chunk == [Event EXCEPT !.type = "chunk"]
Done(s) == IF s.Finished THEN s ELSE Emit(Finish(s), [Event EXCEPT !.type = "[DONE]"])

\* A delta for the client, of the tool call the state is at.
ChatDelta(s, e) ==
    Emit(s, [Chunk EXCEPT !.kind = e.kind, !.index = s.ToolIndex, !.id = e.id, !.n = e.n])

MapClaudeStop(reason) ==
    CASE reason = "max_tokens" -> "length"
      [] reason = "tool_use" -> "tool_calls"
      [] OTHER -> "stop"

ClaudeToChat(e, s) ==
    CASE e.type = "message_start" -> Emit(Start(Meter(s, e)), Chunk)
      [] e.type = "content_block_start" /\ e.kind = "call" -> ChatDelta(s, e)
      [] e.type = "content_block_delta" -> ChatDelta(s, e)
      [] e.type = "content_block_stop" /\ e.kind = "call" -> [s EXCEPT !.ToolIndex = @ + 1]
      [] e.type = "message_delta" ->
            Emit(Meter(s, e), [Chunk EXCEPT !.stop = MapClaudeStop(e.stop)])
      [] e.type = "message_stop" -> Done(s)
      [] OTHER -> s

\* Mutated: the tool index stays where it is.
CodexToChatOneIndex(e, s) ==
    CASE e.type = "response.created" -> IF s.Started THEN s ELSE Emit(Start(s), Chunk)
      [] e.type = "response.delta" \/ (e.type = "response.output_item.added" /\ e.kind = "call") ->
            ChatDelta(s, e)
      [] e.type = "response.completed" ->
            Done(Emit(Meter(s, e), [Chunk EXCEPT !.stop =
                IF e.output.tools # << >> THEN "tool_calls" ELSE "stop"]))
      [] OTHER -> s

CodexToChat(e, s) ==
    CASE e.type = "response.created" -> IF s.Started THEN s ELSE Emit(Start(s), Chunk)
      [] e.type = "response.delta" \/ (e.type = "response.output_item.added" /\ e.kind = "call") ->
            ChatDelta(s, e)
      [] e.type = "response.output_item.done" /\ e.kind = "call" ->
            [s EXCEPT !.ToolIndex = @ + 1]
      [] e.type = "response.completed" ->
            Done(Emit(Meter(s, e), [Chunk EXCEPT !.stop =
                IF e.output.tools # << >> THEN "tool_calls" ELSE "stop"]))
      [] OTHER -> s

\* captureStreamError.
CaptureError(s, e) == IF e.stop = "error" THEN [s EXCEPT !.Error = TRUE] ELSE s

\* A chunk goes on as it is, the one without choices too.
GrokToChat(e, s) ==
    LET sent == Emit(CaptureError(Meter(s, e), e), e)
    IN  IF e.stop \in {"none", "error"} THEN sent ELSE Done(sent)

--------------------------------------------------------------------------------
(* Towards a Claude client.                                                *)

Block(s, type) == [Event EXCEPT !.type = type, !.index = s.BlockIndex]

ClaudeCloseBlock(s) ==
    IF s.BlockKind = "none" THEN s
    ELSE [Emit(s, Block(s, "content_block_stop")) EXCEPT !.BlockKind = "none"]

\* claudeOpenTool, and claudeOpenBlock for another kind: the index advances only
\* past a block that is still open.
NextBlock(s, kind, id) ==
    LET opened == [ClaudeCloseBlock(s) EXCEPT
                      !.BlockKind = kind,
                      !.BlockIndex = IF s.BlockKind = "none" THEN @ ELSE @ + 1,
                      !.HasTools = @ \/ kind = "call"]
    IN  Emit(opened, [Block(opened, "content_block_start") EXCEPT !.kind = kind, !.id = id])

ClaudeOpenBlock(s, kind) == IF s.BlockKind = kind THEN s ELSE NextBlock(s, kind, 0)

ClaudeDelta(s, kind, n) ==
    Emit(s, [Block(s, "content_block_delta") EXCEPT !.kind = kind, !.n = n])

ClaudeToolDelta(s, n) ==
    IF n = 0 \/ s.BlockKind # "call" THEN s ELSE ClaudeDelta(s, "args", n)

ClaudeFinishBlocks(s) ==
    IF s.BlockKind # "none" \/ s.HasTools THEN ClaudeCloseBlock(s)
    ELSE ClaudeCloseBlock(ClaudeOpenBlock(s, "text"))

ClaudeStopReason(s, finish) ==
    IF finish = "tool_calls" \/ s.HasTools THEN "tool_use"
    ELSE IF finish = "length" THEN "max_tokens" ELSE "end_turn"

\* The blocks are closed, and message_delta and message_stop follow.
ClaudeEnd(s, finish) ==
    LET closed == ClaudeFinishBlocks(s)
        delta == [Event EXCEPT !.type = "message_delta", !.stop = ClaudeStopReason(closed, finish)]
    IN  Emit(Emit(closed, delta), [Event EXCEPT !.type = "message_stop"])

ClaudeBegin(s) ==
    IF s.Started THEN s ELSE Emit(Start(s), [Event EXCEPT !.type = "message_start"])

\* One thing the upstream says, in the block it belongs to.
ClaudeSays(s, e) ==
    CASE e.kind \in {"text", "think"} -> ClaudeDelta(ClaudeOpenBlock(s, e.kind), e.kind, e.n)
      [] e.kind = "call" -> ClaudeToolDelta(NextBlock(s, "call", e.id), e.n)
      [] e.kind = "args" -> ClaudeToolDelta(s, e.n)
      [] OTHER -> s

ClaudeIdentity(e, s) == Emit(s, e)

CodexToClaude(e, s) ==
    CASE e.type = "response.created" -> ClaudeBegin(s)
      [] e.type = "response.delta" \/ (e.type = "response.output_item.added" /\ e.kind = "call") ->
            ClaudeSays(s, e)
      [] e.type = "response.completed" -> Finish(ClaudeEnd(Meter(s, e), "none"))
      [] OTHER -> s

GrokToClaude(e, s) ==
    LET spoken == ClaudeSays(ClaudeBegin(Meter(s, e)), e)
        ended == ClaudeEnd(CaptureError(spoken, e), e.stop)
    IN  CASE e.stop = "none" -> spoken
          [] e.stop = "error" -> ended
          [] OTHER -> Finish(ended)

--------------------------------------------------------------------------------
(* Towards a Responses client.                                             *)

Item(e) == [Event EXCEPT !.type = "response.output_item.added", !.kind = "call", !.id = e.id]
Delta(e, kind) == [Event EXCEPT !.type = "response.delta", !.kind = kind, !.n = e.n]
Completed(s, status) ==
    Emit(s, [Event EXCEPT !.type = "response.completed", !.stop = status, !.output = s.output])
ResponseBegin(s) ==
    IF s.Started THEN s ELSE Emit(Start(s), [Event EXCEPT !.type = "response.created"])

Args(s, e) == IF e.n = 0 THEN s ELSE Emit(s, Delta(e, "args"))

\* What the upstream says is collected for the final event, and passed on; the
\* one line of a thought stands for its summary and its text.
ResponseSays(s, e) ==
    LET kept == Collect(s, e)
    IN  CASE e.kind \in {"text", "think"} -> Emit(kept, Delta(e, e.kind))
          [] e.kind = "call" -> Args([Emit(kept, Item(e)) EXCEPT !.HasTools = TRUE], e)
          [] e.kind = "args" -> Args(kept, e)
          [] OTHER -> s

ResponsesIdentity(e, s) ==
    IF e.type = "response.completed" THEN Emit(Finish(Meter(s, e)), e) ELSE Emit(s, e)

ClaudeToResponses(e, s) ==
    CASE e.type = "message_start" ->
            Emit(Start(Meter(s, e)), [Event EXCEPT !.type = "response.created"])
      [] e.type = "content_block_delta" \/ (e.type = "content_block_start" /\ e.kind = "call") ->
            ResponseSays(s, e)
      [] e.type = "message_delta" -> Meter(s, e)
      [] e.type = "message_stop" -> Finish(Completed(s, "completed"))
      [] OTHER -> s

GrokToResponses(e, s) ==
    LET spoken == ResponseSays(ResponseBegin(Meter(s, e)), e)
    IN  CASE e.stop = "none" -> spoken
          [] e.stop = "error" -> Completed(CaptureError(spoken, e), "failed")
          [] OTHER -> Finish(Completed(spoken, "completed"))

\* streamFns.
Translate(e, s) ==
    CASE client = "chat" /\ source = "claude" -> ClaudeToChat(e, s)
      [] client = "chat" /\ source = "responses" -> CodexToChat(e, s)
      [] client = "chat" /\ source = "chat" -> GrokToChat(e, s)
      [] client = "claude" /\ source = "claude" -> ClaudeIdentity(e, s)
      [] client = "claude" /\ source = "responses" -> CodexToClaude(e, s)
      [] client = "claude" /\ source = "chat" -> GrokToClaude(e, s)
      [] client = "responses" /\ source = "claude" -> ClaudeToResponses(e, s)
      [] client = "responses" /\ source = "responses" -> ResponsesIdentity(e, s)
      [] client = "responses" /\ source = "chat" -> GrokToResponses(e, s)

--------------------------------------------------------------------------------
(* The readers.                                                            *)

\* MergeToolCallDeltas: the index says which call a delta belongs to.
MergeTool(tools, e) ==
    LET at == e.index + 1
        none == [id |-> 0, args |-> << >>]
        long == tools \o [i \in 1 .. (at - Len(tools)) |-> none]
    IN  [long EXCEPT ![at] = [id |-> IF e.id = 0 THEN @.id ELSE e.id,
                              args |-> @.args \o Piece(e.n)]]

\* collectNonStream, of a chunk; nothing but usage may follow the end.
HearChunk(h, e) ==
    LET read == [h EXCEPT !.stop = IF e.stop = "none" THEN @ ELSE e.stop,
                          !.bad = @ \/ (h.done /\ (e.kind # "none" \/ e.stop # "none"))]
    IN  IF e.kind \in {"call", "args"}
          THEN [read EXCEPT !.content.tools = MergeTool(@, e)]
          ELSE [read EXCEPT !.content = Gains(@, e)]

HearChat(h, e) == IF e.type = "[DONE]" THEN [h EXCEPT !.done = TRUE] ELSE HearChunk(h, e)

\* A Claude client: blocks are opened in the order of their indices, one at a
\* time, and every delta and stop names the open one.
HearClaude(h, e) ==
    LET wrong(reason) == [h EXCEPT !.bad = @ \/ h.done \/ reason]
        outside == h.block = "none" \/ e.index # h.next
        other == h.block # (IF e.kind = "args" THEN "call" ELSE e.kind)
    IN  CASE e.type = "message_start" -> [wrong(h.begun) EXCEPT !.begun = TRUE]
          [] e.type = "content_block_start" ->
                [wrong(~h.begun \/ h.block # "none" \/ e.index # h.next)
                    EXCEPT !.block = e.kind, !.content = IF e.kind = "call" THEN Gains(@, e) ELSE @]
          [] e.type = "content_block_delta" ->
                [wrong(outside \/ other) EXCEPT !.content = Gains(@, e)]
          [] e.type = "content_block_stop" ->
                [wrong(outside) EXCEPT !.block = "none", !.next = @ + 1]
          [] e.type = "message_delta" ->
                [wrong(h.block # "none") EXCEPT !.stop = MapClaudeStop(e.stop)]
          [] e.type = "message_stop" -> [wrong(h.stop = "none") EXCEPT !.done = TRUE]

\* A Responses client: the final event repeats what the deltas said.
HearResponses(h, e) ==
    LET wrong(reason) == [h EXCEPT !.bad = @ \/ h.done \/ reason]
    IN  CASE e.type = "response.created" -> [wrong(h.begun) EXCEPT !.begun = TRUE]
          [] e.type = "response.delta"
                \/ (e.type = "response.output_item.added" /\ e.kind = "call") ->
                [wrong(~h.begun) EXCEPT !.content = Gains(@, e)]
          [] e.type \in {"response.completed", "response.incomplete", "response.failed"} ->
                [wrong(e.output # h.content) EXCEPT !.stop = e.stop, !.done = TRUE]
          [] OTHER -> h

Hear(h, e) ==
    CASE client = "chat" -> HearChat(h, e)
      [] client = "claude" -> HearClaude(h, e)
      [] client = "responses" -> HearResponses(h, e)

--------------------------------------------------------------------------------
(* The upstream.                                                           *)

Tells(e) ==
    CASE e.type \in {"response.incomplete", "response.failed"} -> e.stop
      [] e.type = "response.completed" ->
            IF said.content.tools = << >> THEN "stop" ELSE "tool_calls"
      [] e.type = "message_delta" -> MapClaudeStop(e.stop)
      [] OTHER -> IF e.stop = "none" THEN said.stop ELSE e.stop

Feed(e, next) ==
    /\ used < MaxEvents[source]
    /\ used' = used + 1 /\ phase' = next
    /\ said' = [content |-> Gains(said.content, e), stop |-> Tells(e),
                tokens |-> IF e.tokens = 0 THEN said.tokens ELSE e.tokens,
                block |-> IF e.type = "content_block_stop" THEN said.block + 1 ELSE said.block]
    /\ state' = Translate(e, [state EXCEPT !.out = << >>])
    /\ heard' = FoldLeft(Hear, heard, state'.out)
    /\ UNCHANGED <<source, client>>

New(type) == [Event EXCEPT !.type = type]
Numbered(e) == [e EXCEPT !.index = said.block]
NewID == Len(said.content.tools) + 1
Opening(type, kind) ==
    [New(type) EXCEPT !.kind = kind, !.id = IF kind = "call" THEN NewID ELSE 0]
Within(type) ==
    [New(type) EXCEPT !.kind = IF phase = "call" THEN "args" ELSE phase, !.n = used + 1]

\* The Messages API of Claude; a content_block_stop carries an index and nothing
\* else.
ClaudeEvent ==
    /\ source = "claude"
    /\ \/ phase = "start" /\ Feed([New("message_start") EXCEPT !.tokens = 1], "idle")
       \/ phase = "idle" /\ \E kind \in Blocks :
             Feed(Numbered(Opening("content_block_start", kind)), kind)
       \/ phase \in Blocks /\ Feed(Numbered(Within("content_block_delta")), phase)
       \/ phase \in Blocks /\ Feed(Numbered(New("content_block_stop")), "idle")
       \/ /\ phase = "idle"
          /\ \E stop \in {"max_tokens", IF said.content.tools = << >> THEN "end_turn" ELSE "tool_use"} :
                Feed([New("message_delta") EXCEPT !.stop = stop, !.tokens = 2], "ending")
       \/ phase = "ending" /\ Feed(New("message_stop"), "over")

\* The Responses API: items, one after the other.
ResponsesEvent ==
    /\ source = "responses"
    /\ \/ phase = "start" /\ Feed(New("response.created"), "idle")
       \/ phase = "idle" /\ \E kind \in Blocks :
             Feed(Opening("response.output_item.added", kind), kind)
       \/ phase \in Blocks /\ Feed(Within("response.delta"), phase)
       \/ /\ phase \in Blocks
          /\ Feed([New("response.output_item.done") EXCEPT !.kind = phase], "idle")
       \/ /\ phase = "idle"
          /\ \E end \in {<<"response.completed", "completed">>, <<"response.incomplete", "length">>,
                         <<"response.failed", "error">>} :
                Feed([New(end[1]) EXCEPT !.stop = end[2], !.tokens = 2,
                                         !.output = said.content], "over")

\* Chat chunks: a call comes with its first arguments or without, the last
\* choice with text or without, and the usage with it or behind it.
ChatEvent ==
    /\ source = "chat"
    /\ \/ phase \in {"start", "idle", "call"} /\ \E kind \in {"text", "think"} :
             Feed([Chunk EXCEPT !.kind = kind, !.n = used + 1], "idle")
       \/ phase \in {"start", "idle", "call"} /\ \E n \in {0, used + 1} :
             Feed([Opening("chunk", "call") EXCEPT !.index = NewID - 1, !.n = n], "call")
       \/ phase = "call" /\ Feed([Within("chunk") EXCEPT !.index = NewID - 2], "call")
       \/ /\ phase \in {"start", "idle", "call"}
          /\ \E stop \in {"length", "error", IF said.content.tools = << >> THEN "stop" ELSE "tool_calls"},
                kind \in {"none", "text"}, tokens \in {0, 2} :
                Feed([Chunk EXCEPT !.kind = kind, !.n = IF kind = "text" THEN used + 1 ELSE 0,
                                   !.stop = stop, !.tokens = tokens],
                     IF tokens = 0 THEN "ending" ELSE "over")
       \/ phase = "ending" /\ Feed([Chunk EXCEPT !.tokens = 2], "over")

Next == ClaudeEvent \/ ResponsesEvent \/ ChatEvent

Spec == Init /\ [][Next]_vars

--------------------------------------------------------------------------------

\* A chat client of Claude: since the index does not advance, calls after the
\* first one are merged into it.
CallsMerged == source = "claude" /\ client = "chat" /\ Len(said.content.tools) > 1

\* response.incomplete and response.failed are translated into nothing, and their
\* usage is not read.
EndLost == source = "responses" /\ said.stop \in {"length", "error"}

\* The identity of Claude keeps no StreamState.
Stateless == source = "claude" /\ client = "claude"

\* The way an answer ended, as far as the client's format and the translator
\* tell it: Claude's has no error, and for calls that were cut off says tool_use;
\* Responses has a status.
StopTold ==
    CASE client = "chat" -> heard.stop = said.stop
      [] client = "claude" /\ source = "chat" /\ said.stop = "error" ->
            heard.stop \in {"stop", "tool_calls"}
      [] client = "claude" /\ source = "chat" /\ said.content.tools # << >> ->
            heard.stop = "tool_calls"
      [] client = "claude" -> heard.stop = said.stop
      [] client = "responses" -> heard.stop = "failed" <=> said.stop = "error"

\* At every moment the client has heard what the provider has said, in a stream
\* its format allows: no delta goes to another block or call, none is lost or
\* doubled, and the final event of a Responses stream repeats what was said.  At
\* the end it knows how the answer ended, and the stream is metered with its tokens.
SameAnswer ==
    /\ ~heard.bad
    /\ CallsMerged \/ heard.content = said.content
    /\ phase = "over" /\ ~EndLost =>
          /\ StopTold
          /\ heard.done \/ (client = "chat" /\ said.stop = "error")
          /\ Stateless \/ (state.tokens = said.tokens /\ (state.Finished <=> said.stop # "error"))
================================================================================
