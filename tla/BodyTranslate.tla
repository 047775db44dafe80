----------------------------- MODULE BodyTranslate -----------------------------
(***************************************************************************)
(* The translators of whole bodies: requestFns and responseFns of             *)
(* internal/translate/registry.go, and ParseMessages of                       *)
(* internal/provider/cursor/parse.go, which reads what they make for Cursor.  *)
(*                                                                         *)
(* A part is a text, a thought, a tool call or a tool result, with a number:  *)
(* of a text or thought its own, of a result the one of its call.  A body is  *)
(* its top-level instructions and its messages, each with a role and parts.   *)
(* An item of the Responses format is a message whose role is its type; the    *)
(* reasoning, text and calls of a chat message are parts in this order.        *)
(*                                                                         *)
(* A client keeps the conversation in its own format, every answer as it was  *)
(* translated for it, and sends all of it with each request.  Which provider  *)
(* gets the request is decided anew each time.                               *)
(***************************************************************************)
EXTENDS Integers, Sequences, SequencesExt

CONSTANT MaxParts  \* bound: parts of a conversation

VARIABLES
    inbound,  \* the format of the client
    history,  \* the conversation as the client has it
    answer,   \* what the provider said that answered last, part by part
    by        \* this provider

vars == <<inbound, history, answer, by>>

Formats == {"claude", "chat", "responses"}
Executors == {"claude", "codex", "openai", "cursor"}  \* grok as codex
Kinds == {"text", "think", "call"}

Part(kind, n) == [kind |-> kind, n |-> n]
Msg(role, parts) == [role |-> role, parts |-> parts]
Body(top, messages) == [top |-> top, messages |-> messages]

Of(parts, kind) == SelectSeq(parts, LAMBDA p : p.kind = kind)
Sorted(parts) == Of(parts, "think") \o Of(parts, "text") \o Of(parts, "call")
MapSeq(Op(_), s) == [i \in DOMAIN s |-> Op(s[i])]
FlatMap(Op(_), s) == FlattenSeq(MapSeq(Op, s))
IfAny(role, parts) == IF parts = << >> THEN << >> ELSE <<Msg(role, parts)>>
Each(role, parts) == MapSeq(LAMBDA p : Msg(role, <<p>>), parts)
PartsOf(messages) == FlatMap(LAMBDA m : m.parts, messages)

--------------------------------------------------------------------------------
(* What clients and providers write: external, by the APIs' grammars.         *)

\* A chat message has its reasoning and its calls in fields of their own.
ChatSays(parts) == <<Msg("assistant", Sorted(parts))>>
ChatAsks(parts) == Each("tool", Of(parts, "result")) \o IfAny("user", Of(parts, "text"))

ItemType(role, p) ==
    CASE p.kind = "text" -> role
      [] p.kind = "think" -> "reasoning"
      [] p.kind = "call" -> "function_call"
      [] p.kind = "result" -> "function_call_output"
Items(role, parts) == MapSeq(LAMBDA p : Msg(ItemType(role, p), <<p>>), parts)

\* A provider that speaks the format says the parts.
Says(format, parts) ==
    CASE format = "claude" -> Body(<< >>, <<Msg("assistant", parts)>>)
      [] format = "chat" -> Body(<< >>, ChatSays(parts))
      [] format = "responses" -> Body(<< >>, Items("assistant", parts))

\* The messages in which a client sends the parts.
Asks(format, parts) ==
    CASE format = "claude" -> <<Msg("user", parts)>>
      [] format = "chat" -> ChatAsks(parts)
      [] format = "responses" -> Items("user", parts)

\* A Responses client gives the first system prompt as its instructions, or none of them.
Begins(format, system) ==
    CASE format = "claude" -> {Body(system, << >>)}
      [] format = "chat" -> {Body(<< >>, Each("system", system))}
      [] format = "responses" ->
            {Body(SubSeq(system, 1, n), Each("system", SubSeq(system, n + 1, Len(system)))) :
                n \in {k \in 0 .. 1 : k <= Len(system)}}

--------------------------------------------------------------------------------
(* Requests.                                                               *)

System(messages) == SelectSeq(messages, LAMBDA m : m.role = "system")
Others(messages) == SelectSeq(messages, LAMBDA m : m.role # "system")

OpenaiChatToClaude(b) ==
    LET Translated(m) ==
            CASE m.role = "tool" -> Msg("user", m.parts)
              [] m.role = "assistant" -> Msg("assistant", Sorted(m.parts))
              [] OTHER -> Msg("user", Of(m.parts, "text"))
    IN  Body(PartsOf(System(b.messages)), MapSeq(Translated, Others(b.messages)))

OpenaiChatToCodex(b) ==
    LET Translated(m) ==
            CASE m.role = "tool" -> <<Msg("function_call_output", m.parts)>>
              [] m.role = "assistant" ->
                    IfAny("reasoning", Of(m.parts, "think"))
                        \o IfAny("assistant", Of(m.parts, "text"))
                        \o Each("function_call", Of(m.parts, "call"))
              [] OTHER -> <<Msg("user", Of(m.parts, "text"))>>
    IN  Body(PartsOf(System(b.messages)), FlatMap(Translated, Others(b.messages)))

\* The message of a user who sends tool results is the results.
ClaudeToGrok(b) ==
    LET Translated(m) ==
            CASE m.role = "assistant" -> <<Msg("assistant", Sorted(m.parts))>>
              [] m.role = "user" /\ Of(m.parts, "result") # << >> ->
                    Each("tool", Of(m.parts, "result"))
              [] OTHER -> <<Msg(m.role, Of(m.parts, "text"))>>
    IN  Body(<< >>, IfAny("system", b.top) \o FlatMap(Translated, b.messages))

\* Texts are collected until a part that is an item of its own ends them; a thought
\* does not.
Itemize(role, parts, ends, passes) ==
    LET Step(acc, p) ==
            CASE p.kind \in DOMAIN ends ->
                    [items |-> acc.items \o IfAny(role, acc.texts) \o <<Msg(ends[p.kind], <<p>>)>>,
                     texts |-> << >>]
              [] p.kind \in DOMAIN passes ->
                    [acc EXCEPT !.items = Append(@, Msg(passes[p.kind], <<p>>))]
              [] OTHER -> [acc EXCEPT !.texts = Append(@, p)]
        all == FoldLeft(Step, [items |-> << >>, texts |-> << >>], parts)
    IN  all.items \o IfAny(role, all.texts)

ClaudeToCodex(b) ==
    LET Translated(m) ==
            IF m.role = "assistant"
              THEN Itemize("assistant", m.parts, [call |-> "function_call"], [think |-> "reasoning"])
              ELSE Itemize("user", m.parts, [result |-> "function_call_output"], << >>)
    IN  Body(b.top, FlatMap(Translated, b.messages))

\* The types of items that are messages of a chat.
ChatRole(role) ==
    CASE role \in {"reasoning", "function_call"} -> "assistant"
      [] role = "function_call_output" -> "tool"
      [] OTHER -> role

ResponsesToGrok(b) ==
    Body(<< >>, IfAny("system", b.top)
                  \o MapSeq(LAMBDA m : Msg(ChatRole(m.role), m.parts), b.messages))

\* Each system message takes the place of the instructions and of those before it.
ResponsesToClaude(b) ==
    LET Role(role) == IF role \in {"assistant", "reasoning", "function_call"} THEN "assistant" ELSE "user"
        system == System(b.messages)
    IN  Body(IF system = << >> THEN b.top ELSE Last(system).parts,
             MapSeq(LAMBDA m : Msg(Role(m.role), m.parts), Others(b.messages)))

\* requestFns; grok is translated as codex, openai as cursor.
TranslateRequest(from, to, b) ==
    CASE from = "chat" /\ to = "claude" -> OpenaiChatToClaude(b)
      [] from = "chat" /\ to = "codex" -> OpenaiChatToCodex(b)
      [] from = "claude" /\ to = "codex" -> ClaudeToCodex(b)
      [] from = "claude" /\ to \in {"openai", "cursor"} -> ClaudeToGrok(b)
      [] from = "responses" /\ to = "claude" -> ResponsesToClaude(b)
      [] from = "responses" /\ to \in {"openai", "cursor"} -> ResponsesToGrok(b)
      [] OTHER -> b

--------------------------------------------------------------------------------
(* ParseMessages: the turns of a chat for Cursor.  A step is a text, or a call  *)
(* and whether it has its result.                                            *)

TextStep(p) == [kind |-> "text", n |-> p.n, result |-> FALSE]
CallStep(p) == [kind |-> "call", n |-> p.n, result |-> p.kind = "result"]
NoTurn == [user |-> << >>, steps |-> << >>]
Turn(user) == [user |-> user, steps |-> << >>]

\* A result goes to the step of its call, if there is one in the turn.
Gets(steps, p) ==
    IF \E i \in DOMAIN steps : steps[i].kind = "call" /\ steps[i].n = p.n
      THEN MapSeq(LAMBDA s : IF s.kind = "call" /\ s.n = p.n THEN CallStep(p) ELSE s, steps)
      ELSE Append(steps, CallStep(p))

ParseStep(acc, m) ==
    CASE m.role = "user" ->
            [turns |-> IF acc.current = NoTurn THEN acc.turns ELSE Append(acc.turns, acc.current),
             current |-> Turn(m.parts)]
      [] m.role # "user" /\ acc.current = NoTurn -> acc
      [] m.role = "assistant" /\ acc.current # NoTurn ->
            [acc EXCEPT !.current.steps = @ \o MapSeq(TextStep, Of(m.parts, "text"))
                                            \o MapSeq(CallStep, Of(m.parts, "call"))]
      [] m.role = "tool" /\ acc.current # NoTurn ->
            [acc EXCEPT !.current.steps = Gets(@, m.parts[1])]

\* The last turn is asked if nothing was answered to it yet, or a call was the last
\* step; else it is one more turn of the past.
ParseMessages(messages) ==
    LET all == FoldLeft(ParseStep, [turns |-> << >>, current |-> NoTurn], Others(messages))
        steps == all.current.steps
        asked == steps = << >> \/ Last(steps).kind = "call"
    IN  IF asked
          THEN [turns |-> all.turns, userText |-> all.current.user,
                toolResults |-> SelectSeq(steps, LAMBDA s : s.result)]
          ELSE [turns |-> Append(all.turns, all.current), userText |-> << >>, toolResults |-> << >>]

--------------------------------------------------------------------------------
(* Whole answers: the content of one assistant, as messages.                  *)

ClaudeToOpenaiChat(b) == Body(<< >>, <<Msg("assistant", Sorted(PartsOf(b.messages)))>>)

\* A message replaces the content of the one before.
CodexToOpenaiChat(b) ==
    LET texts == SelectSeq(b.messages, LAMBDA m : m.role = "assistant")
        parts == PartsOf(b.messages)
    IN  Body(<< >>, <<Msg("assistant",
              Of(parts, "think") \o (IF texts = << >> THEN << >> ELSE Last(texts).parts)
                \o Of(parts, "call"))>>)

GrokToClaude(b) == b
CodexToClaude(b) == Body(<< >>, <<Msg("assistant", PartsOf(b.messages))>>)
GrokToResponses(b) ==
    LET parts == PartsOf(b.messages)
    IN  Body(<< >>, IfAny("reasoning", Of(parts, "think")) \o IfAny("assistant", Of(parts, "text"))
                      \o Each("function_call", Of(parts, "call")))
ClaudeToResponses(b) ==
    Body(<< >>, Itemize("assistant", PartsOf(b.messages), [call |-> "function_call"],
                        [think |-> "reasoning"]))

\* What a provider speaks.
Speaks(provider) ==
    CASE provider = "claude" -> "claude"
      [] provider = "codex" -> "responses"
      [] provider \in {"openai", "cursor"} -> "chat"

TranslateResponse(from, provider, b) ==
    CASE from = "chat" /\ provider = "claude" -> ClaudeToOpenaiChat(b)
      [] from = "chat" /\ provider = "codex" -> CodexToOpenaiChat(b)
      [] from = "claude" /\ Speaks(provider) = "chat" -> GrokToClaude(b)
      [] from = "claude" /\ provider = "codex" -> CodexToClaude(b)
      [] from = "responses" /\ Speaks(provider) = "chat" -> GrokToResponses(b)
      [] from = "responses" /\ provider = "claude" -> ClaudeToResponses(b)
      [] OTHER -> b

--------------------------------------------------------------------------------
(* The conversation.                                                       *)

Talk == Others(history.messages)
SpokenBy(role) == IF role \in {"user", "tool", "function_call_output"} THEN "user" ELSE "assistant"
Spoke == IF Talk = << >> THEN "nobody" ELSE SpokenBy(Last(Talk).role)
Numbers == {p.n : p \in ToSet(history.top \o PartsOf(history.messages) \o answer)}
Fresh(i) == i + (IF Numbers = {} THEN 0 ELSE CHOOSE n \in Numbers : \A k \in Numbers : k <= n)

Init ==
    /\ inbound \in Formats
    /\ \E n \in 0 .. 3 : history \in Begins(inbound, [i \in 1 .. n |-> Part("text", i)])
    /\ answer = << >> /\ by = "openai"

TypeOK ==
    /\ inbound \in Formats /\ by \in Executors
    /\ \A p \in ToSet(history.top \o PartsOf(history.messages) \o answer) :
          p.kind \in Kinds \cup {"result"} /\ p.n \in 1 .. MaxParts

\* A user says something, or sends the result of every call, or both.
UserTurn ==
    /\ Spoke # "user"
    /\ \E text \in {<< >>, <<Part("text", Fresh(1))>>} :
          LET parts == MapSeq(LAMBDA p : Part("result", p.n), Of(answer, "call")) \o text
          IN  /\ parts # << >> /\ (text # << >> => Fresh(1) <= MaxParts)
              /\ history' = [history EXCEPT !.messages = @ \o Asks(inbound, parts)]
    /\ UNCHANGED <<inbound, answer, by>>

\* A provider answers with thoughts, texts and calls in any order.
AssistantTurn ==
    /\ Spoke = "user"
    /\ \E provider \in Executors, n \in 1 .. 3 : \E kinds \in [1 .. n -> Kinds] :
          LET parts == [i \in 1 .. n |-> Part(kinds[i], Fresh(i))]
              said == TranslateResponse(inbound, provider, Says(Speaks(provider), parts))
          IN  /\ Fresh(n) <= MaxParts
              /\ history' = [history EXCEPT !.messages = @ \o said.messages]
              /\ answer' = parts /\ by' = provider
    /\ UNCHANGED inbound

Next == UserTurn \/ AssistantTurn

Spec == Init /\ [][Next]_vars

--------------------------------------------------------------------------------
(* Properties.                                                             *)

Content(parts) == [k \in Kinds \cup {"result"} |-> Of(parts, k)]

\* What each side said before the other one spoke again: adjacent messages of a side
\* are one.
Stretches(messages) ==
    LET Heard(acc, m) ==
            IF acc # << >> /\ Last(acc).who = SpokenBy(m.role)
              THEN [acc EXCEPT ![Len(acc)].parts = @ \o m.parts]
              ELSE Append(acc, [who |-> SpokenBy(m.role), parts |-> m.parts])
    IN  MapSeq(LAMBDA s : [who |-> s.who, said |-> Content(s.parts)],
               FoldLeft(Heard, << >>, messages))

Meaning(b) == [rules |-> b.top \o PartsOf(System(b.messages)), talk |-> Stretches(Others(b.messages))]

\* Lost: what a Claude client says beside tool results, to providers that speak chat.
TextBesideResults(to) == inbound = "claude" /\ Speaks(to) = "chat"
\* Lost: the instructions of a Responses client with system messages, and all of these
\* but the last, to Claude.
OnlyLastSystem(to) == inbound = "responses" /\ to = "claude" /\ System(history.messages) # << >>
\* Lost: all texts but the last that Codex says to a chat client.
OnlyLastText == inbound = "chat" /\ by = "codex"

\* The conversation less what is lost on the way to the provider.
Told(to) ==
    LET Heard(m) ==
            IF TextBesideResults(to) /\ Of(m.parts, "result") # << >>
              THEN Msg(m.role, Of(m.parts, "result")) ELSE m
        heard == MapSeq(Heard, history.messages)
    IN  IF OnlyLastSystem(to) THEN Body(<< >>, <<Last(System(heard))>> \o Others(heard))
        ELSE Body(history.top, heard)

\* Whichever provider is asked is told the rules and the whole conversation, turn by
\* turn and in order: nothing is dropped, doubled or given to the other side.
SameConversation ==
    Spoke = "user" => \A to \in Executors : Meaning(TranslateRequest(inbound, to, history)) = Meaning(Told(to))

\* The client hears the thoughts, the texts and the calls the provider said.
SameReply ==
    Spoke = "assistant" =>
        LET texts == Of(answer, "text")
            kept == IF OnlyLastText /\ texts # << >> THEN <<Last(texts)>> ELSE texts
        IN  Last(Stretches(Talk)).said = [Content(answer) EXCEPT !["text"] = kept]

\* What follows the last thing the user said, and that.
UserSaid == PartsOf(SelectSeq(Others(Told("cursor").messages), LAMBDA m : m.role = "user"))
UserTexts == Of(UserSaid, "text")
SinceUser ==
    LET parts == PartsOf(Others(Told("cursor").messages))
        from == CHOOSE i \in DOMAIN parts : parts[i] = Last(UserTexts)
    IN  SubSeq(parts, from + 1, Len(parts))

\* Lost: results of a Responses client for calls with a text behind them.  Cursor's
\* parser takes the text for the end of the turn and finds nothing to answer.
TextBehindCalls ==
    LET steps == SelectSeq(SinceUser, LAMBDA p : p.kind \in {"text", "call"})
    IN  inbound = "responses" /\ steps # << >> /\ Last(steps).kind = "text"

\* Cursor answers the last thing the user said, with the results since then, and has
\* all before it as turns of the past.
RightTurn ==
    Spoke = "user" =>
        LET parsed == ParseMessages(TranslateRequest(inbound, "cursor", history).messages)
            past == FlatMap(LAMBDA t : t.user, parsed.turns)
        IN  IF TextBehindCalls
              THEN parsed.userText = << >> /\ parsed.toolResults = << >> /\ past = UserTexts
              ELSE /\ Len(parsed.userText) = 1 /\ past \o parsed.userText = UserTexts
                   /\ MapSeq(LAMBDA s : s.n, parsed.toolResults)
                        = MapSeq(LAMBDA p : p.n, Of(SinceUser, "result"))
                   /\ \A t \in ToSet(parsed.turns) : \A s \in ToSet(t.steps) : s.kind = "call" => s.result
================================================================================
