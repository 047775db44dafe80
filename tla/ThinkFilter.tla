------------------------------ MODULE ThinkFilter ------------------------------
(***************************************************************************)
(* thinkingFilter of internal/provider/cursor/think.go: text of Cursor comes *)
(* in pieces that are cut anywhere, and the tags in it say what is thinking. *)
(* A tag that may go on in the next piece is held back.                     *)
(*                                                                         *)
(* Text is a sequence of signs; "think" is also what is between the tags.   *)
(***************************************************************************)
EXTENDS Integers, Sequences, SequencesExt

CONSTANTS
    MaxText,   \* bound: signs between two flushes
    MaxPiece,  \* bound: signs of a piece
    MaxTagLen  \* maxThinkingTagLen

VARIABLES
    began,      \* inThinking when the text began
    given,      \* the text since the last Flush
    buffer, inThinking,  \* the thinkingFilter
    content, reasoning   \* what it has returned

vars == <<began, given, buffer, inThinking, content, reasoning>>

Signs == {"<", "/", "think", " ", ">"}
Texts(n) == UNION {[1 .. k -> Signs] : k \in 0 .. n}

TypeOK ==
    /\ began \in BOOLEAN /\ inThinking \in BOOLEAN
    /\ \A s \in {given, buffer, content, reasoning} : s \in Seq(Signs) /\ Len(s) <= MaxText
    /\ Len(buffer) < MaxTagLen

\* newThinkingFilter; only a text after a Flush may begin in a thought.
Init ==
    /\ began = FALSE /\ inThinking = FALSE
    /\ given = << >> /\ buffer = << >> /\ content = << >> /\ reasoning = << >>

\* thinkingTagRe: a name, with a slash or without, and blanks behind it.
Opens(tag) == tag[2] = "think"
IsTag(s) ==
    LET name == IF Len(s) > 1 /\ s[2] = "/" THEN 3 ELSE 2 IN
    /\ Len(s) > name
    /\ s[1] = "<" /\ s[name] = "think" /\ Last(s) = ">"
    /\ \A i \in name + 1 .. Len(s) - 1 : s[i] = " "

At(s, t) == {i \in DOMAIN s : s[i] = t}
Tags(s) == {m \in At(s, "<") \X At(s, ">") : m[1] < m[2] /\ IsTag(SubSeq(s, m[1], m[2]))}

\* partialTagRe, on the rest from its last "<" on, if it is not too long.
Partial(s) ==
    /\ s # << >> /\ Len(s) < MaxTagLen
    /\ s[1] = "<"
    /\ \A i \in 2 .. Len(s) : s[i] = "think" \/ (i = 2 /\ s[i] = "/")

\* The place of the last "<", or the end.
LastOpen(s) == SelectLastInSeq(s, LAMBDA t : t = "<")
HeldBack(s) ==
    LET at == LastOpen(s)
        tail == IF at = 0 THEN << >> ELSE SubSeq(s, at, Len(s))
    IN  IF Partial(tail) THEN tail ELSE << >>

\* Text goes to the side the filter is on.
Side(f, s) ==
    IF f.thinking THEN [f EXCEPT !.reasoning = @ \o s] ELSE [f EXCEPT !.content = @ \o s]

\* Mutated: what is held back is not kept for the next piece.
ProcessForgets(f, text) ==
    LET input == f.buffer \o text
        tags == SetToSortSeq(Tags(input), LAMBDA a, b : a[1] < b[1])
        Cut(g, m) == [Side(g, SubSeq(input, g.last + 1, m[1] - 1)) EXCEPT
                         !.thinking = Opens(SubSeq(input, m[1], m[2])), !.last = m[2]]
        cut == FoldLeft(Cut, f, tags)
        rest == SubSeq(input, cut.last + 1, Len(input))
    IN  [Side(cut, rest) EXCEPT !.buffer = << >>]

\* Process: the text before each tag, and the rest but for what may become a tag.
Process(f, text) ==
    LET input == f.buffer \o text
        tags == SetToSortSeq(Tags(input), LAMBDA a, b : a[1] < b[1])
        Cut(g, m) == [Side(g, SubSeq(input, g.last + 1, m[1] - 1)) EXCEPT
                         !.thinking = Opens(SubSeq(input, m[1], m[2])), !.last = m[2]]
        cut == FoldLeft(Cut, f, tags)
        rest == SubSeq(input, cut.last + 1, Len(input))
        held == HeldBack(rest)
    IN  [Side(cut, SubSeq(rest, 1, Len(rest) - Len(held))) EXCEPT !.buffer = held]

Filter == [thinking |-> inThinking, buffer |-> buffer,
           content |-> content, reasoning |-> reasoning, last |-> 0]

Piece(text) ==
    /\ Len(given) + Len(text) <= MaxText
    /\ LET f == Process(Filter, text) IN
          /\ inThinking' = f.thinking /\ buffer' = f.buffer
          /\ content' = f.content /\ reasoning' = f.reasoning
    /\ given' = given \o text
    /\ UNCHANGED began

\* A tool call or the end: what is held back is text after all.
Flush ==
    /\ given # << >>
    /\ began' = inThinking /\ given' = << >>
    /\ buffer' = << >> /\ content' = << >> /\ reasoning' = << >>
    /\ UNCHANGED inThinking

Next == Flush \/ \E text \in Texts(MaxPiece) : text # << >> /\ Piece(text)

Spec == Init /\ [][Next]_vars

--------------------------------------------------------------------------------

\* The signs of a text that are in no tag, on one side: a sign is thinking if the
\* last tag before it is an opening one.
Reads(s, thinking) ==
    LET tags == Tags(s)
        before(i) == {m \in tags : m[2] < i}
        mode(i) == IF before(i) = {} THEN began
                   ELSE LET m == CHOOSE m \in before(i) : \A o \in before(i) : o[2] <= m[2]
                        IN  Opens(SubSeq(s, m[1], m[2]))
        outside(i) == \A m \in tags : i < m[1] \/ i > m[2]
        at == {i \in DOMAIN s : outside(i) /\ mode(i) = thinking}
    IN  FoldLeftDomain(LAMBDA said, i : IF i \in at THEN Append(said, s[i]) ELSE said, << >>, s)

\* A blank in a tag: the text before it is not held back.
Spaced(s) == \E m \in Tags(s) : s[m[2] - 1] = " "

\* Where the pieces are cut makes no difference: what was returned, and what Flush
\* would return now, is what the whole text says, in both sides; only a tag with
\* blanks in it must come in one piece.
SplitAgnostic ==
    Spaced(given) \/
        LET end == Side(Filter, buffer)
        IN  end.content = Reads(given, FALSE) /\ end.reasoning = Reads(given, TRUE)
================================================================================
