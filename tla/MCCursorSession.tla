---------------------------- MODULE MCCursorSession ----------------------------
(* Bounds for the instances of CursorSession.                               *)
EXTENDS CursorSession

Twice(kinds) == <<kinds, kinds>>

\* One bridge, and three requests that may want it for its tool calls.
Tools == [requests |-> 3, bridges |-> 1, frames |-> <<2, 0, 0>>, kinds |-> Twice({"exec"}),
          streamed |-> {TRUE}, faults |-> {}, stalls |-> {}]

\* One bridge that is resumed, closed, failed or left at any time.
Resume == [requests |-> 2, bridges |-> 1, frames |-> <<2, 0, 0>>,
           kinds |-> Twice({"exec", "ended", "failed"}), streamed |-> {FALSE},
           faults |-> {"close", "leave"}, stalls |-> {}]

\* Two requests with bridges of their own.
Overlap == [requests |-> 2, bridges |-> 2, frames |-> <<2, 1, 0>>,
            kinds |-> <<{"blob", "checkpoint", "ended"}, {"checkpoint"}>>, streamed |-> {FALSE},
            faults |-> {"close"}, stalls |-> {}]

\* A checkpoint of a first turn, and one of the turn that resumes its bridge, which a
\* third request resumes in its turn.
Carry == [requests |-> 3, bridges |-> 1, frames |-> <<4, 0, 0>>,
          kinds |-> <<{"checkpoint"}, {"exec"}, {"blob"}, {"checkpoint"}>>, streamed |-> {FALSE},
          faults |-> {}, stalls |-> {}]

\* Two bridges that wait for the result of a call, and a request that brings one.
Displace == [requests |-> 3, bridges |-> 2, frames |-> <<1, 1, 0>>, kinds |-> <<{"exec"}>>,
             streamed |-> {FALSE}, faults |-> {}, stalls |-> {}]

\* One request alone.
Single == [requests |-> 1, bridges |-> 1, frames |-> <<2, 0, 0>>, kinds |-> Twice(Kinds),
           streamed |-> {TRUE, FALSE}, faults |-> {"close", "leave", "dead", "evict"},
           stalls |-> {}]

\* Tool calls and texts over a bridge whose server may stop reading.
StalledSingle == [Single EXCEPT !.kinds = Twice({"text", "exec"}), !.stalls = {1}]

\* A request that cancels such a bridge, next to a stream whose bridge is dead.
StalledLock == [Displace EXCEPT !.frames = <<1, 0, 0>>, !.faults = {"dead"}, !.stalls = {1}]

AllLimits == {Tools, Resume, Overlap, Carry, Displace, Single, StalledSingle, StalledLock}
JustOverlap == {Overlap}
================================================================================
