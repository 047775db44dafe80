------------------------------ MODULE MCStreamPipe ------------------------------
(* Small instances of StreamPipe for TLC.                                    *)
EXTENDS StreamPipe

\* Every form of stream: chat clients of Claude and of others, other clients, and the
\* identity, which only Claude's executor feeds.
AllRoutes ==
    {r \in Route : r.form = "identity" => r.relayed}
================================================================================
