--------------------------- MODULE MCAgentHistory ---------------------------
(* Instances of an agent's history for TLC. *)
EXTENDS AgentHistory

Times(i, c, o, f, s, d, compacts, reads) ==
  [p \in Op |-> CASE p = "input" -> i [] p = "cancel" -> c [] p = "offload" -> o
                   [] p = "fail" -> f [] p = "summary" -> s [] p = "crash" -> d
                   [] p = "compact" -> compacts [] p = "read" -> reads]

\* Two turns with a cancelled one and /offload; turns that summarize twice and meet a
\* failure; and a server that dies: a tool beside compact_conversation or beside
\* read_file, and in a turn all three.
Histories ==
  UNION {{Times(2, 1, 1, 0, 1, 0, k, 1 - k), Times(2, 1, 0, 1, 1, 0, k, 1 - k),
          Times(2, 0, 0, 1, 2, 0, k, 1 - k), Times(1, 1, 1, 0, 1, 1, k, 1 - k)} : k \in {0, 1}}
  \cup {Times(1, 1, 0, 0, 1, 0, 1, 1)}
\* A turn is cancelled, and the next one runs.
Interrupted == {Times(2, 1, 0, 0, 0, 0, 0, 0)}
=============================================================================
