--------------------------- MODULE MCMcpSessions ---------------------------
(* Instances of the MCP sessions for TLC: three calls of one server's tools. *)
EXTENDS McpSessions, TLC

CONSTANTS c1, c2, c3, n1
MCTarget == [c \in Call |-> n1]
Times(twice, once) ==
  [o \in Op |-> IF o \in twice THEN 2 ELSE IF o \in once THEN 1 ELSE 0]

\* What may go wrong in one behaviour.
Plays == {Times({"break"}, {"retryFail"}),
          Times({}, {"break", "reauth", "hang", "cancel"}),
          Times({}, {"break", "refuse", "closeFail", "cleanup"}),
          Times({}, {"refuse", "hang", "cancel", "cleanup"}),
          Times({}, {"hang", "closeFail", "cleanup"})}
=============================================================================
