---------------------------- MODULE MCAppSession ----------------------------
(* Instances of the session core for TLC: the kinds of the messages, and the *)
(* sessions each run goes through.                                           *)
EXTENDS AppSessionProps

CONSTANTS c1, c2, s1, k1, q1, q2

MCKind == [m \in Msg |-> CASE m \in {c1, c2} -> "chat"
                          [] m = s1 -> "shell"
                          [] OTHER -> "clear"]
Times(f) == [op \in Op |-> IF op \in DOMAIN f THEN f[op] ELSE 0]
Once(S) == [op \in Op |-> IF op \in S THEN 1 ELSE 0]

Session(typed, budget) == [typed |-> typed, budget |-> budget]

\* Safety: a queue with interrupts and thread switches; every kind of restart.
Sessions == {
  Session({c1, c2, s1, k1}, Once({"forceClear"})),
  Session({c1, s1}, Times([interrupt |-> 1, pickThread |-> 2, threadFail |-> 1])),
  Session({c1}, Once({"restart", "login", "swap", "serverFail"}))}

\* The program is started with a prompt.
Prompted == {Session({c2, s1}, Once({"bypass", "threadFail", "swap", "teardownFail"}))}

\* Progress: the queue and what is deferred; recovery from a failed server.
Progress == {
  Session({c1, k1}, Once({"pickThread", "pickModel"})),
  Session({s1}, Once({"bypass", "pickModel", "restart", "serverFail"}))}

\* Two messages, and nothing else.
TwoTurns == {Session({c1, c2}, Once({}))}

Interchangeable == Permutations({c1, c2}) \cup Permutations({q1, q2})
=============================================================================
