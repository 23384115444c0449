-------------------------- MODULE MCThreadSelector --------------------------
(* Instances of the thread selector for TLC. *)
EXTENDS ThreadSelector

\* Thread 3 is the newest and 2 was created last but one; 1 is of another directory.
MCSaved == [t \in Thread |-> CASE t = 1 -> 2 [] t = 2 -> 1 [] OTHER -> 3]

With(twice, once) ==
  [o \in Op |-> IF o \in twice THEN 2 ELSE IF o \in once THEN 1 ELSE 0]

\* A first opening, where the rows are drawn once they are loaded.
First == {
  With({"type"}, {"open", "scope", "fail"}),
  With({}, {"open", "type", "delete", "move", "column", "fail"}),
  With({}, {"open", "delete", "scope", "column"}),
  With({"delete"}, {"open", "sort", "move"})}
\* Cached rows, drawn at once, that the load then replaces or finds unchanged.
Again == {
  With({"open", "type"}, {"cached", "sort", "save"}),
  With({"open"}, {"cached", "delete", "prewarm", "sort"}),
  With({"open", "scope"}, {"cached", "column"})}
Selectors == First \cup Again
=============================================================================
