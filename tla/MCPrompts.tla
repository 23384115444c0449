----------------------------- MODULE MCPrompts -----------------------------
(* Instances of the prompts for TLC. *)
EXTENDS Prompts, TLC

None0 == [o \in Op |-> 0]
\* Keys; what outlives a /restart, and is taken away by a /clear; a swap and a menu that
\* fails; a /force-clear, which takes a menu whose reason is being typed; an amended call.
Keys == [None0 EXCEPT !["turn"] = 2, !["reason"] = 1, !["escape"] = 1, !["toggle"] = 1]
Leftover == [None0 EXCEPT !["turn"] = 2, !["restart"] = 1, !["clear"] = 1]
Swapped == [None0 EXCEPT !["turn"] = 2, !["swap"] = 1, !["fail"] = 1]
Retyped == [None0 EXCEPT !["turn"] = 2, !["reason"] = 1, !["force"] = 1]
Amended == [None0 EXCEPT !["turn"] = 1, !["reason"] = 1, !["fail"] = 1, !["clear"] = 1]
Plays == {Keys, Leftover, Swapped, Retyped, Amended}
=============================================================================
