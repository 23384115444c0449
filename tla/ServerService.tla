--------------------------- MODULE ServerService ---------------------------
(***************************************************************************)
(* What a ServerProcess object promises to those that hold it: a service   *)
(* that is brought up, may go down and be brought up again, and is spent   *)
(* by the first stop or the first failed start.  A spent service runs      *)
(* nothing and never comes back: its configuration directory is gone.      *)
(* ServerProcess implements it.                                            *)
(***************************************************************************)
CONSTANT Server

VARIABLE phase   \* [Server -> what its holder may rely on]

Phase == {"absent", "starting", "serving", "down", "spent"}

TypeOK == phase \in [Server -> Phase]

Init == phase = [s \in Server |-> "absent"]

Becomes(s, p) == phase' = [phase EXCEPT ![s] = p]

\* start() or restart() has spawned a process.
BringUp(s) == phase[s] \in {"absent", "down", "serving"} /\ Becomes(s, "starting")
\* The process answers its health check.
Answer(s) == phase[s] = "starting" /\ Becomes(s, "serving")
\* The process ends by itself, or is stopped to be replaced.
GoDown(s) == phase[s] \in {"starting", "serving"} /\ Becomes(s, "down")
\* stop(), at the end of the program or after a start that failed, be it the
\* first.
Spend(s) == phase[s] # "spent" /\ Becomes(s, "spent")

Next == \E s \in Server : BringUp(s) \/ Answer(s) \/ GoDown(s) \/ Spend(s)

Spec == Init /\ [][Next]_phase
=============================================================================
