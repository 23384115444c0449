-------------------------- MODULE MCServerProcess --------------------------
(* Instances of the server subprocesses for TLC. *)
EXTENDS ServerProcess, TLC

PortSymmetry == Permutations(Port)
EachOnce == [op \in Op |-> 1]
QuitOnly == [op \in Op |-> IF op = "quit" THEN 1 ELSE 0]
=============================================================================
