------------------------------ MODULE MCTunnel ------------------------------
(* Module Tunnel for model checking: a few connections, each its own id.   *)
EXTENDS Tunnel, TLC

MCIdOf == [c \in Conns |-> c]

Interchangeable == Permutations(Conns)

=============================================================================
