--------------------------- MODULE MCChangeStream ---------------------------
(* ChangeStream on small instances.                                        *)
EXTENDS ChangeStream, TLC

CONSTANTS e1, e2   \* two environments

\* Two environments in one shard, and one environment in each of two shards.
OneShard == [e \in Envs |-> 1]
TwoShards == (e1 :> 1) @@ (e2 :> 2)

Symmetry == Permutations(Writers) \cup Permutations(Dispatchers)
=============================================================================
