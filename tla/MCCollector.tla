----------------------------- MODULE MCCollector -----------------------------
(* The collector with its writers, and the build queue, on small instances *)
(* side by side: each moves while the other is where it starts, so their   *)
(* states add up.                                                          *)
EXTENDS Collector, BuildQueue, TLC

\* Trees that have all their blobs in common.
Shared == [t \in Trees |-> Blobs]

\* One writer brings content in, the other moves refs about.
CONSTANTS w1, Brings, Moves
TwoParts == [w \in Writers |-> IF w = w1 THEN Brings ELSE Moves]

Symmetry == Permutations(Trees) \cup Permutations(Blobs) \cup Permutations(Workers)

\* A worker dies in behaviours without a rebuild by hand or a repeated delivery.
OneDisturbance ==
    spent'.crashes > 0 => spent'.reruns = 0 /\ spent'.deliveries = Cardinality(delivered')

CollectorInit == Init /\ QueueInit

\* The queue is where it starts until something is published; from then on
\* the collector is.
QueueRests == \A e \in Envs : published[e] = <<>>

CollectorNext ==
    \/ QueueRests /\ Next /\ UNCHANGED queueVars
    \/ (QueueRests => Init) /\ QueueNext /\ OneDisturbance /\ UNCHANGED vars

CollectorSpec == CollectorInit /\ [][CollectorNext]_<<vars, queueVars>>
=============================================================================
