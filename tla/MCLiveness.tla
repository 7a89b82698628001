----------------------------- MODULE MCLiveness -----------------------------
(* The refs of an environment and the build queue side by side, with the   *)
(* fairness of each: either moves while the other is where it starts.      *)
EXTENDS RefStore, BuildQueue, TLC

LiveInit == Init /\ QueueInit

LiveNext ==
    \/ QueueInit /\ Next /\ UNCHANGED queueVars
    \/ Init /\ QueueNext /\ UNCHANGED vars

live == <<vars, queueVars>>

LiveSpec ==
    /\ LiveInit /\ [][LiveNext]_live
    /\ \A c \in Clients : WF_live(QueueInit /\ Step(c) /\ UNCHANGED queueVars)
    /\ \A w \in Workers : WF_live(Init /\ RunOnce(w) /\ UNCHANGED vars)
    /\ \A e \in Envs : WF_live(Init /\ ExpireLease(e) /\ UNCHANGED vars)
    /\ \A c \in Tips : WF_live(Init /\ Abandon(c) /\ UNCHANGED vars)
=============================================================================
