------------------------------ MODULE MCActors ------------------------------
(* The dispatchers of the change stream with their fairness, and jj over    *)
(* the endpoints made for it, side by side: each moves while the other is   *)
(* where it starts, so their states add up.                                 *)
EXTENDS MCChangeStream, JjBackend

CONSTANTS text, name

MCLength == text :> 3
MCSignatures == {[name |-> "agent", email |-> "mail", millis |-> 2, tz |-> 60]}

ActorsInit == Init /\ JjInit

ActorsNext ==
    \/ JjInit /\ Next /\ UNCHANGED jjVars
    \/ Init /\ JjNext /\ UNCHANGED vars

actors == <<vars, jjVars>>

FairActors ==
    /\ ActorsInit /\ [][ActorsNext]_actors
    /\ \A d \in Dispatchers : WF_actors(JjInit /\ Poll(d) /\ UNCHANGED jjVars)
=============================================================================
