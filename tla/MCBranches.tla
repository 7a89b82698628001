----------------------------- MODULE MCBranches -----------------------------
(* The refs of an environment, and the passes that discard expired ones,   *)
(* side by side: each moves while the other is where it starts, so their   *)
(* states add up.                                                          *)
EXTENDS MCRefStore, Reclaim

BranchesInit == Init /\ ReclaimInit

BranchesNext ==
    \/ ReclaimInit /\ Next /\ UNCHANGED reclaimVars
    \/ Init /\ ReclaimNext /\ UNCHANGED vars

BranchesSpec == BranchesInit /\ [][BranchesNext]_<<vars, reclaimVars>>
=============================================================================
