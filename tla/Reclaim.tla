------------------------------ MODULE Reclaim ------------------------------
(***************************************************************************)
(* The expiry of ephemeral refs in one environment: maintenance passes     *)
(* (maintenance/reclaim.py, run by the gc command) beside the people and   *)
(* agents who open, move, discard and restore branches.                    *)
(*                                                                         *)
(* A pass scans once for what has expired and then discards one ref after  *)
(* another, by name; a discard reads the ref for itself and rebuilds the   *)
(* environment's keep-set afterwards, so that a pass is long.  The         *)
(* transaction of a caller is one step: it takes effect only if the ref is *)
(* as the caller read it.                                                  *)
(*                                                                         *)
(* Abstracted: targets, the operation log but for what it can restore; the *)
(* rest of a pass, which NameRegistry (orphan claims) and Collector        *)
(* (tombstones, keep-sets) have.                                           *)
(***************************************************************************)
EXTENDS Naturals, FiniteSets

CONSTANTS
    Branchings,   \* names of refs
    Passes,       \* gc commands
    Ttl,          \* ttl_days
    ScanLimit,    \* the limit of a scan
    MaxBranchOps, MaxScans, MaxContention, MaxDay   \* bounds

\* The time to live is whatever the caller asks for.
ASSUME ReclaimAssumption == Ttl \in Nat /\ MaxDay \in Nat

NoBranch == [lifecycle |-> "none"]
NotPassing == [step |-> "idle"]

VARIABLES
    branches,   \* per name, the ref item
    dropped,    \* names a logged operation restores
    passing,    \* what each pass is doing
    reclaimed,  \* history: what passes have deleted: [item, day, late]
    day,
    done        \* how often each thing bounded has happened

reclaimVars == <<branches, dropped, passing, reclaimed, day, done>>

ReclaimInit ==
    /\ branches = [r \in Branchings |-> NoBranch]
    /\ dropped = {} /\ reclaimed = {}
    /\ passing = [p \in Passes |-> NotPassing]
    /\ day = 0
    /\ done = [ops |-> 0, scans |-> 0, contention |-> 0]

\* A transaction of a caller's that takes effect on r.  A pass under way takes
\* note (history) of names that come to stand for another ref.
Alters(r, item) ==
    /\ done.ops < MaxBranchOps /\ done' = [done EXCEPT !.ops = @ + 1]
    /\ branches' = [branches EXCEPT ![r] = item]
    /\ passing' = [p \in Passes |->
          IF passing[p] # NotPassing /\ branches[r] = NoBranch
          THEN [passing[p] EXCEPT !.anew = @ \cup {r}] ELSE passing[p]]
    /\ UNCHANGED <<reclaimed, day>>

\* RefService.create: with a time to live, or for good.
OpenBranch(r) ==
    /\ branches[r] = NoBranch
    /\ \/ Alters(r, [lifecycle |-> "ephemeral", until |-> day + Ttl, generation |-> 1])
       \/ Alters(r, [lifecycle |-> "permanent", until |-> 0, generation |-> 1])
    /\ UNCHANGED dropped

\* Faulty variant: a ref that moves lives on.
MoveBranchRenewing(r) ==
    /\ branches[r] # NoBranch
    /\ Alters(r, [branches[r] EXCEPT !.generation = @ + 1, !.until = day + Ttl])
    /\ UNCHANGED dropped

\* update_ref: the lifecycle and the expiry are carried over.
MoveBranch(r) ==
    /\ branches[r] # NoBranch
    /\ Alters(r, [branches[r] EXCEPT !.generation = @ + 1])
    /\ UNCHANGED dropped

\* delete_ref
DropBranch(r) ==
    /\ branches[r] # NoBranch
    /\ Alters(r, NoBranch)
    /\ dropped' = dropped \cup {r}

\* undo of a deletion: create_ref, which makes the ref permanent.
RestoreBranch(r) ==
    /\ r \in dropped /\ branches[r] = NoBranch
    /\ Alters(r, [lifecycle |-> "permanent", until |-> 0, generation |-> 1])
    /\ UNCHANGED dropped

NextDay ==
    /\ day < MaxDay /\ day' = day + 1
    /\ UNCHANGED <<branches, dropped, passing, reclaimed, done>>

-----------------------------------------------------------------------------
\* A pass

Expired(r) == branches[r].lifecycle = "ephemeral" /\ branches[r].until <= day

\* expired_refs, in no order and no more than the limit.
Scan(p) ==
    /\ passing[p] = NotPassing
    /\ done.scans < MaxScans /\ done' = [done EXCEPT !.scans = @ + 1]
    /\ LET all == {r \in Branchings : Expired(r)}
       IN  \E found \in SUBSET all :
              /\ found = all \/ Cardinality(found) = ScanLimit
              /\ Cardinality(found) <= ScanLimit
              /\ passing' = [passing EXCEPT ![p] =
                    [step |-> "next", found |-> [r \in found |-> branches[r]], todo |-> found,
                     item |-> NoBranch, left |-> {}, anew |-> {}]]
    /\ UNCHANGED <<branches, dropped, reclaimed, day>>

\* Faulty variant: the first ref that cannot be discarded ends the loop.
ReadNextOrStop(p, r) ==
    /\ passing[p].step = "next" /\ r \in passing[p].todo
    /\ passing' = [passing EXCEPT
          ![p].todo = IF branches[r] = NoBranch THEN {} ELSE @ \ {r},
          ![p].item = IF branches[r] = NoBranch THEN NoBranch ELSE [name |-> r, generation |-> branches[r].generation],
          ![p].step = IF branches[r] = NoBranch THEN "next" ELSE "delete"]
    /\ UNCHANGED <<branches, dropped, reclaimed, day, done>>

\* RefService.delete expects the generation it reads itself; a ref that is not
\* there any more is passed over.
ReadNext(p, r) ==
    /\ passing[p].step = "next" /\ r \in passing[p].todo
    /\ \/ /\ branches[r] = NoBranch
          /\ passing' = [passing EXCEPT ![p].todo = @ \ {r}]
       \/ /\ branches[r] # NoBranch
          /\ passing' = [passing EXCEPT ![p].todo = @ \ {r}, ![p].step = "delete",
                            ![p].item = [name |-> r, generation |-> branches[r].generation]]
    /\ UNCHANGED <<branches, dropped, reclaimed, day, done>>

\* delete_ref: the ref goes if it has that generation, and else is passed over.
Reclaim(p) ==
    LET r == passing[p].item.name
        b == branches[r]
    IN  /\ passing[p].step = "delete"
        /\ passing' = [passing EXCEPT ![p].step = "next", ![p].item = NoBranch]
        /\ IF b # NoBranch /\ b.generation = passing[p].item.generation
           THEN /\ branches' = [branches EXCEPT ![r] = NoBranch]
                /\ dropped' = dropped \cup {r}
                /\ reclaimed' = reclaimed \cup
                      {[item |-> b, day |-> day, late |-> r \in passing[p].anew]}
           ELSE UNCHANGED <<branches, dropped, reclaimed>>
        /\ UNCHANGED <<day, done>>

\* The operation counter stays contended: the ref is passed over as it is.
Contend(p) ==
    /\ passing[p].step = "delete"
    /\ done.contention < MaxContention /\ done' = [done EXCEPT !.contention = @ + 1]
    /\ passing' = [passing EXCEPT ![p].step = "next", ![p].item = NoBranch,
                                  ![p].left = @ \cup {passing[p].item.name}]
    /\ UNCHANGED <<branches, dropped, reclaimed, day>>

\* The list is done with, or the process dies.
EndPass(p) ==
    /\ passing[p] # NotPassing
    /\ passing' = [passing EXCEPT ![p] = NotPassing]
    /\ UNCHANGED <<branches, dropped, reclaimed, day, done>>

ReclaimNext ==
    \/ \E r \in Branchings : OpenBranch(r) \/ MoveBranch(r) \/ DropBranch(r) \/ RestoreBranch(r)
    \/ \E p \in Passes :
          Scan(p) \/ (\E r \in Branchings : ReadNext(p, r)) \/ Reclaim(p) \/ Contend(p) \/ EndPass(p)
    \/ NextDay

ReclaimSpec == ReclaimInit /\ [][ReclaimNext]_reclaimVars

-----------------------------------------------------------------------------
\* Properties

\* The shape of the state; a pass works through what it found.
ReclaimTypeOK ==
    /\ \A r \in Branchings :
          \/ branches[r] = NoBranch
          \/ branches[r].lifecycle = "permanent" /\ branches[r].until = 0
          \/ branches[r].lifecycle = "ephemeral" /\ branches[r].until \in Ttl .. MaxDay + Ttl
    /\ \A p \in Passes : passing[p] = NotPassing \/ passing[p].todo \subseteq DOMAIN passing[p].found

\* A pass deletes a ref only when it has expired, however it was moved since the
\* scan; but for a name that was given to another ref meanwhile.
OnlyExpiredGo ==
    \A x \in reclaimed : x.late \/ (x.item.lifecycle = "ephemeral" /\ x.item.until <= x.day)

\* A pass leaves nothing behind of what it found, whichever of it could not be
\* discarded, has been moved or has been discarded already by another pass:
\* what it is through with is gone or another ref, if the operation counter
\* was to be had.
FoundIsGone ==
    \A p \in Passes : passing[p] # NotPassing =>
        LET q == passing[p]
        IN  q.step = "next" => \A r \in DOMAIN q.found \ (q.todo \cup q.left) : branches[r] # q.found[r]

\* A permanent ref is permanent: no pass takes it.
PermanentStays == \A x \in reclaimed : x.item.lifecycle # "permanent"

\* A pass takes all that has expired of what it found, and nothing else, while
\* callers and other passes move refs under it.
ReclaimInv == ReclaimTypeOK /\ OnlyExpiredGo /\ FoundIsGone
=============================================================================
