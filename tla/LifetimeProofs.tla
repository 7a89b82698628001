---------------------------- MODULE LifetimeProofs ---------------------------
(***************************************************************************)
(* Theorems about what lives for a time only.                              *)
(*                                                                         *)
(* Expired branches (Reclaim): for every set of names, any number of       *)
(* passes at once, every scan limit and every number of calls.             *)
(*                                                                         *)
(* Write sessions (Sessions): what is recorded under an open session stays *)
(* recorded and leased, and a session that was closed alone pins nothing,  *)
(* for any number of connections, objects, sessions and requests.          *)
(* Requests read the pages first and write later, so the invariant says    *)
(* what the pages a request holds are still good for: while the session is *)
(* open they are pages that are there, numbered from zero without a gap,   *)
(* so a page written behind them either extends the run or conflicts; and  *)
(* when no request overlapped its closing they are all there is.           *)
(***************************************************************************)
EXTENDS Reclaim, Sessions, FiniteSetTheorems, TLAPS

-----------------------------------------------------------------------------
\* Expired branches

BranchItem ==
    {b \in [lifecycle : {"permanent", "ephemeral"}, until : Nat, generation : Nat] :
        /\ b.lifecycle = "permanent" => b.until = 0
        /\ b.lifecycle = "ephemeral" => b.until \in Ttl .. MaxDay + Ttl}

Items == [name : Branchings, generation : Nat]
FoundMaps == UNION {[S -> BranchItem] : S \in SUBSET Branchings}
PassState == [step : {"next", "delete"}, found : FoundMaps, todo : SUBSET Branchings,
              item : Items \cup {NoBranch}, left : SUBSET Branchings, anew : SUBSET Branchings]

Types ==
    /\ branches \in [Branchings -> BranchItem \cup {NoBranch}]
    /\ passing \in [Passes -> PassState \cup {NotPassing}]
    /\ day \in 0 .. MaxDay

\* b is the ref f was, or its successor by moves.
Continues(b, f) == b # NoBranch /\ b.lifecycle = "ephemeral" /\ b.until = f.until

\* A pass and what it found: expired then, and still the same refs, gone, or
\* noted as other ones.
PassFits(q) ==
    /\ q.todo \subseteq DOMAIN q.found
    /\ \A r \in DOMAIN q.found : q.found[r].lifecycle = "ephemeral" /\ q.found[r].until <= day
    /\ q.step = "delete" => q.item \in Items /\ q.item.name \in DOMAIN q.found \ q.todo
    /\ \A r \in DOMAIN q.found \ q.anew :
          branches[r] = NoBranch \/ Continues(branches[r], q.found[r])

ExpiryInv ==
    /\ Types /\ OnlyExpiredGo
    /\ \A p \in Passes : passing[p] # NotPassing => PassFits(passing[p])

-----------------------------------------------------------------------------

LEMMA FoundMapsHold ==
  ASSUME NEW f \in FoundMaps
  PROVE  DOMAIN f \subseteq Branchings /\ \A r \in DOMAIN f : f[r] \in BranchItem
  BY DEF FoundMaps

LEMMA NoBranchIsNone ==
  /\ NoBranch \notin BranchItem /\ NoBranch \notin Items
  /\ \A b \in BranchItem : b.lifecycle # NoBranch.lifecycle
  /\ NotPassing \notin PassState
  <1>1. \A b \in BranchItem : b.lifecycle # "none"
    BY DEF BranchItem
  <1>2. NoBranch.lifecycle = "none"
    BY DEF NoBranch
  <1>3. NotPassing.step = "idle" /\ \A q \in PassState : q.step # "idle"
    BY DEF NotPassing, PassState
  <1>4. NoBranch \notin Items
    BY DEF NoBranch, Items
  <1> QED BY <1>1, <1>2, <1>3, <1>4

\* What any step does to a name.
Evolves(r) ==
    \/ branches'[r] = branches[r]
    \/ branches'[r] = NoBranch
    \/ branches[r] # NoBranch /\ branches'[r] = [branches[r] EXCEPT !.generation = @ + 1]
    \/ branches[r] = NoBranch /\ branches'[r] \in BranchItem
         /\ (branches'[r].lifecycle = "ephemeral" => branches'[r].until = day + Ttl)

\* A pass that has not moved takes note of the names given to other refs.
Watches(p) ==
    \/ passing'[p] = passing[p]
    \/ /\ passing[p] # NotPassing
       /\ \E S \in SUBSET Branchings :
             passing'[p] = [passing[p] EXCEPT !.anew = @ \cup S]

Noted(p) ==
    \A r \in Branchings : branches[r] = NoBranch /\ branches'[r] # NoBranch
        => passing[p] = NotPassing \/ r \in passing'[p].anew

\* A caller's transaction.
CallerStep ==
    /\ branches' \in [Branchings -> BranchItem \cup {NoBranch}]
    /\ passing' \in [Passes -> PassState \cup {NotPassing}]
    /\ \A r \in Branchings : Evolves(r)
    /\ \A p \in Passes : Watches(p) /\ Noted(p)
    /\ UNCHANGED <<reclaimed, day>>

LEMMA NewBranches ==
  ASSUME Types
  PROVE  /\ [lifecycle |-> "ephemeral", until |-> day + Ttl, generation |-> 1] \in BranchItem
         /\ [lifecycle |-> "permanent", until |-> 0, generation |-> 1] \in BranchItem
  BY ReclaimAssumption DEF Types, BranchItem

LEMMA Moved ==
  ASSUME NEW b \in BranchItem
  PROVE  [b EXCEPT !.generation = @ + 1] \in BranchItem
  BY DEF BranchItem

LEMMA CallersStep ==
  ASSUME Types, NEW r \in Branchings,
         OpenBranch(r) \/ MoveBranch(r) \/ DropBranch(r) \/ RestoreBranch(r)
  PROVE  CallerStep
  <1>0. /\ branches \in [Branchings -> BranchItem \cup {NoBranch}]
        /\ passing \in [Passes -> PassState \cup {NotPassing}]
    BY DEF Types
  <1>1. ASSUME NEW b \in BranchItem \cup {NoBranch}, Alters(r, b),
               \/ b = NoBranch
               \/ branches[r] # NoBranch /\ b = [branches[r] EXCEPT !.generation = @ + 1]
               \/ branches[r] = NoBranch /\ b \in BranchItem
                    /\ (b.lifecycle = "ephemeral" => b.until = day + Ttl)
        PROVE  CallerStep
    <2>1. branches' = [branches EXCEPT ![r] = b]
      BY <1>1 DEF Alters
    <2>2. \A s \in Branchings : Evolves(s)
      BY <1>0, <1>1, <2>1 DEF Evolves
    <2>3. ASSUME NEW p \in Passes
          PROVE  passing'[p] \in PassState \cup {NotPassing} /\ Watches(p) /\ Noted(p)
      <3>1. passing'[p] = IF passing[p] # NotPassing /\ branches[r] = NoBranch
                          THEN [passing[p] EXCEPT !.anew = @ \cup {r}] ELSE passing[p]
        BY <1>1 DEF Alters
      <3>2. CASE passing[p] # NotPassing /\ branches[r] = NoBranch
        <4> DEFINE q == [passing[p] EXCEPT !.anew = @ \cup {r}]
        <4>1. passing[p] \in PassState
          BY <1>0, <3>2
        <4>2. q \in PassState /\ q.anew = passing[p].anew \cup {r}
          BY <4>1 DEF PassState
        <4>3. Watches(p)
          BY <3>1, <3>2 DEF Watches
        <4>4. Noted(p)
          BY <1>0, <2>1, <3>1, <3>2, <4>2 DEF Noted
        <4> QED BY <3>1, <3>2, <4>2, <4>3, <4>4
      <3>3. CASE ~(passing[p] # NotPassing /\ branches[r] = NoBranch)
        <4>1. passing'[p] = passing[p]
          BY <3>1, <3>3
        <4> QED BY <1>0, <2>1, <3>3, <4>1 DEF Watches, Noted
      <3> QED BY <3>2, <3>3
    <2>4. passing' \in [Passes -> PassState \cup {NotPassing}]
      <3>1. passing' = [p \in Passes |-> passing'[p]]
        BY <1>1 DEF Alters
      <3> QED BY <2>3, <3>1
    <2>5. branches' \in [Branchings -> BranchItem \cup {NoBranch}]
      BY <1>0, <2>1
    <2>6. UNCHANGED <<reclaimed, day>>
      BY <1>1 DEF Alters
    <2> QED BY <2>2, <2>3, <2>4, <2>5, <2>6 DEF CallerStep
  <1>2. /\ [lifecycle |-> "ephemeral", until |-> day + Ttl, generation |-> 1] \in BranchItem
        /\ [lifecycle |-> "permanent", until |-> 0, generation |-> 1] \in BranchItem
    BY NewBranches
  <1>3. CASE OpenBranch(r) \/ RestoreBranch(r)
    BY <1>1, <1>2, <1>3 DEF OpenBranch, RestoreBranch
  <1>4. CASE MoveBranch(r)
    BY <1>0, <1>1, <1>4, Moved DEF MoveBranch
  <1>5. CASE DropBranch(r)
    BY <1>1, <1>5 DEF DropBranch
  <1> QED BY <1>3, <1>4, <1>5

\* One pass moves: the refs stay or the one it holds goes.
PassStep(p) ==
    /\ branches' \in [Branchings -> BranchItem \cup {NoBranch}]
    /\ \A r \in Branchings : branches'[r] \in {branches[r], NoBranch}
    /\ passing' \in [Passes -> PassState \cup {NotPassing}]
    /\ \A o \in Passes : o # p => passing'[o] = passing[o]
    /\ day' = day

LEMMA PassMoves ==
  ASSUME Types, NEW p \in Passes, NEW q \in PassState \cup {NotPassing},
         passing' = [passing EXCEPT ![p] = q], day' = day,
         branches' = branches \/ \E r : branches' = [branches EXCEPT ![r] = NoBranch]
  PROVE  PassStep(p) /\ passing'[p] = q
  BY DEF Types, PassStep

LEMMA StepsEvolve ==
  ASSUME NEW p \in Passes, PassStep(p)
  PROVE  /\ \A r \in Branchings : Evolves(r)
         /\ \A o \in Passes : o # p => Watches(o) /\ Noted(o)
  <1>1. \A r \in Branchings : Evolves(r) /\ ~(branches[r] = NoBranch /\ branches'[r] # NoBranch)
    BY DEF PassStep, Evolves
  <1> QED BY <1>1 DEF PassStep, Watches, Noted

\* A pass that has not moved still fits what it found.
LEMMA PassStays ==
  ASSUME ExpiryInv, NEW p \in Passes, \A r \in Branchings : Evolves(r), Watches(p), Noted(p),
         day' \in Nat, day <= day', passing'[p] # NotPassing
  PROVE  PassFits(passing[p])'
  <1> DEFINE q == passing[p]
  <1>0. /\ branches \in [Branchings -> BranchItem \cup {NoBranch}] /\ day \in Nat
        /\ q \in PassState \cup {NotPassing}
    BY DEF ExpiryInv, Types
  <1>1. q \in PassState /\ PassFits(q)
    BY <1>0 DEF Watches, ExpiryInv
  <1>2. /\ passing'[p].found = q.found /\ passing'[p].todo = q.todo
        /\ passing'[p].item = q.item /\ passing'[p].step = q.step
        /\ q.anew \subseteq passing'[p].anew
    BY <1>1 DEF Watches, PassState
  <1>3. DOMAIN q.found \subseteq Branchings /\ \A r \in DOMAIN q.found : q.found[r] \in BranchItem
    BY <1>1, FoundMapsHold DEF PassState
  <1>4. \A r \in DOMAIN q.found : q.found[r].until \in Nat
    BY <1>3 DEF BranchItem
  <1>5. \A r \in DOMAIN q.found : q.found[r].lifecycle = "ephemeral" /\ q.found[r].until <= day'
    BY <1>0, <1>1, <1>4 DEF PassFits
  <1>6. ASSUME NEW r \in DOMAIN q.found \ passing'[p].anew
        PROVE  branches'[r] = NoBranch \/ Continues(branches'[r], q.found[r])
    <2>1. r \in Branchings /\ (branches[r] = NoBranch \/ Continues(branches[r], q.found[r]))
      BY <1>1, <1>2, <1>3 DEF PassFits
    <2>2. CASE branches[r] = NoBranch
      BY <1>1, <1>6, <2>1, <2>2, NoBranchIsNone DEF Noted
    <2>3. CASE branches[r] # NoBranch /\ branches'[r] = [branches[r] EXCEPT !.generation = @ + 1]
      <3>1. branches[r] \in BranchItem /\ Continues(branches[r], q.found[r])
        BY <1>0, <2>1, <2>3
      <3>2. branches'[r] \in BranchItem /\ branches'[r].lifecycle = branches[r].lifecycle
            /\ branches'[r].until = branches[r].until
        <4>1. branches'[r] \in BranchItem
          BY <2>3, <3>1, Moved
        <4> QED BY <2>3, <3>1, <4>1 DEF BranchItem
      <3> QED BY <3>1, <3>2 DEF Continues, NoBranch
    <2> QED BY <2>1, <2>2, <2>3 DEF Evolves
  <1> QED BY <1>1, <1>2, <1>5, <1>6 DEF PassFits, Continues

\* The pass that moves, when it goes on with what it found.
LEMMA PassGoesOn ==
  ASSUME ExpiryInv, NEW p \in Passes, PassStep(p), passing[p] \in PassState,
         passing'[p] \in PassState,
         passing'[p].found = passing[p].found, passing'[p].anew = passing[p].anew,
         passing'[p].todo \subseteq passing[p].todo,
         passing'[p].step = "delete" => /\ passing'[p].item \in Items
                                        /\ passing'[p].item.name \in passing[p].todo
                                        /\ passing'[p].item.name \notin passing'[p].todo
  PROVE  PassFits(passing[p])'
  <1> DEFINE q == passing[p]
  <1>1. PassFits(q)
    BY NoBranchIsNone DEF ExpiryInv
  <1>2. DOMAIN q.found \subseteq Branchings
    BY FoundMapsHold DEF PassState
  <1>3. \A r \in DOMAIN q.found \ q.anew :
            branches'[r] = NoBranch \/ Continues(branches'[r], q.found[r])
    BY <1>1, <1>2 DEF PassStep, PassFits
  <1>4. day' = day
    BY DEF PassStep
  <1> QED BY <1>1, <1>3, <1>4 DEF PassFits, Continues

\* What a pass writes down when it begins.
FoundNow(S) ==
    [step |-> "next", found |-> [r \in S |-> branches[r]], todo |-> S,
     item |-> NoBranch, left |-> {}, anew |-> {}]

LEMMA ScanFits ==
  ASSUME Types, NEW S \in SUBSET Branchings, \A r \in S : Expired(r)
  PROVE  FoundNow(S) \in PassState /\ PassFits(FoundNow(S))
  <1> DEFINE f == [r \in S |-> branches[r]]
  <1>1. \A r \in S : branches[r] \in BranchItem /\ branches[r] # NoBranch
    BY DEF Types, Expired, NoBranch
  <1>2. f \in FoundMaps
    <2>1. f \in [S -> BranchItem]
      BY <1>1
    <2> QED BY <2>1 DEF FoundMaps
  <1>3. DOMAIN f = S /\ \A r \in S : f[r] = branches[r]
    OBVIOUS
  <1> HIDE DEF f
  <1>4. FoundNow(S) = [step |-> "next", found |-> f, todo |-> S, item |-> NoBranch,
                       left |-> {}, anew |-> {}]
    BY DEF FoundNow, f
  <1>5. FoundNow(S) \in PassState
    BY <1>2, <1>4 DEF PassState
  <1>6. \A r \in S : Continues(branches[r], f[r])
    BY <1>1, <1>3 DEF Continues, Expired
  <1> QED BY <1>1, <1>3, <1>4, <1>5, <1>6 DEF PassFits, Expired

\* The five steps of a pass.
PassActs(p) ==
    Scan(p) \/ (\E r \in Branchings : ReadNext(p, r)) \/ Reclaim(p) \/ Contend(p) \/ EndPass(p)

LEMMA InPass ==
  ASSUME Types, NEW p \in Passes, passing[p].step # "idle"
  PROVE  passing[p] \in PassState
  BY DEF Types, NotPassing

LEMMA PassActsStep ==
  ASSUME ExpiryInv, NEW p \in Passes, PassActs(p)
  PROVE  /\ PassStep(p)
         /\ passing'[p] # NotPassing => PassFits(passing[p])'
  <1>0. Types /\ branches \in [Branchings -> BranchItem \cup {NoBranch}]
    BY DEF ExpiryInv, Types
  <1>1. CASE Scan(p)
    <2>1. PICK S \in SUBSET Branchings : /\ \A r \in S : Expired(r)
                                         /\ passing' = [passing EXCEPT ![p] = FoundNow(S)]
      BY <1>1 DEF Scan, FoundNow
    <2>2. FoundNow(S) \in PassState /\ PassFits(FoundNow(S))
      BY <1>0, <2>1, ScanFits
    <2>3. branches' = branches /\ day' = day
      BY <1>1 DEF Scan
    <2>4. PassStep(p) /\ passing'[p] = FoundNow(S)
      BY <1>0, <2>1, <2>2, <2>3, PassMoves
    <2>5. PassFits(passing[p])'
      BY <2>2, <2>3, <2>4 DEF PassFits, Continues
    <2> QED BY <2>4, <2>5
  <1>2. ASSUME NEW r \in Branchings, ReadNext(p, r)
        PROVE  PassStep(p) /\ PassFits(passing[p])'
    <2>1. /\ passing[p].step = "next" /\ r \in passing[p].todo /\ passing[p] \in PassState
          /\ branches' = branches /\ day' = day
      BY <1>0, <1>2, InPass DEF ReadNext
    <2>2. CASE branches[r] = NoBranch
      <3> DEFINE q == [passing[p] EXCEPT !.todo = @ \ {r}]
      <3>1. passing' = [passing EXCEPT ![p] = q]
        BY <1>0, <1>2, <2>2 DEF ReadNext, Types
      <3>2. q \in PassState /\ q.found = passing[p].found /\ q.anew = passing[p].anew
            /\ q.todo \subseteq passing[p].todo /\ q.step = "next"
        BY <2>1 DEF PassState
      <3> HIDE DEF q
      <3>3. PassStep(p) /\ passing'[p] = q
        BY <1>0, <2>1, <3>1, <3>2, PassMoves
      <3> QED BY <2>1, <3>2, <3>3, PassGoesOn
    <2>3. CASE branches[r] # NoBranch
      <3> DEFINE i == [name |-> r, generation |-> branches[r].generation]
                 q == [passing[p] EXCEPT !.todo = @ \ {r}, !.step = "delete", !.item = i]
      <3>1. passing' = [passing EXCEPT ![p] = q]
        BY <1>0, <1>2, <2>3 DEF ReadNext, Types
      <3>2. i \in Items /\ i.name = r
        BY <1>0, <2>3 DEF Items, BranchItem
      <3> HIDE DEF i
      <3>3. q \in PassState /\ q.found = passing[p].found /\ q.anew = passing[p].anew
            /\ q.todo = passing[p].todo \ {r} /\ q.step = "delete" /\ q.item = i
        BY <2>1, <3>2 DEF PassState
      <3> HIDE DEF q
      <3>4. PassStep(p) /\ passing'[p] = q
        BY <1>0, <2>1, <3>1, <3>3, PassMoves
      <3> QED BY <2>1, <3>2, <3>3, <3>4, PassGoesOn
    <2> QED BY <2>2, <2>3
  <1>3. CASE Reclaim(p)
    <2> DEFINE q == [passing[p] EXCEPT !.step = "next", !.item = NoBranch]
    <2>1. passing[p].step = "delete" /\ passing[p] \in PassState /\ day' = day
      BY <1>0, <1>3, InPass DEF Reclaim
    <2>2. passing' = [passing EXCEPT ![p] = q]
      BY <1>0, <1>3 DEF Reclaim, Types
    <2>3. q \in PassState /\ q.found = passing[p].found /\ q.anew = passing[p].anew
          /\ q.todo = passing[p].todo /\ q.step = "next"
      BY <2>1 DEF PassState
    <2> HIDE DEF q
    <2>4. branches' = branches \/ \E r : branches' = [branches EXCEPT ![r] = NoBranch]
      BY <1>3 DEF Reclaim
    <2>5. PassStep(p) /\ passing'[p] = q
      BY <1>0, <2>1, <2>2, <2>3, <2>4, PassMoves
    <2> QED BY <2>1, <2>3, <2>5, PassGoesOn
  <1>4. CASE Contend(p)
    <2> DEFINE q == [passing[p] EXCEPT !.step = "next", !.item = NoBranch,
                                       !.left = @ \cup {passing[p].item.name}]
    <2>1. /\ passing[p].step = "delete" /\ passing[p] \in PassState
          /\ branches' = branches /\ day' = day
      BY <1>0, <1>4, InPass DEF Contend
    <2>2. passing' = [passing EXCEPT ![p] = q]
      BY <1>0, <1>4 DEF Contend, Types
    <2>3. passing[p].item \in Items
      BY <2>1, NoBranchIsNone DEF ExpiryInv, PassFits
    <2>4. q \in PassState /\ q.found = passing[p].found /\ q.anew = passing[p].anew
          /\ q.todo = passing[p].todo /\ q.step = "next"
      BY <2>1, <2>3 DEF PassState, Items
    <2> HIDE DEF q
    <2>5. PassStep(p) /\ passing'[p] = q
      BY <1>0, <2>1, <2>2, <2>4, PassMoves
    <2> QED BY <2>1, <2>4, <2>5, PassGoesOn
  <1>5. CASE EndPass(p)
    <2>1. passing' = [passing EXCEPT ![p] = NotPassing] /\ branches' = branches /\ day' = day
      BY <1>5 DEF EndPass
    <2> QED BY <1>0, <2>1, PassMoves
  <1> QED BY <1>1, <1>2, <1>3, <1>4, <1>5 DEF PassActs

\* What a pass takes has expired, or stands for another ref than it found.
LEMMA ReclaimsExpired ==
  ASSUME ExpiryInv, NEW p \in Passes, PassActs(p)
  PROVE  OnlyExpiredGo'
  <1>1. CASE Reclaim(p)
    <2> DEFINE q == passing[p]
               r == q.item.name
    <2>1. q.step = "delete" /\ q \in PassState /\ PassFits(q)
      BY <1>1, InPass, NoBranchIsNone DEF Reclaim, ExpiryInv
    <2>2. r \in DOMAIN q.found /\ q.found[r].until <= day
      BY <2>1 DEF PassFits
    <2>3. r \notin q.anew /\ branches[r] # NoBranch =>
             branches[r].lifecycle = "ephemeral" /\ branches[r].until <= day
      BY <2>1, <2>2 DEF PassFits, Continues
    <2> DEFINE x == [item |-> branches[r], day |-> day, late |-> r \in q.anew]
    <2>4. reclaimed' = reclaimed \/ (branches[r] # NoBranch /\ reclaimed' = reclaimed \cup {x})
      BY <1>1 DEF Reclaim
    <2>5. x.item = branches[r] /\ x.day = day /\ x.late = (r \in q.anew)
      OBVIOUS
    <2> HIDE DEF x, r
    <2>6. \A y \in reclaimed : y.late \/ (y.item.lifecycle = "ephemeral" /\ y.item.until <= y.day)
      BY DEF ExpiryInv, OnlyExpiredGo
    <2>7. branches[r] # NoBranch =>
             x.late \/ (x.item.lifecycle = "ephemeral" /\ x.item.until <= x.day)
      BY <2>3, <2>5
    <2> QED BY <2>4, <2>6, <2>7 DEF OnlyExpiredGo
  <1>2. CASE ~Reclaim(p)
    BY <1>2 DEF PassActs, Scan, ReadNext, Contend, EndPass, ExpiryInv, OnlyExpiredGo
  <1> QED BY <1>1, <1>2

LEMMA NextCases ==
  ReclaimNext <=>
    \/ \E r \in Branchings : OpenBranch(r) \/ MoveBranch(r) \/ DropBranch(r) \/ RestoreBranch(r)
    \/ \E p \in Passes : PassActs(p)
    \/ NextDay
  BY DEF ReclaimNext, PassActs

LEMMA ExpiryStep == ExpiryInv /\ [ReclaimNext]_reclaimVars => ExpiryInv'
  <1> SUFFICES ASSUME ExpiryInv, [ReclaimNext]_reclaimVars PROVE ExpiryInv'
    OBVIOUS
  <1>0. Types /\ day \in Nat /\ MaxDay \in Nat
    BY ReclaimAssumption DEF ExpiryInv, Types
  <1>1. ASSUME NEW r \in Branchings,
               OpenBranch(r) \/ MoveBranch(r) \/ DropBranch(r) \/ RestoreBranch(r)
        PROVE  ExpiryInv'
    <2>1. CallerStep
      BY <1>0, <1>1, CallersStep
    <2>2. \A p \in Passes : passing'[p] # NotPassing => PassFits(passing[p])'
      BY <1>0, <2>1, PassStays DEF CallerStep
    <2> QED BY <1>0, <2>1, <2>2 DEF CallerStep, ExpiryInv, Types, OnlyExpiredGo
  <1>2. ASSUME NEW p \in Passes, PassActs(p)
        PROVE  ExpiryInv'
    <2>1. PassStep(p) /\ (passing'[p] # NotPassing => PassFits(passing[p])') /\ OnlyExpiredGo'
      BY <1>2, PassActsStep, ReclaimsExpired
    <2>2. ASSUME NEW o \in Passes, o # p, passing'[o] # NotPassing
          PROVE  PassFits(passing[o])'
      BY <1>0, <2>1, <2>2, StepsEvolve, PassStays DEF PassStep
    <2>3. Types'
      BY <1>0, <2>1 DEF PassStep, Types
    <2> QED BY <2>1, <2>2, <2>3 DEF ExpiryInv
  <1>3. CASE NextDay
    <2>1. /\ UNCHANGED <<branches, passing, reclaimed>> /\ day' \in 0 .. MaxDay /\ day <= day'
          /\ day' \in Nat
      BY <1>0, <1>3 DEF NextDay
    <2>2. (\A r \in Branchings : Evolves(r)) /\ \A p \in Passes : Watches(p) /\ Noted(p)
      BY <2>1 DEF Evolves, Watches, Noted
    <2>3. \A p \in Passes : passing'[p] # NotPassing => PassFits(passing[p])'
      BY <2>1, <2>2, PassStays
    <2> QED BY <1>0, <2>1, <2>3 DEF ExpiryInv, Types, OnlyExpiredGo
  <1>4. CASE UNCHANGED reclaimVars
    BY <1>0, <1>4 DEF reclaimVars, ExpiryInv, Types, OnlyExpiredGo, PassFits, Continues
  <1> QED BY <1>1, <1>2, <1>3, <1>4, NextCases

LEMMA ExpiryInit == ReclaimInit => ExpiryInv
  <1> SUFFICES ASSUME ReclaimInit PROVE ExpiryInv
    OBVIOUS
  <1>1. day \in 0 .. MaxDay
    BY ReclaimAssumption DEF ReclaimInit
  <1> QED BY <1>1 DEF ReclaimInit, ExpiryInv, Types, OnlyExpiredGo

LEMMA ExpiryTypes == ExpiryInv => ReclaimTypeOK
  <1> SUFFICES ASSUME ExpiryInv PROVE ReclaimTypeOK
    OBVIOUS
  <1>1. ASSUME NEW r \in Branchings
        PROVE  \/ branches[r] = NoBranch
               \/ branches[r].lifecycle = "permanent" /\ branches[r].until = 0
               \/ branches[r].lifecycle = "ephemeral" /\ branches[r].until \in Ttl .. MaxDay + Ttl
    <2>1. branches[r] = NoBranch \/ branches[r] \in BranchItem
      BY DEF ExpiryInv, Types
    <2> QED BY <2>1 DEF BranchItem
  <1>2. \A p \in Passes : passing[p] = NotPassing \/ passing[p].todo \subseteq DOMAIN passing[p].found
    BY DEF ExpiryInv, PassFits
  <1> QED BY <1>1, <1>2 DEF ReclaimTypeOK

\* A pass deletes a ref only when it has expired (maintenance/reclaim.py with
\* RefService.delete), however often it moved since the scan and whatever
\* other passes do; but for a name given to another ref meanwhile.
THEOREM OnlyTheExpiredGo == ReclaimSpec => []OnlyExpiredGo
  <1>1. ExpiryInv => OnlyExpiredGo
    BY DEF ExpiryInv
  <1> QED BY <1>1, ExpiryInit, ExpiryStep, PTL DEF ReclaimSpec

-----------------------------------------------------------------------------
\* A pass takes all it found

\* What a pass is through with never becomes again what it found: a ref only
\* moves forward, and one opened anew lives longer.
PassGoes(q) ==
    /\ \A r \in DOMAIN q.found :
          Continues(branches[r], q.found[r]) => branches[r].generation >= q.found[r].generation
    /\ \A r \in DOMAIN q.found \ (q.todo \cup q.left) :
          \/ branches[r] # q.found[r]
          \/ /\ q.step = "delete" /\ r = q.item.name
             /\ q.item.generation = q.found[r].generation

GoneInv == ExpiryInv /\ \A p \in Passes : passing[p] # NotPassing => PassGoes(passing[p])

LEMMA GoneMeansGone == GoneInv => FoundIsGone
  BY DEF GoneInv, PassGoes, FoundIsGone

\* Nothing goes back to being what a pass found.
LEMMA OnlyForward ==
  ASSUME Types, Ttl > 0, NEW r \in Branchings, Evolves(r), NEW f \in BranchItem,
         f.lifecycle = "ephemeral", f.until <= day,
         Continues(branches[r], f) => branches[r].generation >= f.generation
  PROVE  /\ Continues(branches'[r], f) => branches'[r].generation >= f.generation
         /\ branches[r] # f => branches'[r] # f
  <1>0. /\ branches[r] \in BranchItem \cup {NoBranch} /\ day \in Nat /\ Ttl \in Nat
        /\ f.until \in Nat /\ f.generation \in Nat /\ f # NoBranch
    BY ReclaimAssumption, NoBranchIsNone DEF Types, BranchItem
  <1>1. CASE branches'[r] = branches[r]
    BY <1>1
  <1>2. CASE branches'[r] = NoBranch
    BY <1>0, <1>2 DEF Continues
  <1>3. CASE branches[r] # NoBranch /\ branches'[r] = [branches[r] EXCEPT !.generation = @ + 1]
    <2>1. PICK b \in BranchItem : b = branches[r]
      BY <1>0, <1>3
    <2>2. b.generation \in Nat /\ branches'[r].generation = b.generation + 1
          /\ branches'[r].lifecycle = b.lifecycle /\ branches'[r].until = b.until
      BY <1>3, <2>1 DEF BranchItem
    <2>3. Continues(branches'[r], f) => Continues(b, f) /\ branches'[r].generation > f.generation
      BY <1>0, <1>3, <2>1, <2>2 DEF Continues
    <2>4. branches'[r] = f => Continues(branches'[r], f)
      BY <1>0 DEF Continues
    <2> QED BY <1>0, <2>2, <2>3, <2>4
  <1>4. CASE branches[r] = NoBranch /\ branches'[r] \in BranchItem
               /\ (branches'[r].lifecycle = "ephemeral" => branches'[r].until = day + Ttl)
    <2>1. ~Continues(branches'[r], f)
      BY <1>0, <1>4 DEF Continues
    <2>2. branches'[r] # f
      BY <1>0, <1>4
    <2> QED BY <2>1, <2>2
  <1> QED BY <1>1, <1>2, <1>3, <1>4 DEF Evolves

\* A pass that has not moved is still through with what it was through with.
LEMMA GoneStays ==
  ASSUME GoneInv, Ttl > 0, NEW p \in Passes, \A r \in Branchings : Evolves(r), Watches(p),
         passing'[p] # NotPassing
  PROVE  PassGoes(passing[p])'
  <1> DEFINE q == passing[p]
  <1>1. q \in PassState /\ PassFits(q) /\ PassGoes(q) /\ Types
    BY DEF Watches, GoneInv, ExpiryInv, Types
  <1>2. /\ passing'[p].found = q.found /\ passing'[p].todo = q.todo /\ passing'[p].left = q.left
        /\ passing'[p].item = q.item /\ passing'[p].step = q.step
    BY <1>1 DEF Watches, PassState
  <1>3. ASSUME NEW r \in DOMAIN q.found
        PROVE  /\ Continues(branches'[r], q.found[r]) =>
                     branches'[r].generation >= q.found[r].generation
               /\ branches[r] # q.found[r] => branches'[r] # q.found[r]
    <2>1. r \in Branchings /\ q.found[r] \in BranchItem
      BY <1>1, <1>3, FoundMapsHold DEF PassState
    <2> QED BY <1>1, <1>3, <2>1, OnlyForward DEF PassFits, PassGoes
  <1>4. \A r \in DOMAIN q.found \ (q.todo \cup q.left) :
          \/ branches'[r] # q.found[r]
          \/ /\ q.step = "delete" /\ r = q.item.name
             /\ q.item.generation = q.found[r].generation
    BY <1>1, <1>3 DEF PassGoes
  <1> QED BY <1>2, <1>3, <1>4 DEF PassGoes, Continues

\* The pass that moves: what it reads is what it deletes, or is not what it found.
LEMMA GoneOfPass ==
  ASSUME GoneInv, NEW p \in Passes, PassActs(p), passing'[p] # NotPassing
  PROVE  PassGoes(passing[p])'
  <1>0. /\ Types /\ branches \in [Branchings -> BranchItem \cup {NoBranch}]
        /\ passing \in [Passes -> PassState \cup {NotPassing}]
    BY DEF GoneInv, ExpiryInv, Types
  <1>p. passing[p] \in PassState => PassFits(passing[p]) /\ PassGoes(passing[p])
          /\ DOMAIN passing[p].found \subseteq Branchings
          /\ \A r \in DOMAIN passing[p].found : passing[p].found[r] \in BranchItem
    BY NoBranchIsNone, FoundMapsHold DEF GoneInv, ExpiryInv, PassState
  <1>1. CASE Scan(p)
    <2>1. PICK S \in SUBSET Branchings : /\ \A r \in S : Expired(r)
                                         /\ passing' = [passing EXCEPT ![p] = FoundNow(S)]
      BY <1>1 DEF Scan, FoundNow
    <2>2. FoundNow(S) \in PassState
      BY <1>0, <2>1, ScanFits
    <2>3. passing'[p] = FoundNow(S) /\ branches' = branches
      BY <1>0, <1>1, <2>1 DEF Scan
    <2>4. /\ DOMAIN FoundNow(S).found = S /\ FoundNow(S).todo = S
          /\ \A r \in S : FoundNow(S).found[r] = branches[r]
      BY DEF FoundNow
    <2>5. \A r \in S : branches[r].generation \in Nat
      BY <1>0, <2>1 DEF Expired, BranchItem, NoBranch
    <2> QED BY <2>3, <2>4, <2>5 DEF PassGoes
  <1>2. ASSUME NEW r \in Branchings, ReadNext(p, r)
        PROVE  PassGoes(passing[p])'
    <2>1. /\ passing[p].step = "next" /\ r \in passing[p].todo /\ passing[p] \in PassState
          /\ branches' = branches
      BY <1>0, <1>2, InPass DEF ReadNext
    <2>2. CASE branches[r] = NoBranch
      <3> DEFINE q == [passing[p] EXCEPT !.todo = @ \ {r}]
      <3>1. passing'[p] = q
        BY <1>0, <1>2, <2>2 DEF ReadNext
      <3>2. q.found = passing[p].found /\ q.left = passing[p].left
            /\ q.todo = passing[p].todo \ {r} /\ q.step = "next"
        BY <2>1 DEF PassState
      <3> HIDE DEF q
      <3>3. \A s \in DOMAIN passing[p].found : s = r => branches[s] # passing[p].found[s]
        BY <1>p, <2>1, <2>2, NoBranchIsNone
      <3> QED BY <1>p, <2>1, <3>1, <3>2, <3>3 DEF PassGoes
    <2>3. CASE branches[r] # NoBranch
      <3> DEFINE i == [name |-> r, generation |-> branches[r].generation]
                 q == [passing[p] EXCEPT !.todo = @ \ {r}, !.step = "delete", !.item = i]
      <3>1. passing'[p] = q
        BY <1>0, <1>2, <2>3 DEF ReadNext
      <3>2. i.name = r /\ i.generation = branches[r].generation
        OBVIOUS
      <3> HIDE DEF i
      <3>3. q.found = passing[p].found /\ q.left = passing[p].left /\ q.item = i
            /\ q.todo = passing[p].todo \ {r} /\ q.step = "delete"
        BY <2>1 DEF PassState
      <3> HIDE DEF q
      <3> QED BY <1>p, <2>1, <3>1, <3>2, <3>3 DEF PassGoes
    <2> QED BY <2>2, <2>3
  <1>3. CASE Reclaim(p)
    <2> DEFINE q == [passing[p] EXCEPT !.step = "next", !.item = NoBranch]
               i == passing[p].item
    <2>1. passing[p].step = "delete" /\ passing[p] \in PassState
      BY <1>0, <1>3, InPass DEF Reclaim
    <2>2. passing'[p] = q
      BY <1>0, <1>3 DEF Reclaim
    <2>3. q.found = passing[p].found /\ q.left = passing[p].left
          /\ q.todo = passing[p].todo /\ q.step = "next"
      BY <2>1 DEF PassState
    <2> HIDE DEF q
    <2>4. i.name \in DOMAIN passing[p].found /\ i.name \in Branchings
      BY <1>p, <2>1 DEF PassFits
    <2>5. \/ branches' = [branches EXCEPT ![i.name] = NoBranch]
          \/ /\ branches' = branches
             /\ branches[i.name] = NoBranch \/ branches[i.name].generation # i.generation
      BY <1>3 DEF Reclaim
    <2>6. ASSUME NEW r \in DOMAIN passing[p].found \ (passing[p].todo \cup passing[p].left)
          PROVE  branches'[r] # passing[p].found[r]
      <3>1. r \in Branchings /\ passing[p].found[r] # NoBranch
        BY <1>p, <2>1, NoBranchIsNone
      <3>2. \/ branches[r] # passing[p].found[r]
            \/ r = i.name /\ i.generation = passing[p].found[r].generation
        BY <1>p, <2>1, <2>6 DEF PassGoes
      <3> HIDE DEF i
      <3> QED BY <1>0, <2>4, <2>5, <3>1, <3>2
    <2>7. \A r \in DOMAIN passing[p].found : Continues(branches'[r], passing[p].found[r]) =>
              branches'[r].generation >= passing[p].found[r].generation
      <3>1. \A r \in DOMAIN passing[p].found : branches'[r] \in {branches[r], NoBranch}
        BY <1>0, <1>p, <2>1, <2>5
      <3> QED BY <1>p, <2>1, <3>1 DEF PassGoes, Continues
    <2> QED BY <2>2, <2>3, <2>6, <2>7 DEF PassGoes, Continues
  <1>4. CASE Contend(p)
    <2> DEFINE q == [passing[p] EXCEPT !.step = "next", !.item = NoBranch,
                                       !.left = @ \cup {passing[p].item.name}]
    <2>1. passing[p].step = "delete" /\ passing[p] \in PassState /\ branches' = branches
      BY <1>0, <1>4, InPass DEF Contend
    <2>2. passing'[p] = q
      BY <1>0, <1>4 DEF Contend
    <2>3. q.found = passing[p].found /\ q.left = passing[p].left \cup {passing[p].item.name}
          /\ q.todo = passing[p].todo /\ q.step = "next"
      BY <2>1 DEF PassState
    <2> HIDE DEF q
    <2> QED BY <1>p, <2>1, <2>2, <2>3 DEF PassGoes
  <1>5. CASE EndPass(p)
    BY <1>0, <1>5 DEF EndPass
  <1> QED BY <1>1, <1>2, <1>3, <1>4, <1>5 DEF PassActs

LEMMA GoneStep == GoneInv /\ Ttl > 0 /\ [ReclaimNext]_reclaimVars => GoneInv'
  <1> SUFFICES ASSUME GoneInv, Ttl > 0, [ReclaimNext]_reclaimVars PROVE GoneInv'
    OBVIOUS
  <1>0. ExpiryInv /\ ExpiryInv' /\ Types
    BY ExpiryStep DEF GoneInv, ExpiryInv
  <1>1. ASSUME NEW r \in Branchings,
               OpenBranch(r) \/ MoveBranch(r) \/ DropBranch(r) \/ RestoreBranch(r)
        PROVE  GoneInv'
    <2>1. CallerStep
      BY <1>0, <1>1, CallersStep
    <2>2. \A p \in Passes : passing'[p] # NotPassing => PassGoes(passing[p])'
      BY <2>1, GoneStays DEF CallerStep
    <2> QED BY <1>0, <2>2 DEF GoneInv
  <1>2. ASSUME NEW p \in Passes, PassActs(p)
        PROVE  GoneInv'
    <2>1. PassStep(p)
      BY <1>0, <1>2, PassActsStep
    <2>2. \A o \in Passes : o # p /\ passing'[o] # NotPassing => PassGoes(passing[o])'
      BY <2>1, StepsEvolve, GoneStays
    <2>3. passing'[p] # NotPassing => PassGoes(passing[p])'
      BY <1>2, GoneOfPass
    <2> QED BY <1>0, <2>2, <2>3 DEF GoneInv
  <1>3. CASE UNCHANGED <<branches, passing>>
    BY <1>0, <1>3 DEF GoneInv, PassGoes, Continues
  <1>4. CASE NextDay \/ UNCHANGED reclaimVars
    BY <1>3, <1>4 DEF NextDay, reclaimVars
  <1> QED BY <1>1, <1>2, <1>4, NextCases

\* A pass takes all it found that has expired, and nothing else, while callers
\* and other passes move refs under it: whatever it is through with is gone or
\* stands for another ref, if the operation counter was to be had.  A time to
\* live of nothing at all would let a ref opened anew be the one that was found.
THEOREM PassesTakeWhatExpired == Ttl > 0 => (ReclaimSpec => []ReclaimInv)
  <1> SUFFICES ASSUME Ttl > 0 PROVE ReclaimSpec => []ReclaimInv
    OBVIOUS
  <1>1. ReclaimInit => GoneInv
    BY ExpiryInit DEF ReclaimInit, GoneInv
  <1>2. GoneInv /\ [ReclaimNext]_reclaimVars => GoneInv'
    BY GoneStep
  <1>3. GoneInv => ReclaimInv
    BY ExpiryTypes, GoneMeansGone DEF GoneInv, ExpiryInv, ReclaimInv
  <1> QED BY <1>1, <1>2, <1>3, PTL DEF ReclaimSpec

-----------------------------------------------------------------------------
\* Write sessions

Ids == 1 .. issued.opened

SessionPages == [session : Ids, index : Nat, names : SUBSET Uploadable]

Requests ==
    [step : {"read", "write"}, kind : {"upload", "renew", "end"}, id : Ids,
     names : SUBSET Uploadable, until : Nat, held : SUBSET SessionPages]

OneEach(P) == \A p, q \in P : p.session = q.session /\ p.index = q.index => p = q
Numbered(P) == \E n \in Nat : {p.index : p \in P} = 0 .. n - 1

\* The state has its types, and what happened is finite.
SessionsShape ==
    /\ issued \in [opened : Nat, requests : Nat] /\ clock \in Nat
    /\ sessions \subseteq [id : Ids, until : Nat] /\ IsFiniteSet(sessions)
    /\ pages \subseteq SessionPages /\ IsFiniteSet(pages)
    /\ doing \in [Uploaders -> Requests \cup {NotDoing}]
    /\ kept \subseteq Ids \X Uploadable
    /\ closed \subseteq Ids /\ overlapped \subseteq Ids

\* A session has one record, a key one page, and an open session's pages are
\* numbered from zero without a gap.
PagesNumbered ==
    /\ \A x, y \in sessions : x.id = y.id => x = y
    /\ OneEach(pages)
    /\ \A s \in Ids \ closed : Numbered(PagesOf(s))

\* What a request holds is of its session, and while the session is open it is
\* a run of pages that are there.
HeldSound ==
    \A u \in Uploaders : doing[u].step = "write" =>
        /\ IsFiniteSet(doing[u].held) /\ OneEach(doing[u].held)
        /\ \A p \in doing[u].held : p.session = doing[u].id
        /\ doing[u].id \notin closed =>
              doing[u].held \subseteq pages /\ Numbered(doing[u].held)

\* A request beside one that closes its session is noted.
OverlapsSeen ==
    \A u, v \in Uploaders :
        /\ doing[u].step # "idle" /\ doing[v].step # "idle" /\ doing[u].id = doing[v].id
        /\ doing[u].kind = "end" /\ doing[v].kind # "end"
        => doing[u].id \in overlapped

\* One that closes a session alone holds every page of it.
ClosingHoldsAll ==
    \A u \in Uploaders :
        /\ doing[u].step = "write" /\ doing[u].kind = "end" /\ doing[u].id \notin overlapped
        => PagesOf(doing[u].id) \subseteq doing[u].held

\* Nothing works on a session that was closed alone.
ClosedIsLeft ==
    \A s \in closed \ overlapped, u \in Uploaders :
        doing[u].step # "idle" /\ doing[u].id = s => doing[u].kind = "end"

SessionsIInv ==
    /\ SessionsShape /\ PagesNumbered /\ HeldSound /\ OverlapsSeen
    /\ ClosingHoldsAll /\ ClosedIsLeft /\ UploadsKept /\ ClosedPinsNothing
-----------------------------------------------------------------------------
\* The helpers

\* Pages of one session under different numbers, counted by the last of them.
LEMMA NumberedCount ==
    ASSUME NEW P, NEW n \in Nat, {p.index : p \in P} = 0 .. n - 1,
           \A p, q \in P : p.index = q.index => p = q
    PROVE  IsFiniteSet(P) /\ Cardinality(P) = n
  <1> DEFINE f == [i \in 0 .. n - 1 |-> CHOOSE p \in P : p.index = i]
  <1>1. \A i \in 0 .. n - 1 : \E p \in P : p.index = i
    OBVIOUS
  <1>2. \A i \in 0 .. n - 1 : f[i] \in P /\ f[i].index = i
    BY <1>1
  <1>3. f \in Bijection(0 .. n - 1, P)
    <2>1. f \in [0 .. n - 1 -> P]
      BY <1>2
    <2>2. \A i, j \in 0 .. n - 1 : i # j => f[i] # f[j]
      BY <1>2
    <2>3. \A p \in P : p.index \in 0 .. n - 1 /\ f[p.index] = p
      BY <1>2
    <2>4. \A p \in P : \E i \in 0 .. n - 1 : f[i] = p
      BY <2>3
    <2>. QED BY <2>1, <2>2, <2>4 DEF Bijection, Injection, Surjection, IsInjective
  <1>4. IsFiniteSet(0 .. n - 1) /\ Cardinality(0 .. n - 1) = n
    <2>1. n - 1 \in Int /\ 0 \in Int
      OBVIOUS
    <2>. QED BY <2>1, FS_Interval
  <1>5. ExistsBijection(0 .. n - 1, P)
    BY <1>3 DEF ExistsBijection
  <1>. QED BY <1>4, <1>5, FS_Bijection

\* What is not recorded yet is laid out in finitely many pages numbered on from
\* what is held.
LEMMA FreshPages ==
    ASSUME SessionsShape, NEW u \in Uploaders, doing[u].step = "write",
           IsFiniteSet(doing[u].held), NEW S \in Fresh(doing[u])
    PROVE  /\ NextIndex(doing[u].held) \in Nat
           /\ \E c \in Int : DOMAIN S = 0 .. c - 1
           /\ \A x \in doing[u].names : \/ \E p \in doing[u].held : x \in p.names
                                        \/ \E i \in DOMAIN S : x \in S[i]
           /\ \A i \in DOMAIN S : S[i] \subseteq Uploadable
  <1> DEFINE q == doing[u]
             new == q.names \ UNION {p.names : p \in q.held}
             count == (Cardinality(new) + PageSize - 1) \div PageSize
  <1>1. q \in Requests
    BY DEF SessionsShape, NotDoing
  <1>2. q.names \subseteq Uploadable
    BY <1>1 DEF Requests
  <1>3. Cardinality(q.held) \in Nat
    BY FS_CardinalityType
  <1>4. count \in Int
    <2>1. IsFiniteSet(new)
      BY <1>2, FS_Subset, SessionsAssumption
    <2>2. Cardinality(new) \in Nat
      BY <2>1, FS_CardinalityType
    <2>. QED BY <2>2, SessionsAssumption
  <1>5. /\ S \in [0 .. count - 1 -> SUBSET new]
        /\ UNION {S[i] : i \in DOMAIN S} = new
    BY DEF Fresh
  <1>. HIDE DEF count
  <1>6. DOMAIN S = 0 .. count - 1
    BY <1>5
  <1>7. \A i \in DOMAIN S : S[i] \subseteq Uploadable
    BY <1>5, <1>2, <1>6
  <1>8. \A x \in q.names : (\E p \in q.held : x \in p.names) \/ \E i \in DOMAIN S : x \in S[i]
    <2>. SUFFICES ASSUME NEW x \in q.names, ~ \E p \in q.held : x \in p.names
                  PROVE  \E i \in DOMAIN S : x \in S[i]
      OBVIOUS
    <2>1. x \in new
      OBVIOUS
    <2>2. x \in UNION {S[i] : i \in DOMAIN S}
      BY <2>1, <1>5
    <2>. QED BY <2>2
  <1>. QED BY <1>3, <1>4, <1>6, <1>7, <1>8 DEF NextIndex

\* N is S laid out in c pages of session s, numbered from k.
Layout(N, s, k, c, S) ==
    /\ \A p \in N : \E i \in 0 .. c - 1 :
          p = [session |-> s, index |-> k + i, names |-> S[i]]
    /\ \A i \in 0 .. c - 1 : [session |-> s, index |-> k + i, names |-> S[i]] \in N

\* Pages laid out so are finitely many, of the session, under keys of their
\* own, and numbered from where they start.
LEMMA LaidOut ==
    ASSUME NEW s, NEW k \in Nat, NEW c \in Int, NEW S, NEW N,
           Layout(N, s, k, c, S)
    PROVE  /\ IsFiniteSet(N) /\ OneEach(N)
           /\ \A p \in N : p.index \in k .. k + c - 1
           /\ \A x \in k .. k + c - 1 : \E p \in N : p.index = x
  <1>. USE DEF Layout
  <1>1. IsFiniteSet(N)
    <2>1. IsFiniteSet(0 .. c - 1)
      <3>1. c - 1 \in Int /\ 0 \in Int
        OBVIOUS
      <3>. QED BY <3>1, FS_Interval
    <2>. DEFINE f == [i \in 0 .. c - 1 |-> [session |-> s, index |-> k + i, names |-> S[i]]]
    <2>2. f \in Surjection(0 .. c - 1, N)
      BY DEF Surjection
    <2>. QED BY <2>1, <2>2, FS_Surjection
  <1>2. OneEach(N)
    <2>. SUFFICES ASSUME NEW p \in N, NEW r \in N, p.index = r.index PROVE p = r
      BY DEF OneEach
    <2>1. PICK i \in 0 .. c - 1 : p = [session |-> s, index |-> k + i, names |-> S[i]]
      OBVIOUS
    <2>2. PICK j \in 0 .. c - 1 : r = [session |-> s, index |-> k + j, names |-> S[j]]
      OBVIOUS
    <2>3. k + i = k + j
      BY <2>1, <2>2
    <2>4. i = j
      BY <2>3
    <2>. QED BY <2>1, <2>2, <2>4
  <1>3. \A p \in N : p.index \in k .. k + c - 1
    <2>. TAKE p \in N
    <2>1. PICK i \in 0 .. c - 1 : p = [session |-> s, index |-> k + i, names |-> S[i]]
      OBVIOUS
    <2>2. p.index = k + i
      BY <2>1
    <2>. QED BY <2>2
  <1>4. \A x \in k .. k + c - 1 : \E p \in N : p.index = x
    <2>. TAKE x \in k .. k + c - 1
    <2>1. x - k \in 0 .. c - 1 /\ k + (x - k) = x
      OBVIOUS
    <2>. WITNESS [session |-> s, index |-> k + (x - k), names |-> S[x - k]] \in N
    <2>. QED BY <2>1
  <1>. QED BY <1>1, <1>2, <1>3, <1>4
-----------------------------------------------------------------------------
\* What a write leaves of the pages

\* Pages given their keys again take the place of those that had them.
LEMMA PutBack ==
    ASSUME OneEach(pages), NEW given, OneEach(given)
    PROVE  /\ OneEach(Beside(given) \cup given)
           /\ given \subseteq pages => Beside(given) \cup given = pages
  <1>1. OneEach(Beside(given) \cup given)
    BY DEF OneEach, Beside
  <1>2. ASSUME given \subseteq pages PROVE \A p \in pages \ given : p \in Beside(given)
    BY <1>2 DEF OneEach, Beside
  <1>. QED BY <1>1, <1>2 DEF Beside

\* Renewing leaves an open session's pages as they are, and those of another.
LEMMA RenewedPages ==
    ASSUME SessionsIInv, NEW u \in Uploaders, PutRenewed(u)
    PROVE  /\ IsFiniteSet(pages') /\ OneEach(pages') /\ pages' \subseteq SessionPages
           /\ \A s \in Ids : s # doing[u].id \/ s \notin closed => PagesOf(s)' = PagesOf(s)
  <1> DEFINE q == doing[u]
  <1>1. /\ q.step = "write" /\ pages' = Beside(q.held) \cup q.held
        /\ q \in Requests
    BY DEF PutRenewed, SessionsIInv, SessionsShape, NotDoing
  <1>2. /\ IsFiniteSet(q.held) /\ OneEach(q.held) /\ q.held \subseteq SessionPages
        /\ \A p \in q.held : p.session = q.id
        /\ q.id \notin closed => q.held \subseteq pages
    BY <1>1 DEF SessionsIInv, HeldSound, Requests
  <1>3. IsFiniteSet(pages')
    <2>1. Beside(q.held) \subseteq pages /\ IsFiniteSet(pages)
      BY DEF Beside, SessionsIInv, SessionsShape
    <2>2. IsFiniteSet(Beside(q.held))
      BY <2>1, FS_Subset
    <2>. QED BY <1>1, <1>2, <2>2, FS_Union
  <1>4. OneEach(pages) /\ pages \subseteq SessionPages
    BY DEF SessionsIInv, PagesNumbered, SessionsShape
  <1>5. OneEach(pages') /\ pages' \subseteq SessionPages
    BY <1>1, <1>2, <1>4, PutBack DEF Beside
  <1>6. \A s \in Ids : s # q.id => PagesOf(s)' = PagesOf(s)
    BY <1>1, <1>2 DEF PagesOf, Beside
  <1>7. q.id \notin closed => pages' = pages
    BY <1>1, <1>2, <1>4, PutBack
  <1>8. \A s \in Ids : s = q.id /\ s \notin closed => PagesOf(s)' = PagesOf(s)
    BY <1>7 DEF PagesOf
  <1>. QED BY <1>3, <1>5, <1>6, <1>8

\* Closing takes pages of the session only, and every one that was read.
LEMMA DroppedPages ==
    ASSUME SessionsIInv, NEW u \in Uploaders, Drop(u)
    PROVE  /\ IsFiniteSet(pages') /\ OneEach(pages') /\ pages' \subseteq pages
           /\ \A p \in doing[u].held : p \notin pages'
           /\ \A s \in Ids : s # doing[u].id => PagesOf(s)' = PagesOf(s)
  <1> DEFINE q == doing[u]
  <1>1. q.step = "write" /\ pages' = Beside(q.held) /\ \A p \in q.held : p.session = q.id
    BY DEF Drop, SessionsIInv, HeldSound
  <1>2. pages' \subseteq pages /\ \A p \in q.held : p \notin pages'
    BY <1>1 DEF Beside
  <1>3. IsFiniteSet(pages')
    BY <1>2, FS_Subset DEF SessionsIInv, SessionsShape
  <1>4. OneEach(pages')
    BY <1>2 DEF OneEach, SessionsIInv, PagesNumbered
  <1>5. \A s \in Ids : s # q.id => PagesOf(s)' = PagesOf(s)
    BY <1>1 DEF PagesOf, Beside
  <1>. QED BY <1>2, <1>3, <1>4, <1>5

\* An upload adds pages to its session, or nothing; and while the session is
\* open what it adds follows what is there, and all it names is there then.
LEMMA UploadedPages ==
    ASSUME SessionsIInv, NEW u \in Uploaders, RecordUploaded(u), NEW id, id = doing[u].id
    PROVE  /\ IsFiniteSet(pages') /\ OneEach(pages') /\ pages' \subseteq SessionPages
           /\ pages \subseteq pages'
           /\ \A s \in Ids : s # id => PagesOf(s)' = PagesOf(s)
           /\ id \notin closed => Numbered(PagesOf(id)')
           /\ \/ kept' = kept
              \/ /\ kept' = kept \cup ({id} \X doing[u].names)
                 /\ id \notin closed => doing[u].names \subseteq Uploaded(id)'
  <1> DEFINE q == doing[u]
             k == NextIndex(q.held)
             New(S) == {[session |-> id, index |-> k + i, names |-> S[i]] : i \in DOMAIN S}
  <1>1. q.step = "write" /\ q \in Requests /\ q.id = id
    BY DEF RecordUploaded, SessionsIInv, SessionsShape, NotDoing
  <1>2. /\ IsFiniteSet(q.held) /\ OneEach(q.held) /\ q.held \subseteq SessionPages
        /\ \A p \in q.held : p.session = id
        /\ id \notin closed => q.held \subseteq pages /\ Numbered(q.held)
    BY <1>1 DEF SessionsIInv, HeldSound, Requests
  <1>3. /\ OneEach(pages) /\ pages \subseteq SessionPages /\ IsFiniteSet(pages)
        /\ \A s \in Ids \ closed : Numbered(PagesOf(s))
    BY DEF SessionsIInv, PagesNumbered, SessionsShape
  <1>4. id \in Ids /\ issued.opened \in Nat /\ q.names \subseteq Uploadable
    BY <1>1 DEF Requests, SessionsIInv, SessionsShape
  <1>5. PICK S \in Fresh(q) :
            IF Beside(New(S)) # pages
            THEN UNCHANGED <<pages, kept>>
            ELSE /\ pages' = pages \cup New(S)
                 /\ kept' = kept \cup ({id} \X q.names)
    BY DEF RecordUploaded
  <1>6. CASE UNCHANGED <<pages, kept>>
    BY <1>6, <1>3, <1>4 DEF PagesOf
  <1>7. CASE /\ Beside(New(S)) = pages /\ pages' = pages \cup New(S)
             /\ kept' = kept \cup ({id} \X q.names)
    <2>1. /\ k \in Nat
          /\ \E c \in Int : DOMAIN S = 0 .. c - 1
          /\ \A x \in q.names : (\E p \in q.held : x \in p.names) \/ \E i \in DOMAIN S : x \in S[i]
          /\ \A i \in DOMAIN S : S[i] \subseteq Uploadable
      BY <1>1, <1>2, FreshPages DEF SessionsIInv
    <2>2. PICK c \in Int : DOMAIN S = 0 .. c - 1
      BY <2>1
    <2>. DEFINE N == New(S)
    <2>3. /\ \A p \in N : \E i \in 0 .. c - 1 :
                 p = [session |-> id, index |-> k + i, names |-> S[i]]
          /\ \A i \in 0 .. c - 1 : [session |-> id, index |-> k + i, names |-> S[i]] \in N
      BY <2>2
    <2>. HIDE DEF N, k
    <2>4. \A p \in N : p.session = id /\ p.index \in Nat /\ p \in SessionPages
      <3>. TAKE p \in N
      <3>1. PICK i \in 0 .. c - 1 : p = [session |-> id, index |-> k + i, names |-> S[i]]
        BY <2>3
      <3>2. k + i \in Nat /\ S[i] \subseteq Uploadable
        BY <2>1, <2>2
      <3>. QED BY <3>1, <3>2, <1>4 DEF SessionPages
    <2>5. /\ IsFiniteSet(N) /\ OneEach(N)
          /\ \A p \in N : p.index \in k .. k + c - 1
          /\ \A x \in k .. k + c - 1 : \E p \in N : p.index = x
      <3>1. k \in Nat
        BY <2>1
      <3>2. Layout(N, id, k, c, S)
        BY <2>3 DEF Layout
      <3>. QED BY <3>1, <3>2, LaidOut
    <2>6. pages' = pages \cup N /\ Beside(N) = pages
      BY <1>7 DEF N
    <2>7. IsFiniteSet(pages') /\ OneEach(pages') /\ pages' \subseteq SessionPages
      <3>1. IsFiniteSet(pages')
        BY <1>3, <2>5, <2>6, FS_Union
      <3>2. OneEach(pages')
        BY <1>3, <2>5, <2>6, PutBack
      <3>. QED BY <3>1, <3>2, <1>3, <2>4, <2>6
    <2>8. \A s \in Ids : s # id => PagesOf(s)' = PagesOf(s)
      BY <2>4, <2>6 DEF PagesOf
    <2>9. ASSUME id \notin closed
          PROVE  Numbered(PagesOf(id)') /\ q.names \subseteq Uploaded(id)'
      <3>1. PICK n \in Nat : {p.index : p \in PagesOf(id)} = 0 .. n - 1
        BY <1>3, <1>4, <2>9 DEF Numbered
      <3>2. PICK m \in Nat : {p.index : p \in q.held} = 0 .. m - 1
        BY <1>2, <2>9 DEF Numbered
      <3>3. k = m
        <4>1. \A p, r \in q.held : p.index = r.index => p = r
          BY <1>2 DEF OneEach
        <4>2. Cardinality(q.held) = m
          BY <4>1, <3>2, NumberedCount
        <4>. QED BY <4>2 DEF k, NextIndex
      <3>4. PagesOf(id)' = PagesOf(id) \cup N
        BY <2>4, <2>6 DEF PagesOf
      <3>5. q.held \subseteq PagesOf(id)
        BY <1>2, <2>9 DEF PagesOf
      <3>6. m <= n
        <4>1. 0 .. m - 1 \subseteq 0 .. n - 1
          BY <3>1, <3>2, <3>5
        <4>. QED BY <4>1
      <3>7. c <= 0 \/ m = n
        <4>. SUFFICES ASSUME c > 0, m < n PROVE FALSE
          BY <3>6
        <4>1. m \in 0 .. n - 1 /\ m \in k .. k + c - 1
          BY <3>3
        <4>2. PICK p \in PagesOf(id) : p.index = m
          BY <4>1, <3>1
        <4>3. PICK r \in N : r.index = m
          BY <4>1, <2>5
        <4>4. p \in pages /\ p.session = r.session
          BY <4>2, <2>4 DEF PagesOf
        <4>5. p \notin Beside(N)
          BY <4>2, <4>3, <4>4 DEF Beside
        <4>. QED BY <4>4, <4>5, <2>6
      <3>8. Numbered(PagesOf(id)')
        <4>1. {p.index : p \in PagesOf(id)'} = (0 .. n - 1) \cup (k .. k + c - 1)
          BY <3>1, <3>4, <2>5
        <4>2. CASE c <= 0
          <5>1. (0 .. n - 1) \cup (k .. k + c - 1) = 0 .. n - 1
            BY <4>2, <2>1
          <5>. QED BY <4>1, <5>1 DEF Numbered
        <4>3. CASE c > 0 /\ m = n
          <5>1. (0 .. n - 1) \cup (k .. k + c - 1) = 0 .. (n + c) - 1 /\ n + c \in Nat
            BY <4>3, <3>3
          <5>. QED BY <4>1, <5>1 DEF Numbered
        <4>. QED BY <4>2, <4>3, <3>7
      <3>9. q.names \subseteq Uploaded(id)'
        <4>1. Uploaded(id)' = UNION {p.names : p \in PagesOf(id)'}
          BY DEF Uploaded
        <4>2. \A x \in q.names : (\E p \in q.held : x \in p.names) \/ (\E p \in N : x \in p.names)
          <5>. TAKE x \in q.names
          <5>1. (\E p \in q.held : x \in p.names) \/ (\E i \in 0 .. c - 1 : x \in S[i])
            BY <2>1, <2>2
          <5>2. ASSUME NEW i \in 0 .. c - 1, x \in S[i]
                PROVE  \E p \in N : x \in p.names
            <6>. DEFINE p == [session |-> id, index |-> k + i, names |-> S[i]]
            <6>1. p \in N
              BY <2>3
            <6>2. x \in p.names
              BY <5>2
            <6>. QED BY <6>1, <6>2
          <5>. QED BY <5>1, <5>2
        <4>. QED BY <4>1, <4>2, <3>4, <3>5
      <3>. QED BY <3>8, <3>9
    <2>. QED BY <2>6, <2>7, <2>8, <2>9, <1>7
  <1>. QED BY <1>5, <1>6, <1>7
-----------------------------------------------------------------------------
\* The steps that leave the pages alone

\* A session that is opened has a number of its own and no pages.
LEMMA OpenKeeps == SessionsIInv /\ OpenSession => SessionsIInv'
  <1>. SUFFICES ASSUME SessionsIInv, OpenSession PROVE SessionsIInv'
    OBVIOUS
  <1> DEFINE n == issued.opened
             x == [id |-> n + 1, until |-> clock + Lifetime]
  <1>1. /\ n \in Nat /\ issued' \in [opened : Nat, requests : Nat] /\ issued'.opened = n + 1
        /\ sessions' = sessions \cup {x}
        /\ UNCHANGED <<pages, doing, kept, closed, overlapped, clock>>
    BY DEF OpenSession, SessionsIInv, SessionsShape
  <1>2. Ids = 1 .. n /\ Ids' = 1 .. n + 1 /\ Ids \subseteq Ids' /\ n + 1 \in Ids' /\ n + 1 \notin Ids
    BY <1>1 DEF Ids
  <1>3. SessionsShape'
    <2>1. /\ clock \in Nat /\ sessions \subseteq [id : Ids, until : Nat] /\ IsFiniteSet(sessions)
          /\ pages \subseteq SessionPages /\ IsFiniteSet(pages)
          /\ doing \in [Uploaders -> Requests \cup {NotDoing}]
          /\ kept \subseteq Ids \X Uploadable /\ closed \subseteq Ids /\ overlapped \subseteq Ids
      BY DEF SessionsIInv, SessionsShape
    <2>2. sessions' \subseteq [id : Ids', until : Nat] /\ IsFiniteSet(sessions')
      <3>1. x \in [id : Ids', until : Nat]
        BY <1>2, <2>1, SessionsAssumption
      <3>2. sessions \subseteq [id : Ids', until : Nat]
        BY <1>2, <2>1
      <3>3. IsFiniteSet(sessions \cup {x})
        BY <2>1, FS_AddElement
      <3>. QED BY <1>1, <3>1, <3>2, <3>3
    <2>3. SessionPages \subseteq SessionPages'
      BY <1>2 DEF SessionPages
    <2>4. Requests \subseteq Requests'
      BY <1>2, <2>3 DEF Requests
    <2>5. kept \subseteq Ids' \X Uploadable /\ closed \subseteq Ids' /\ overlapped \subseteq Ids'
      BY <1>2, <2>1
    <2>. QED BY <1>1, <2>1, <2>2, <2>3, <2>4, <2>5 DEF SessionsShape
  <1>4. PagesNumbered'
    <2>1. \A y, z \in sessions' : y.id = z.id => y = z
      <3>1. \A y \in sessions : y.id \in Ids
        BY DEF SessionsIInv, SessionsShape
      <3>. QED BY <1>1, <1>2, <3>1 DEF SessionsIInv, PagesNumbered
    <2>2. \A s \in Ids' : PagesOf(s)' = PagesOf(s)
      BY <1>1 DEF PagesOf
    <2>3. Numbered(PagesOf(n + 1))
      <3>1. PagesOf(n + 1) = {}
        BY <1>2 DEF PagesOf, SessionsIInv, SessionsShape, SessionPages
      <3>2. {p.index : p \in {}} = 0 .. 0 - 1
        OBVIOUS
      <3>. QED BY <3>1, <3>2 DEF Numbered
    <2>4. \A s \in Ids' \ closed' : Numbered(PagesOf(s)')
      <3>1. \A s \in Ids' : s \in Ids \/ s = n + 1
        BY <1>1, <1>2
      <3>. QED BY <1>1, <2>2, <2>3, <3>1 DEF SessionsIInv, PagesNumbered
    <2>. QED BY <1>1, <2>1, <2>4 DEF SessionsIInv, PagesNumbered
  <1>5. HeldSound' /\ OverlapsSeen' /\ ClosingHoldsAll' /\ ClosedIsLeft' /\ UploadsKept'
    BY <1>1 DEF SessionsIInv, HeldSound, OverlapsSeen, ClosingHoldsAll, ClosedIsLeft,
                UploadsKept, PagesOf, Uploaded
  <1>6. ClosedPinsNothing'
    <2>1. n + 1 \notin closed
      BY <1>2 DEF SessionsIInv, SessionsShape
    <2>. QED BY <1>1, <2>1 DEF SessionsIInv, ClosedPinsNothing, PagesOf
  <1>. QED BY <1>3, <1>4, <1>5, <1>6 DEF SessionsIInv

\* What a request can be when it begins.
LEMMA Begun ==
    ASSUME SessionsIInv, NEW u \in Uploaders, PutObject(u) \/ Renew(u) \/ EndWrite(u)
    PROVE  \E kind \in {"upload", "renew", "end"}, s \in Ids,
              names \in SUBSET Uploadable, until \in Nat :
              /\ BeginRequest(u, kind, s, names, until)
              /\ kind # "end" => \E x \in sessions : x.id = s
  <1>1. /\ clock + Lifetime \in Nat
        /\ \A x \in sessions : x.id \in Ids
    BY SessionsAssumption DEF SessionsIInv, SessionsShape
  <1>2. CASE PutObject(u)
    BY <1>1, <1>2 DEF PutObject
  <1>3. CASE Renew(u)
    BY <1>1, <1>3 DEF Renew
  <1>4. CASE EndWrite(u)
    BY <1>1, <1>4 DEF EndWrite, Ids
  <1>. QED BY <1>2, <1>3, <1>4

\* A request that begins beside a close of its session, or the other way round,
\* is noted, and nothing but a close begins on a session without a record.
LEMMA BeginKeeps ==
    ASSUME SessionsIInv, NEW u \in Uploaders, NEW kind \in {"upload", "renew", "end"},
           NEW s \in Ids, NEW names \in SUBSET Uploadable, NEW until \in Nat,
           BeginRequest(u, kind, s, names, until),
           kind # "end" => \E x \in sessions : x.id = s
    PROVE  SessionsIInv'
  <1> DEFINE r == [step |-> "read", kind |-> kind, id |-> s, names |-> names,
                   until |-> until, held |-> {}]
  <1>1. /\ doing[u] = NotDoing /\ doing' = [doing EXCEPT ![u] = r]
        /\ overlapped' = overlapped \cup
              {x \in {s} : \E v \in Uploaders : /\ doing[v] # NotDoing /\ doing[v].id = x
                                                /\ (kind = "end") # (doing[v].kind = "end")}
        /\ issued' \in [opened : Nat, requests : Nat] /\ issued'.opened = issued.opened
        /\ UNCHANGED <<sessions, pages, kept, closed, clock>>
    BY DEF BeginRequest, SessionsIInv, SessionsShape
  <1>2. Ids' = Ids /\ SessionPages' = SessionPages /\ Requests' = Requests
    BY <1>1 DEF Ids, SessionPages, Requests
  <1>3. /\ doing \in [Uploaders -> Requests \cup {NotDoing}] /\ r \in Requests
        /\ doing' \in [Uploaders -> Requests \cup {NotDoing}]
        /\ doing'[u] = r /\ \A v \in Uploaders \ {u} : doing'[v] = doing[v]
    BY <1>1 DEF SessionsIInv, SessionsShape, Requests
  <1>4. overlapped \subseteq overlapped' /\ overlapped' \subseteq overlapped \cup {s}
    BY <1>1
  <1>5. SessionsShape'
    BY <1>1, <1>2, <1>3, <1>4 DEF SessionsIInv, SessionsShape
  <1>6. PagesNumbered' /\ UploadsKept'
    BY <1>1, <1>2 DEF SessionsIInv, PagesNumbered, UploadsKept, PagesOf, Uploaded
  <1>7. HeldSound'
    BY <1>1, <1>3 DEF SessionsIInv, HeldSound
  <1>8. OverlapsSeen'
    <2>. SUFFICES ASSUME NEW v \in Uploaders, NEW w \in Uploaders,
                         doing'[v].step # "idle", doing'[w].step # "idle",
                         doing'[v].id = doing'[w].id,
                         doing'[v].kind = "end", doing'[w].kind # "end"
                  PROVE  doing'[v].id \in overlapped'
      BY DEF OverlapsSeen
    <2>1. CASE v # u /\ w # u
      BY <2>1, <1>3, <1>4 DEF SessionsIInv, OverlapsSeen
    <2>2. CASE v = u
      <3>1. w # u /\ doing'[w] = doing[w] /\ doing[w] # NotDoing
        BY <2>2, <1>3 DEF NotDoing
      <3>. QED BY <1>1, <1>3, <2>2, <3>1
    <2>3. CASE w = u
      <3>1. v # u /\ doing'[v] = doing[v] /\ doing[v] # NotDoing
        BY <2>3, <1>3 DEF NotDoing
      <3>. QED BY <1>1, <1>3, <2>3, <3>1
    <2>. QED BY <2>1, <2>2, <2>3
  <1>9. ClosingHoldsAll'
    <2>1. \A v \in Uploaders : doing'[v].step = "write" => doing'[v] = doing[v]
      BY <1>3
    <2>2. \A x \in Ids : PagesOf(x)' = PagesOf(x)
      BY <1>1 DEF PagesOf
    <2>3. \A v \in Uploaders : doing[v].step = "write" => doing[v].id \in Ids
      BY <1>3 DEF Requests, NotDoing
    <2>. SUFFICES ASSUME NEW v \in Uploaders, doing'[v].step = "write", doing'[v].kind = "end",
                         doing'[v].id \notin overlapped', NEW x, x = doing'[v].id
                  PROVE  PagesOf(x)' \subseteq doing'[v].held
      BY DEF ClosingHoldsAll, PagesOf
    <2>. QED BY <1>4, <2>1, <2>2, <2>3 DEF SessionsIInv, ClosingHoldsAll
  <1>10. ClosedIsLeft'
    <2>1. s \in closed \ overlapped => kind = "end"
      BY DEF SessionsIInv, ClosedPinsNothing
    <2>. QED BY <1>1, <1>3, <1>4, <2>1 DEF SessionsIInv, ClosedIsLeft
  <1>11. ClosedPinsNothing'
    BY <1>1, <1>4 DEF SessionsIInv, ClosedPinsNothing, PagesOf
  <1>. QED BY <1>5, <1>6, <1>7, <1>8, <1>9, <1>10, <1>11 DEF SessionsIInv

\* The pages of a session are of a run while it is open, and all there is when
\* they are read.
LEMMA ReadKeeps ==
    ASSUME SessionsIInv, NEW u \in Uploaders, ReadPages(u)
    PROVE  SessionsIInv'
  <1> DEFINE q == doing[u]
             r == [q EXCEPT !.step = "write", !.held = PagesOf(q.id)]
  <1>1. /\ q.step = "read" /\ doing \in [Uploaders -> Requests \cup {NotDoing}]
        /\ doing' = [doing EXCEPT ![u].step = "write", ![u].held = PagesOf(q.id)]
        /\ UNCHANGED <<sessions, pages, kept, closed, overlapped, clock, issued>>
    BY DEF ReadPages, SessionsIInv, SessionsShape
  <1>2. q \in Requests
    BY <1>1 DEF NotDoing
  <1>3. PagesOf(q.id) \subseteq SessionPages
    BY DEF PagesOf, SessionsIInv, SessionsShape
  <1>4. /\ r \in Requests /\ r.id = q.id /\ r.kind = q.kind
        /\ r.step = "write" /\ r.held = PagesOf(q.id)
    BY <1>2, <1>3 DEF Requests
  <1>5. doing' = [doing EXCEPT ![u] = r]
    BY <1>1, <1>2
  <1>. HIDE DEF r
  <1>6. /\ doing' \in [Uploaders -> Requests \cup {NotDoing}]
        /\ doing'[u] = r /\ \A v \in Uploaders \ {u} : doing'[v] = doing[v]
    BY <1>1, <1>4, <1>5
  <1>7. Ids' = Ids /\ SessionPages' = SessionPages /\ Requests' = Requests
    BY <1>1 DEF Ids, SessionPages, Requests
  <1>8. SessionsShape'
    BY <1>1, <1>6, <1>7 DEF SessionsIInv, SessionsShape
  <1>9. PagesNumbered' /\ UploadsKept' /\ ClosedPinsNothing'
    BY <1>1, <1>7 DEF SessionsIInv, PagesNumbered, UploadsKept, ClosedPinsNothing,
                      PagesOf, Uploaded
  <1>10. HeldSound'
    <2>1. /\ IsFiniteSet(PagesOf(q.id)) /\ OneEach(PagesOf(q.id))
          /\ PagesOf(q.id) \subseteq pages /\ \A p \in PagesOf(q.id) : p.session = q.id
      <3>1. PagesOf(q.id) \subseteq pages
        BY DEF PagesOf
      <3>2. IsFiniteSet(PagesOf(q.id))
        BY <3>1, FS_Subset DEF SessionsIInv, SessionsShape
      <3>. QED BY <3>1, <3>2 DEF SessionsIInv, PagesNumbered, OneEach, PagesOf
    <2>2. q.id \notin closed => Numbered(PagesOf(q.id))
      BY <1>2 DEF SessionsIInv, PagesNumbered, Requests
    <2>. QED BY <1>1, <1>4, <1>6, <2>1, <2>2 DEF SessionsIInv, HeldSound
  <1>11. OverlapsSeen' /\ ClosedIsLeft'
    <2>1. \A v \in Uploaders : doing'[v].step # "idle" =>
              /\ doing[v].step # "idle"
              /\ doing'[v].id = doing[v].id /\ doing'[v].kind = doing[v].kind
      BY <1>1, <1>4, <1>6
    <2>. QED BY <1>1, <2>1 DEF SessionsIInv, OverlapsSeen, ClosedIsLeft
  <1>12. ClosingHoldsAll'
    <2>. SUFFICES ASSUME NEW v \in Uploaders, doing'[v].step = "write", doing'[v].kind = "end",
                         doing'[v].id \notin overlapped', NEW x, x = doing'[v].id
                  PROVE  PagesOf(x)' \subseteq doing'[v].held
      BY DEF ClosingHoldsAll, PagesOf
    <2>1. PagesOf(x)' = PagesOf(x)
      BY <1>1 DEF PagesOf
    <2>. QED BY <1>1, <1>4, <1>6, <2>1 DEF SessionsIInv, ClosingHoldsAll
  <1>. QED BY <1>8, <1>9, <1>10, <1>11, <1>12 DEF SessionsIInv

\* Time bears on leases only.
LEMMA ElapseKeeps == SessionsIInv /\ (Elapse \/ UNCHANGED sessionVars) => SessionsIInv'
  <1>. SUFFICES ASSUME SessionsIInv, Elapse \/ UNCHANGED sessionVars PROVE SessionsIInv'
    OBVIOUS
  <1>1. /\ clock' \in Nat
        /\ UNCHANGED <<sessions, pages, doing, kept, closed, overlapped, issued>>
    BY DEF Elapse, sessionVars, SessionsIInv, SessionsShape
  <1>2. Ids' = Ids /\ SessionPages' = SessionPages /\ Requests' = Requests
    BY <1>1 DEF Ids, SessionPages, Requests
  <1>3. SessionsShape' /\ PagesNumbered' /\ HeldSound' /\ OverlapsSeen'
    BY <1>1, <1>2 DEF SessionsIInv, SessionsShape, PagesNumbered, HeldSound, OverlapsSeen, PagesOf
  <1>4. ClosingHoldsAll' /\ ClosedIsLeft' /\ UploadsKept' /\ ClosedPinsNothing'
    BY <1>1 DEF SessionsIInv, ClosingHoldsAll, ClosedIsLeft, UploadsKept, ClosedPinsNothing,
                PagesOf, Uploaded
  <1>. QED BY <1>3, <1>4 DEF SessionsIInv
-----------------------------------------------------------------------------
\* The steps that write

\* A request that ends leaves the others as they are.
LEMMA Ended ==
    ASSUME SessionsIInv, NEW u \in Uploaders, doing' = [doing EXCEPT ![u] = NotDoing]
    PROVE  /\ doing' \in [Uploaders -> Requests \cup {NotDoing}]
           /\ \A v \in Uploaders : doing'[v].step # "idle" => v # u /\ doing'[v] = doing[v]
  BY DEF SessionsIInv, SessionsShape, NotDoing

\* An upload extends its session, and not one that was closed alone.
LEMMA UploadKeeps ==
    ASSUME SessionsIInv, NEW u \in Uploaders, RecordUploaded(u)
    PROVE  SessionsIInv'
  <1>1. PICK id : id = doing[u].id
    OBVIOUS
  <1>2. /\ doing[u].step = "write" /\ doing[u].kind = "upload" /\ doing[u] \in Requests
        /\ doing' = [doing EXCEPT ![u] = NotDoing]
        /\ UNCHANGED <<sessions, closed, overlapped, clock, issued>>
    BY DEF RecordUploaded, SessionsIInv, SessionsShape, NotDoing
  <1>3. /\ IsFiniteSet(pages') /\ OneEach(pages') /\ pages' \subseteq SessionPages
        /\ pages \subseteq pages'
        /\ \A s \in Ids : s # id => PagesOf(s)' = PagesOf(s)
        /\ id \notin closed => Numbered(PagesOf(id)')
        /\ \/ kept' = kept
           \/ /\ kept' = kept \cup ({id} \X doing[u].names)
              /\ id \notin closed => doing[u].names \subseteq Uploaded(id)'
    BY <1>1, UploadedPages
  <1>4. /\ doing' \in [Uploaders -> Requests \cup {NotDoing}]
        /\ \A v \in Uploaders : doing'[v].step # "idle" => v # u /\ doing'[v] = doing[v]
    BY <1>2, Ended
  <1>5. Ids' = Ids /\ SessionPages' = SessionPages /\ Requests' = Requests
    BY <1>2 DEF Ids, SessionPages, Requests
  <1>6. id \in Ids /\ doing[u].names \subseteq Uploadable
    BY <1>1, <1>2 DEF Requests
  <1>7. SessionsShape'
    <2>1. kept' \subseteq Ids \X Uploadable
      BY <1>3, <1>6 DEF SessionsIInv, SessionsShape
    <2>. QED BY <1>2, <1>3, <1>4, <1>5, <2>1 DEF SessionsIInv, SessionsShape
  <1>8. PagesNumbered'
    <2>1. \A s \in Ids' \ closed' : Numbered(PagesOf(s)')
      <3>. TAKE s \in Ids' \ closed'
      <3>1. CASE s = id
        BY <3>1, <1>2, <1>3
      <3>2. CASE s # id
        BY <3>2, <1>2, <1>3, <1>5 DEF SessionsIInv, PagesNumbered
      <3>. QED BY <3>1, <3>2
    <2>. QED BY <1>2, <1>3, <2>1 DEF SessionsIInv, PagesNumbered
  <1>9. HeldSound'
    BY <1>2, <1>3, <1>4 DEF SessionsIInv, HeldSound
  <1>10. OverlapsSeen' /\ ClosedIsLeft'
    BY <1>2, <1>4 DEF SessionsIInv, OverlapsSeen, ClosedIsLeft
  <1>11. ClosingHoldsAll'
    <2>. SUFFICES ASSUME NEW v \in Uploaders, doing'[v].step = "write", doing'[v].kind = "end",
                         doing'[v].id \notin overlapped', NEW x, x = doing'[v].id
                  PROVE  PagesOf(x)' \subseteq doing'[v].held
      BY DEF ClosingHoldsAll, PagesOf
    <2>1. doing'[v] = doing[v] /\ x \notin overlapped /\ x = doing[v].id
      BY <1>2, <1>4
    <2>2. x # id
      BY <1>1, <1>2, <2>1 DEF SessionsIInv, OverlapsSeen
    <2>3. x \in Ids
      BY <2>1 DEF SessionsIInv, SessionsShape, Requests, NotDoing
    <2>. QED BY <1>3, <2>1, <2>2, <2>3 DEF SessionsIInv, ClosingHoldsAll
  <1>12. UploadsKept'
    <2>1. \A s : Uploaded(s) \subseteq Uploaded(s)'
      BY <1>3 DEF Uploaded, PagesOf
    <2>2. \A k \in kept' : k \in kept \/ k[1] \in closed \/ k[2] \in Uploaded(k[1])'
      BY <1>3
    <2>. QED BY <1>2, <2>1, <2>2 DEF SessionsIInv, UploadsKept
  <1>13. ClosedPinsNothing'
    <2>1. id \notin closed \ overlapped
      BY <1>1, <1>2 DEF SessionsIInv, ClosedIsLeft
    <2>2. closed \subseteq Ids
      BY DEF SessionsIInv, SessionsShape
    <2>3. \A s \in closed \ overlapped : PagesOf(s)' = {}
      BY <1>3, <2>1, <2>2 DEF SessionsIInv, ClosedPinsNothing
    <2>. QED BY <1>2, <2>3 DEF SessionsIInv, ClosedPinsNothing
  <1>. QED BY <1>7, <1>8, <1>9, <1>10, <1>11, <1>12, <1>13 DEF SessionsIInv

\* A renewal changes no page of an open session.
LEMMA RenewKeeps ==
    ASSUME SessionsIInv, NEW u \in Uploaders, PutRenewed(u)
    PROVE  SessionsIInv'
  <1>1. PICK id : id = doing[u].id
    OBVIOUS
  <1>2. /\ doing[u].step = "write" /\ doing[u].kind = "renew" /\ doing[u] \in Requests
        /\ sessions' = {x \in sessions : x.id # id} \cup {[id |-> id, until |-> doing[u].until]}
        /\ doing' = [doing EXCEPT ![u] = NotDoing]
        /\ UNCHANGED <<kept, closed, overlapped, clock, issued>>
    BY <1>1 DEF PutRenewed, SessionsIInv, SessionsShape, NotDoing
  <1>3. /\ IsFiniteSet(pages') /\ OneEach(pages') /\ pages' \subseteq SessionPages
        /\ \A s \in Ids : s # id \/ s \notin closed => PagesOf(s)' = PagesOf(s)
    BY <1>1, RenewedPages
  <1>4. /\ doing' \in [Uploaders -> Requests \cup {NotDoing}]
        /\ \A v \in Uploaders : doing'[v].step # "idle" => v # u /\ doing'[v] = doing[v]
    BY <1>2, Ended
  <1>5. Ids' = Ids /\ SessionPages' = SessionPages /\ Requests' = Requests
    BY <1>2 DEF Ids, SessionPages, Requests
  <1>6. id \in Ids /\ doing[u].until \in Nat
    BY <1>1, <1>2 DEF Requests
  <1>7. SessionsShape'
    <2>1. sessions' \subseteq [id : Ids, until : Nat]
      BY <1>2, <1>6 DEF SessionsIInv, SessionsShape
    <2>2. IsFiniteSet(sessions')
      <3>1. IsFiniteSet({x \in sessions : x.id # id})
        BY FS_Subset DEF SessionsIInv, SessionsShape
      <3>. QED BY <1>2, <3>1, FS_AddElement
    <2>. QED BY <1>2, <1>3, <1>4, <1>5, <2>1, <2>2 DEF SessionsIInv, SessionsShape
  <1>8. \A s \in Ids \ closed : PagesOf(s)' = PagesOf(s)
    BY <1>3
  <1>9. PagesNumbered'
    <2>1. \A x, y \in sessions' : x.id = y.id => x = y
      BY <1>2 DEF SessionsIInv, PagesNumbered
    <2>. QED BY <1>2, <1>3, <1>5, <1>8, <2>1 DEF SessionsIInv, PagesNumbered
  <1>10. HeldSound'
    <2>1. \A s \in Ids \ closed, p \in pages : p.session = s => p \in pages'
      BY <1>8 DEF PagesOf
    <2>2. \A v \in Uploaders : doing[v].step = "write" => doing[v].id \in Ids
      BY DEF SessionsIInv, SessionsShape, Requests, NotDoing
    <2>3. \A v \in Uploaders : doing[v].step = "write" /\ doing[v].id \notin closed =>
              doing[v].held \subseteq pages'
      BY <2>1, <2>2 DEF SessionsIInv, HeldSound
    <2>. QED BY <1>2, <1>4, <2>3 DEF SessionsIInv, HeldSound
  <1>11. OverlapsSeen' /\ ClosedIsLeft'
    BY <1>2, <1>4 DEF SessionsIInv, OverlapsSeen, ClosedIsLeft
  <1>12. ClosingHoldsAll'
    <2>. SUFFICES ASSUME NEW v \in Uploaders, doing'[v].step = "write", doing'[v].kind = "end",
                         doing'[v].id \notin overlapped', NEW x, x = doing'[v].id
                  PROVE  PagesOf(x)' \subseteq doing'[v].held
      BY DEF ClosingHoldsAll, PagesOf
    <2>1. doing'[v] = doing[v] /\ x \notin overlapped /\ x = doing[v].id
      BY <1>2, <1>4
    <2>2. x # id
      BY <1>1, <1>2, <2>1 DEF SessionsIInv, OverlapsSeen
    <2>3. x \in Ids
      BY <2>1 DEF SessionsIInv, SessionsShape, Requests, NotDoing
    <2>. QED BY <1>3, <2>1, <2>2, <2>3 DEF SessionsIInv, ClosingHoldsAll
  <1>13. UploadsKept'
    <2>1. \A s \in Ids \ closed : Uploaded(s)' = Uploaded(s)
      BY <1>8 DEF Uploaded
    <2>2. \A k \in kept : k[1] \in Ids
      BY DEF SessionsIInv, SessionsShape
    <2>. QED BY <1>2, <2>1, <2>2 DEF SessionsIInv, UploadsKept
  <1>14. ClosedPinsNothing'
    <2>1. id \notin closed \ overlapped
      BY <1>1, <1>2 DEF SessionsIInv, ClosedIsLeft
    <2>2. closed \subseteq Ids
      BY DEF SessionsIInv, SessionsShape
    <2>3. \A s \in closed \ overlapped : PagesOf(s)' = {}
      BY <1>3, <2>1, <2>2 DEF SessionsIInv, ClosedPinsNothing
    <2>4. \A s \in closed \ overlapped : \A x \in sessions' : x.id # s
      BY <1>2, <2>1 DEF SessionsIInv, ClosedPinsNothing
    <2>. QED BY <1>2, <2>3, <2>4 DEF ClosedPinsNothing
  <1>. QED BY <1>7, <1>9, <1>10, <1>11, <1>12, <1>13, <1>14 DEF SessionsIInv

\* A close takes the pages of its session, all of them when it is alone.
LEMMA DropKeeps ==
    ASSUME SessionsIInv, NEW u \in Uploaders, Drop(u)
    PROVE  SessionsIInv'
  <1>1. PICK id : id = doing[u].id
    OBVIOUS
  <1>2. /\ doing[u].step = "write" /\ doing[u].kind = "end" /\ doing[u] \in Requests
        /\ sessions' = {x \in sessions : x.id # id}
        /\ closed' = closed \cup {id}
        /\ doing' = [doing EXCEPT ![u] = NotDoing]
        /\ UNCHANGED <<kept, overlapped, clock, issued>>
    BY <1>1 DEF Drop, Closed, SessionsIInv, SessionsShape, NotDoing
  <1>3. /\ IsFiniteSet(pages') /\ OneEach(pages') /\ pages' \subseteq pages
        /\ \A p \in doing[u].held : p \notin pages'
        /\ \A s \in Ids : s # id => PagesOf(s)' = PagesOf(s)
    BY <1>1, DroppedPages
  <1>4. /\ doing' \in [Uploaders -> Requests \cup {NotDoing}]
        /\ \A v \in Uploaders : doing'[v].step # "idle" => v # u /\ doing'[v] = doing[v]
    BY <1>2, Ended
  <1>5. Ids' = Ids /\ SessionPages' = SessionPages /\ Requests' = Requests
    BY <1>2 DEF Ids, SessionPages, Requests
  <1>6. id \in Ids
    BY <1>1, <1>2 DEF Requests
  <1>7. SessionsShape'
    <2>1. IsFiniteSet(sessions') /\ sessions' \subseteq sessions
      <3>1. sessions' \subseteq sessions
        BY <1>2
      <3>. QED BY <3>1, FS_Subset DEF SessionsIInv, SessionsShape
    <2>. QED BY <1>2, <1>3, <1>4, <1>5, <1>6, <2>1 DEF SessionsIInv, SessionsShape
  <1>8. \A s \in Ids \ closed' : PagesOf(s)' = PagesOf(s) /\ s \notin closed
    BY <1>2, <1>3
  <1>9. PagesNumbered'
    BY <1>2, <1>3, <1>5, <1>8 DEF SessionsIInv, PagesNumbered
  <1>10. HeldSound'
    <2>1. \A s \in Ids \ closed', p \in pages : p.session = s => p \in pages'
      BY <1>8 DEF PagesOf
    <2>2. \A v \in Uploaders : doing[v].step = "write" => doing[v].id \in Ids
      BY DEF SessionsIInv, SessionsShape, Requests, NotDoing
    <2>3. \A v \in Uploaders : doing[v].step = "write" /\ doing[v].id \notin closed' =>
              doing[v].held \subseteq pages' /\ doing[v].id \notin closed
      BY <2>1, <2>2, <1>2 DEF SessionsIInv, HeldSound
    <2>. QED BY <1>4, <2>3 DEF SessionsIInv, HeldSound
  <1>11. OverlapsSeen'
    BY <1>2, <1>4 DEF SessionsIInv, OverlapsSeen
  <1>12. ClosedIsLeft'
    <2>1. \A v \in Uploaders : doing'[v].step # "idle" /\ doing'[v].id = id /\ id \notin overlapped
              => doing'[v].kind = "end"
      BY <1>1, <1>2, <1>4 DEF SessionsIInv, OverlapsSeen
    <2>. QED BY <1>2, <1>4, <2>1 DEF SessionsIInv, ClosedIsLeft
  <1>13. ClosingHoldsAll'
    <2>. SUFFICES ASSUME NEW v \in Uploaders, doing'[v].step = "write", doing'[v].kind = "end",
                         doing'[v].id \notin overlapped', NEW x, x = doing'[v].id
                  PROVE  PagesOf(x)' \subseteq doing'[v].held
      BY DEF ClosingHoldsAll, PagesOf
    <2>1. doing'[v] = doing[v] /\ x \notin overlapped /\ x = doing[v].id
      BY <1>2, <1>4
    <2>2. PagesOf(x)' \subseteq PagesOf(x)
      BY <1>3 DEF PagesOf
    <2>. QED BY <2>1, <2>2 DEF SessionsIInv, ClosingHoldsAll
  <1>14. UploadsKept'
    <2>1. \A s \in Ids \ closed' : Uploaded(s)' = Uploaded(s)
      BY <1>8 DEF Uploaded
    <2>2. \A k \in kept : k[1] \in Ids
      BY DEF SessionsIInv, SessionsShape
    <2>. QED BY <1>2, <2>1, <2>2 DEF SessionsIInv, UploadsKept
  <1>15. ClosedPinsNothing'
    <2>1. id \notin overlapped => PagesOf(id)' = {}
      <3>1. id \notin overlapped => PagesOf(id) \subseteq doing[u].held
        BY <1>1, <1>2 DEF SessionsIInv, ClosingHoldsAll
      <3>. QED BY <3>1, <1>3 DEF PagesOf
    <2>2. closed \subseteq Ids
      BY DEF SessionsIInv, SessionsShape
    <2>3. \A s \in closed' \ overlapped : PagesOf(s)' = {}
      BY <1>2, <1>3, <2>1, <2>2 DEF SessionsIInv, ClosedPinsNothing
    <2>4. \A s \in closed' \ overlapped : \A x \in sessions' : x.id # s
      BY <1>2 DEF SessionsIInv, ClosedPinsNothing
    <2>. QED BY <1>2, <2>3, <2>4 DEF ClosedPinsNothing
  <1>. QED BY <1>7, <1>9, <1>10, <1>11, <1>12, <1>13, <1>14, <1>15 DEF SessionsIInv
-----------------------------------------------------------------------------
\* The theorem

\* What follows from the invariant: as many numbers as pages, and a session
\* among the oldest is one the collector's list has.
LEMMA SessionsFollow == SessionsIInv => SessionsInv
  <1>. SUFFICES ASSUME SessionsIInv PROVE SessionsInv
    OBVIOUS
  <1>1. SessionsTypeOK
    <2>1. \A s \in Ids \ closed : {p.index : p \in PagesOf(s)} = 0 .. Cardinality(PagesOf(s)) - 1
      <3>. TAKE s \in Ids \ closed
      <3>1. PICK n \in Nat : {p.index : p \in PagesOf(s)} = 0 .. n - 1
        BY DEF SessionsIInv, PagesNumbered, Numbered
      <3>2. \A p, r \in PagesOf(s) : p.index = r.index => p = r
        BY DEF SessionsIInv, PagesNumbered, OneEach, PagesOf
      <3>3. Cardinality(PagesOf(s)) = n
        BY <3>1, <3>2, NumberedCount
      <3>. QED BY <3>1, <3>3
    <2>. QED BY <2>1 DEF SessionsIInv, PagesNumbered, SessionsTypeOK, OneEach, Ids
  <1>2. LeasesSeen
    <2>. SUFFICES ASSUME Cardinality(sessions) <= ListLimit, NEW k \in kept, NEW x \in sessions,
                         x.id = k[1], x.id \notin closed, x.until > clock
                  PROVE  k[2] \in LeasedNow
      BY DEF LeasesSeen
    <2>1. k[2] \in Uploaded(x.id)
      BY DEF SessionsIInv, UploadsKept
    <2>2. Cardinality({y \in sessions : y.id < x.id}) < ListLimit
      <3>1. IsFiniteSet(sessions) /\ x.id \in Nat
        BY DEF SessionsIInv, SessionsShape, Ids
      <3>2. /\ IsFiniteSet(sessions \ {x})
            /\ Cardinality(sessions \ {x}) = Cardinality(sessions) - 1
        BY <3>1, FS_RemoveElement
      <3>3. {y \in sessions : y.id < x.id} \subseteq sessions \ {x}
        BY <3>1
      <3>4. Cardinality({y \in sessions : y.id < x.id}) <= Cardinality(sessions \ {x})
        BY <3>2, <3>3, FS_Subset
      <3>5. /\ Cardinality(sessions) \in Nat
            /\ Cardinality({y \in sessions : y.id < x.id}) \in Nat
        BY <3>1, <3>2, <3>3, FS_Subset, FS_CardinalityType
      <3>. QED BY <3>2, <3>4, <3>5, SessionsAssumption
    <2>3. x \in {y \in ListedSessions : y.until > clock}
      BY <2>2 DEF ListedSessions
    <2>. QED BY <2>1, <2>3 DEF LeasedNow
  <1>. QED BY <1>1, <1>2 DEF SessionsIInv, SessionsInv

\* An object that an upload was told is recorded (record_uploaded) stays under
\* its session's pages until the session is closed and is leased while it has
\* not expired and is among the oldest ListLimit; pages of a session do not
\* clash and have no gap; and a session closed with nothing beside it leaves
\* neither record nor pages.  For every number of connections, objects,
\* sessions and requests, whatever a renewal or a close read before.
THEOREM UploadsStayLeased == SessionsSpec => []SessionsInv
  <1>1. SessionsInit => SessionsIInv
    <2>. SUFFICES ASSUME SessionsInit PROVE SessionsIInv
      OBVIOUS
    <2>. USE DEF SessionsInit
    <2>1. issued.opened = 0 /\ Ids = {}
      BY DEF Ids
    <2>2. SessionsShape
      BY <2>1, FS_EmptySet DEF SessionsShape
    <2>3. PagesNumbered /\ HeldSound /\ OverlapsSeen
      BY <2>1 DEF PagesNumbered, HeldSound, OverlapsSeen, OneEach, NotDoing
    <2>4. ClosingHoldsAll /\ ClosedIsLeft /\ UploadsKept /\ ClosedPinsNothing
      BY DEF ClosingHoldsAll, ClosedIsLeft, UploadsKept, ClosedPinsNothing, NotDoing
    <2>. QED BY <2>2, <2>3, <2>4 DEF SessionsIInv
  <1>2. SessionsIInv /\ [SessionsNext]_sessionVars => SessionsIInv'
    <2>. SUFFICES ASSUME SessionsIInv, [SessionsNext]_sessionVars PROVE SessionsIInv'
      OBVIOUS
    <2>1. CASE OpenSession
      BY <2>1, OpenKeeps
    <2>2. ASSUME NEW u \in Uploaders, PutObject(u) \/ Renew(u) \/ EndWrite(u)
          PROVE  SessionsIInv'
      BY <2>2, Begun, BeginKeeps
    <2>3. ASSUME NEW u \in Uploaders, ReadPages(u) PROVE SessionsIInv'
      BY <2>3, ReadKeeps
    <2>4. ASSUME NEW u \in Uploaders, RecordUploaded(u) PROVE SessionsIInv'
      BY <2>4, UploadKeeps
    <2>5. ASSUME NEW u \in Uploaders, PutRenewed(u) PROVE SessionsIInv'
      BY <2>5, RenewKeeps
    <2>6. ASSUME NEW u \in Uploaders, Drop(u) PROVE SessionsIInv'
      BY <2>6, DropKeeps
    <2>7. CASE Elapse \/ UNCHANGED sessionVars
      BY <2>7, ElapseKeeps
    <2>. QED BY <2>1, <2>2, <2>3, <2>4, <2>5, <2>6, <2>7 DEF SessionsNext
  <1>. QED BY <1>1, <1>2, SessionsFollow, PTL DEF SessionsSpec
=============================================================================
