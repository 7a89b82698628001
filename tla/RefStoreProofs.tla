--------------------------- MODULE RefStoreProofs ---------------------------
(***************************************************************************)
(* Theorems about RefStore, for every set of callers, refs, targets, keys  *)
(* and changes, every retry bound and every number of calls.               *)
(***************************************************************************)
EXTENDS RefStore, TLAPS

-----------------------------------------------------------------------------
\* Type correctness

\* The phases in which a call has settled on the mutation it will attempt.
Planned == Phases \ {"idle", "undo"}

\* What a call in progress knows, by phase.
CallFits(c) ==
    /\ phase[c] # "idle" => asked[c] \in Request
    /\ phase[c] \in {"replay", "recheck", "reread"} => asked[c].key \in Keys
    /\ phase[c] = "reread" => idem[asked[c].key] \in Recorded
    /\ phase[c] \in Planned =>
          /\ plan[c] \in Plan
          /\ (plan[c].kind = "DeleteRef") <=> (asked[c].target = NoTarget)
    /\ phase[c] = "change" => asked[c].change # NoChange
    /\ phase[c] \in {"change", "commit"} =>
          /\ slot[c].next = slot[c].version
          /\ slot[c].next \in 1 .. counter.version

\* TypeOK alone is not inductive: that a transaction writes well-typed items
\* rests on what its call has read before.
TInv ==
    /\ TypeOK
    /\ counter.next = counter.version
    /\ \A c \in Clients : CallFits(c)


LEMMA LatestType == ASSUME NEW S, S \subseteq Nat PROVE Latest(S) \in Nat
  BY DEF Latest

\* The end of a call leaves the callers' state well typed.
LEMMA FinishFits ==
  ASSUME TInv, NEW c \in Clients, phase[c] # "idle",
         NEW outcome \in Outcomes, NEW seq \in Nat, Finish(c, outcome, seq), UNCHANGED store
  PROVE  TInv'
  <1> USE DEF TInv, Finish
  <1>1. asked[c] \in Request
    BY DEF CallFits
  <1>2. TypeOK'
    <2>1. TypeOK /\ UNCHANGED <<store, seen, calls>>
      OBVIOUS
    <2>2. /\ asked' \in [Clients -> Request \cup {NoRequest}]
          /\ phase' \in [Clients -> Phases]
          /\ plan' \in [Clients -> Plan \cup {NoPlan}]
      BY <1>1, <2>1 DEF TypeOK, Phases
    <2>3. NoRef \in RefItem /\ 0 \in 0 .. (CounterRetries - 1) /\ <<>> \in Seq(Targets)
      BY RefStoreAssumption DEF RefItem, NoRef
    <2>4. /\ cur' \in [Clients -> RefItem]
          /\ slot' \in [Clients -> [next : Nat, version : Nat]]
          /\ commits' \in [Clients -> Seq(Targets)]
      BY <2>1, <2>3 DEF TypeOK
    <2>5. /\ tries' \in [Clients -> 0 .. (CounterRetries - 1)]
          /\ result' \in [Clients -> [outcome : Outcomes, seq : Nat]]
      BY <2>1, <2>3 DEF TypeOK
    <2> HIDE DEF TInv, Finish
    <2> QED BY <2>1, <2>2, <2>4, <2>5 DEF TypeOK, store
  <1>3. ASSUME NEW d \in Clients PROVE CallFits(d)'
    <2>1. CallFits(d) OBVIOUS
    <2>2. CASE d = c
      BY <2>2, <1>2 DEF CallFits, TypeOK, Planned
    <2>3. CASE d # c
      BY <2>1, <2>3 DEF CallFits, TypeOK, store
    <2> QED BY <2>2, <2>3
  <1> QED BY <1>2, <1>3 DEF store

\* A call that moves on without touching the partition stays well typed, as
\* long as what it has just read is.
LEMMA GotoFits ==
  ASSUME TInv, NEW c \in Clients, NEW step \in Phases \ {"idle", "undo"}, Goto(c, step),
         asked[c] \in Request,
         \A d \in Clients \ {c} : /\ plan'[d] = plan[d]
                                  /\ slot'[d] = slot[d],
         plan' \in [Clients -> Plan \cup {NoPlan}], cur' \in [Clients -> RefItem],
         slot' \in [Clients -> [next : Nat, version : Nat]],
         commits' \in [Clients -> Seq(Targets)], tries' \in [Clients -> 0 .. (CounterRetries - 1)],
         step \in {"replay", "recheck", "reread"} => asked[c].key \in Keys,
         step = "reread" => idem[asked[c].key] \in Recorded,
         step = "change" => asked[c].change # NoChange,
         plan'[c] \in Plan,
         (plan'[c].kind = "DeleteRef") <=> (asked[c].target = NoTarget),
         step \in {"change", "commit"} => slot'[c].next = slot'[c].version
                                          /\ slot'[c].next \in 1 .. counter.version
  PROVE  TInv'
  <1> USE DEF TInv, Goto
  <1>1. TypeOK'
    BY DEF TypeOK, store
  <1>2. ASSUME NEW d \in Clients PROVE CallFits(d)'
    <2>1. CallFits(d) OBVIOUS
    <2>2. CASE d = c
      BY <2>2, <1>1 DEF CallFits, TypeOK, Planned, store
    <2>3. CASE d # c
      BY <2>1, <2>3 DEF CallFits, TypeOK, store
    <2> QED BY <2>2, <2>3
  <1> QED BY <1>1, <1>2 DEF store

LEMMA FirstStepType ==
  ASSUME NEW q \in Request
  PROVE  /\ FirstStep(q) \in {"replay", "counter"}
         /\ FirstStep(q) = "replay" => q.key \in Keys
  BY DEF FirstStep, Request

LEMMA InitFits == Init => TInv
  BY RefStoreAssumption
     DEF Init, TInv, TypeOK, CallFits, RefItem, Phases, Planned, Outcomes

LEMMA LookFits ==
  ASSUME TInv, NEW c \in Clients, NEW r \in Refs, Look(c, r)
  PROVE  TInv'
  <1> USE DEF TInv, Look
  <1>1. Latest(About(r)) \in Nat
    BY LatestType DEF TypeOK, About
  <1>2. TypeOK'
    BY <1>1 DEF TypeOK, store, Sight, RefItem
  <1>3. \A d \in Clients : CallFits(d)'
    BY DEF CallFits, store
  <1> QED BY <1>2, <1>3 DEF store

\* A call starts well typed when its request is, and its first phase fits it.
LEMMA BeginFits ==
  ASSUME TInv, NEW c \in Clients, NEW q \in Request, NEW p \in Plan \cup {NoPlan},
         NEW step \in {"undo", "read", "replay", "counter"}, Begin(c, q, p, step),
         step = "replay" => q.key \in Keys,
         step # "undo" => p \in Plan /\ ((p.kind = "DeleteRef") <=> (q.target = NoTarget))
  PROVE  TInv'
  <1> USE DEF TInv, Begin
  <1>1. TypeOK'
    <2> USE DEF TypeOK
    <2>1. /\ asked' \in [Clients -> Request \cup {NoRequest}]
          /\ plan' \in [Clients -> Plan \cup {NoPlan}]
          /\ seen' \in [Clients -> Sight \cup {NoSight}]
      OBVIOUS
    <2>2. phase' \in [Clients -> Phases]
      BY DEF Phases
    <2>3. result' \in [Clients -> [outcome : Outcomes, seq : Nat]]
      BY DEF Outcomes
    <2>4. calls' \in 0 .. MaxCalls
      BY RefStoreAssumption
    <2> QED BY <2>1, <2>2, <2>3, <2>4 DEF store
  <1>2. ASSUME NEW d \in Clients PROVE CallFits(d)'
    <2>1. CallFits(d) OBVIOUS
    <2>2. CASE d = c
      BY <2>2, <1>1 DEF CallFits, TypeOK, Planned, store
    <2>3. CASE d # c
      BY <2>1, <2>3 DEF CallFits, TypeOK, store
    <2> QED BY <2>2, <2>3
  <1> QED BY <1>1, <1>2 DEF store

LEMMA AskFits ==
  ASSUME TInv, NEW c \in Clients, Ask(c)
  PROVE  TInv'
  <1> USE RefStoreAssumption DEF PlanOf, Plan, OpKinds
  <1> PICK k \in Keys \cup {NoKey} :
        \/ \E r \in Refs : AskDelete(c, r, k)
        \/ \E r \in Refs, t \in Targets, x \in Changes \cup {NoChange} :
              AskCreate(c, r, t, k, x) \/ AskUpdate(c, r, t, k, x)
        \/ \E i \in DOMAIN ops : AskUndo(c, i, k)
    BY DEF Ask
  <1>1. ASSUME NEW r \in Refs, NEW t \in Targets, NEW x \in Changes \cup {NoChange},
               AskCreate(c, r, t, k, x)
        PROVE  TInv'
    <2> DEFINE q == [op |-> "create", ref |-> r, target |-> t, expected |-> 0, key |-> k,
                     change |-> x, undoes |-> 0, saw |-> 0]
    <2>1. q \in Request
      BY DEF Request
    <2>2. Begin(c, q, PlanOf("CreateRef", q), FirstStep(q))
      BY <1>1 DEF AskCreate
    <2> QED BY <2>1, <2>2, BeginFits, FirstStepType
  <1>2. ASSUME NEW r \in Refs, NEW t \in Targets, NEW x \in Changes \cup {NoChange},
               AskUpdate(c, r, t, k, x)
        PROVE  TInv'
    <2> PICK s \in {seen[c]} \cup [ref : Refs, generation : Guesses, at : {0}] :
          /\ s # NoSight
          /\ Begin(c, [op |-> "update", ref |-> r, target |-> t, expected |-> s.generation,
                       key |-> k, change |-> x, undoes |-> 0, saw |-> s.at],
                   PlanOf("UpdateRef",
                     [op |-> "update", ref |-> r, target |-> t, expected |-> s.generation,
                      key |-> k, change |-> x, undoes |-> 0, saw |-> s.at]), "read")
      BY <1>2 DEF AskUpdate
    <2> DEFINE q == [op |-> "update", ref |-> r, target |-> t, expected |-> s.generation,
                     key |-> k, change |-> x, undoes |-> 0, saw |-> s.at]
    <2>1. s.generation \in Nat /\ s.at \in Nat
      BY DEF TInv, TypeOK, Sight
    <2>2. q \in Request
      BY <2>1 DEF Request
    <2> QED BY <2>2, <2>1, BeginFits
  <1>3. ASSUME NEW r \in Refs, AskDelete(c, r, k)
        PROVE  TInv'
    <2> PICK s \in {seen[c]} \cup [ref : Refs, generation : Guesses, at : {0}] :
          /\ s # NoSight
          /\ Begin(c, [op |-> "delete", ref |-> r, target |-> NoTarget,
                       expected |-> s.generation, key |-> k, change |-> NoChange,
                       undoes |-> 0, saw |-> s.at],
                   PlanOf("DeleteRef",
                     [op |-> "delete", ref |-> r, target |-> NoTarget,
                      expected |-> s.generation, key |-> k, change |-> NoChange,
                      undoes |-> 0, saw |-> s.at]), "read")
      BY <1>3 DEF AskDelete
    <2> DEFINE q == [op |-> "delete", ref |-> r, target |-> NoTarget,
                     expected |-> s.generation, key |-> k, change |-> NoChange,
                     undoes |-> 0, saw |-> s.at]
    <2>1. s.generation \in Nat /\ s.at \in Nat
      BY DEF TInv, TypeOK, Sight
    <2>2. q \in Request
      BY <2>1 DEF Request
    <2> QED BY <2>2, <2>1, BeginFits
  <1>4. ASSUME NEW i \in DOMAIN ops, AskUndo(c, i, k)
        PROVE  TInv'
    <2> DEFINE q == [op |-> "undo", ref |-> ops[i].ref, target |-> ops[i].before,
                     expected |-> 0, key |-> k, change |-> NoChange, undoes |-> i, saw |-> 0]
    <2>1. ops[i] \in OpEntry /\ i \in Nat
      BY DEF TInv, TypeOK
    <2>2. q \in Request
      BY <2>1 DEF Request, OpEntry
    <2>3. Begin(c, q, NoPlan, "undo")
      BY <1>4 DEF AskUndo
    <2> QED BY <2>2, <2>3, BeginFits
  <1> QED BY <1>1, <1>2, <1>3, <1>4

LEMMA RetryFits ==
  ASSUME TInv, NEW c \in Clients, Retry(c)
  PROVE  TInv'
  <1> DEFINE q == asked[c]
  <1> USE RefStoreAssumption DEF PlanOf, Plan, OpKinds
  <1>1. q \in Request
    BY DEF Retry, TInv, TypeOK
  <1>2. CASE q.op = "create"
    <2>1. Begin(c, q, PlanOf("CreateRef", q), FirstStep(q))
      BY <1>2 DEF Retry
    <2> QED BY <1>1, <1>2, <2>1, BeginFits, FirstStepType DEF Request
  <1>3. CASE q.op = "update"
    <2>1. Begin(c, q, PlanOf("UpdateRef", q), "read")
      BY <1>3 DEF Retry
    <2> QED BY <1>1, <1>3, <2>1, BeginFits DEF Request
  <1>4. CASE q.op = "delete"
    <2>1. Begin(c, q, PlanOf("DeleteRef", q), "read")
      BY <1>4 DEF Retry
    <2> QED BY <1>1, <1>4, <2>1, BeginFits DEF Request
  <1>5. CASE q.op = "undo"
    <2>1. Begin(c, q, NoPlan, "undo")
      BY <1>5 DEF Retry
    <2> QED BY <1>1, <1>5, <2>1, BeginFits
  <1> QED BY <1>1, <1>2, <1>3, <1>4, <1>5 DEF Request

LEMMA UndoFits ==
  ASSUME TInv, NEW c \in Clients, Undo(c)
  PROVE  TInv'
  <1> USE DEF Undo
  <1>1. asked[c] \in Request /\ phase[c] # "idle"
    BY DEF TInv, CallFits
  <1>2. CASE asked[c].target = NoTarget /\ ref[asked[c].ref] = NoRef
    BY <1>1, <1>2, FinishFits DEF Outcomes
  <1>3. CASE ~(asked[c].target = NoTarget /\ ref[asked[c].ref] = NoRef)
    <2> DEFINE step == IF UndoPlan(c).kind = "CreateRef" THEN FirstStep(asked[c]) ELSE "read"
    <2>1. UndoPlan(c) \in Plan
      <3>1. ref[asked[c].ref].generation \in Nat
        BY <1>1 DEF TInv, TypeOK, RefItem, NoRef, Request
      <3>2. Latest(About(asked[c].ref)) \in Nat
        BY LatestType DEF About, TInv, TypeOK
      <3> QED BY <3>1, <3>2 DEF UndoPlan, Plan, OpKinds
    <2>2. (UndoPlan(c).kind = "DeleteRef") <=> (asked[c].target = NoTarget)
      BY DEF UndoPlan
    <2>3. /\ plan' = [plan EXCEPT ![c] = UndoPlan(c)]
          /\ Goto(c, step)
          /\ UNCHANGED <<cur, slot, commits, tries>>
      BY <1>3
    <2>4. plan \in [Clients -> Plan \cup {NoPlan}]
      BY DEF TInv, TypeOK
    <2>5. step \in {"read", "replay", "counter"} /\ (step = "replay" => asked[c].key \in Keys)
      BY <1>1, FirstStepType
    <2>6. /\ plan'[c] = UndoPlan(c)
          /\ plan' \in [Clients -> Plan \cup {NoPlan}]
          /\ \A d \in Clients \ {c} : plan'[d] = plan[d] /\ slot'[d] = slot[d]
      BY <2>1, <2>3, <2>4
    <2> HIDE DEF step
    <2>7. step \in Phases \ {"idle", "undo"} /\ step \notin {"recheck", "reread", "change", "commit"}
      BY <2>5 DEF Phases
    <2>8. /\ cur' \in [Clients -> RefItem] /\ commits' \in [Clients -> Seq(Targets)]
          /\ slot' \in [Clients -> [next : Nat, version : Nat]]
          /\ tries' \in [Clients -> 0 .. (CounterRetries - 1)]
      BY <2>3 DEF TInv, TypeOK
    <2> QED BY <1>1, <2>1, <2>2, <2>3, <2>5, <2>6, <2>7, <2>8, GotoFits
  <1> QED BY <1>2, <1>3

\* In a planned phase the call knows its request and its plan.
LEMMA PlannedFits ==
  ASSUME TInv, NEW c \in Clients, phase[c] \in Planned
  PROVE  /\ phase[c] # "idle"
         /\ asked[c] \in Request
         /\ plan[c] \in Plan
         /\ (plan[c].kind = "DeleteRef") <=> (asked[c].target = NoTarget)
  BY DEF TInv, CallFits, Planned

LEMMA ReadRefFits ==
  ASSUME TInv, NEW c \in Clients, ReadRef(c)
  PROVE  TInv'
  <1> DEFINE now == ref[asked[c].ref]
             frozen == asked[c].ref \in Tags /\ plan[c].kind # "DeleteRef"
  <1>0. phase[c] \in Planned
    BY DEF ReadRef, Planned, Phases
  <1>1. CASE now = NoRef /\ Finish(c, "notfound", 0) /\ UNCHANGED store
    BY <1>0, <1>1, PlannedFits, FinishFits DEF Outcomes
  <1>2. CASE now # NoRef /\ frozen /\ Finish(c, "conflict", 0) /\ UNCHANGED store
    BY <1>0, <1>2, PlannedFits, FinishFits DEF Outcomes
  <1>3. CASE /\ cur' = [cur EXCEPT ![c] = now]
             /\ Goto(c, FirstStep(asked[c]))
             /\ UNCHANGED <<plan, slot, commits, tries>>
    <2>1. now \in RefItem
      BY <1>0, PlannedFits DEF TInv, TypeOK, Request
    <2>2. cur' \in [Clients -> RefItem]
      BY <1>3, <2>1 DEF TInv, TypeOK
    <2>3. FirstStep(asked[c]) \in Phases \ {"idle", "undo", "recheck", "reread", "change", "commit"}
      BY <1>0, PlannedFits, FirstStepType DEF Phases
    <2>4. FirstStep(asked[c]) = "replay" => asked[c].key \in Keys
      BY <1>0, PlannedFits, FirstStepType
    <2>5. /\ plan' \in [Clients -> Plan \cup {NoPlan}]
          /\ commits' \in [Clients -> Seq(Targets)]
          /\ slot' \in [Clients -> [next : Nat, version : Nat]]
          /\ tries' \in [Clients -> 0 .. (CounterRetries - 1)]
      BY <1>3 DEF TInv, TypeOK
    <2> QED BY <1>0, <1>3, <2>2, <2>3, <2>4, <2>5, PlannedFits, GotoFits
  <1> QED BY <1>1, <1>2, <1>3 DEF ReadRef

\* Moving on with nothing but the phase changed.
LEMMA JustGotoFits ==
  ASSUME TInv, NEW c \in Clients, phase[c] \in Planned,
         NEW step \in {"counter", "recheck", "reread"}, Goto(c, step),
         step # "counter" => asked[c].key \in Keys,
         step = "reread" => idem[asked[c].key] \in Recorded,
         UNCHANGED <<plan, cur, slot, commits, tries>>
  PROVE  TInv'
  <1>1. /\ plan' \in [Clients -> Plan \cup {NoPlan}]
        /\ cur' \in [Clients -> RefItem]
        /\ commits' \in [Clients -> Seq(Targets)]
        /\ slot' \in [Clients -> [next : Nat, version : Nat]]
        /\ tries' \in [Clients -> 0 .. (CounterRetries - 1)]
    BY DEF TInv, TypeOK
  <1>2. step \in Phases \ {"idle", "undo"}
    BY DEF Phases
  <1> QED BY <1>1, <1>2, PlannedFits, GotoFits

\* What a call answers with is an operation number.
LEMMA ReportedType ==
  ASSUME NEW c \in Clients, asked[c] \in Request, NEW n \in Nat
  PROVE  Reported(c, n) \in Nat
  BY DEF Reported, Request

LEMMA AnswerFits ==
  ASSUME TInv, NEW c \in Clients, phase[c] \in {"replay", "recheck"}, Answer(c)
  PROVE  TInv'
  <1> DEFINE record == idem[asked[c].key]
  <1>1. phase[c] \in Planned /\ asked[c].key \in Keys
    BY DEF Planned, Phases, TInv, CallFits
  <1>2. record \in Recorded
    BY <1>1 DEF Answer, TInv, TypeOK
  <1>3. Reported(c, record.seq) \in Nat
    BY <1>1, <1>2, PlannedFits, ReportedType DEF Recorded
  <1>4. CASE Finish(c, "replayed", Reported(c, record.seq)) /\ UNCHANGED store
    BY <1>1, <1>3, <1>4, PlannedFits, FinishFits DEF Outcomes
  <1>5. CASE Goto(c, "reread") /\ UNCHANGED <<plan, cur, slot, commits, tries>>
    BY <1>1, <1>2, <1>5, JustGotoFits
  <1>6. CASE Finish(c, "mismatch", 0) /\ UNCHANGED store
    BY <1>1, <1>6, PlannedFits, FinishFits DEF Outcomes
  <1> QED BY <1>4, <1>5, <1>6 DEF Answer

LEMMA ReplayFits ==
  ASSUME TInv, NEW c \in Clients, Replay(c)
  PROVE  TInv'
  <1>1. phase[c] \in Planned
    BY DEF Replay, Planned, Phases
  <1> QED BY <1>1, AnswerFits, JustGotoFits DEF Replay

LEMMA RereadFits ==
  ASSUME TInv, NEW c \in Clients, Reread(c)
  PROVE  TInv'
  <1>1. phase[c] \in Planned
    BY DEF Reread, Planned, Phases
  <1>2. idem[asked[c].key].seq \in Nat
    BY DEF Reread, TInv, CallFits, Recorded
  <1> QED BY <1>1, <1>2, PlannedFits, FinishFits DEF Reread, Outcomes

LEMMA ReadCounterFits ==
  ASSUME TInv, NEW c \in Clients, ReadCounter(c)
  PROVE  TInv'
  <1> DEFINE step == IF asked[c].change = NoChange THEN "commit" ELSE "change"
  <1>1. phase[c] \in Planned
    BY DEF ReadCounter, Planned, Phases
  <1>2. /\ slot' = [slot EXCEPT ![c] = counter]
        /\ Goto(c, step)
        /\ UNCHANGED <<plan, cur, commits, tries>>
    BY DEF ReadCounter
  <1>3. counter.next = counter.version /\ counter.next \in 1 .. counter.version
    BY DEF TInv, TypeOK
  <1>4. /\ slot' \in [Clients -> [next : Nat, version : Nat]]
        /\ slot'[c] = counter
        /\ \A d \in Clients \ {c} : slot'[d] = slot[d]
    BY <1>2 DEF TInv, TypeOK
  <1>5. /\ plan' \in [Clients -> Plan \cup {NoPlan}]
        /\ cur' \in [Clients -> RefItem]
        /\ commits' \in [Clients -> Seq(Targets)]
        /\ tries' \in [Clients -> 0 .. (CounterRetries - 1)]
    BY <1>2 DEF TInv, TypeOK
  <1>6. /\ step \in Phases \ {"idle", "undo"} /\ step \notin {"replay", "recheck", "reread"}
        /\ step = "change" => asked[c].change # NoChange
    BY DEF Phases
  <1> HIDE DEF step
  <1> QED BY <1>1, <1>2, <1>3, <1>4, <1>5, <1>6, PlannedFits, GotoFits

LEMMA ReadChangeFits ==
  ASSUME TInv, NEW c \in Clients, ReadChange(c)
  PROVE  TInv'
  <1>1. phase[c] \in Planned /\ phase[c] = "change"
    BY DEF ReadChange, Planned, Phases
  <1>2. asked[c].change \in Changes /\ asked[c].target \in Targets
    <2>1. asked[c].change # NoChange
      BY <1>1 DEF TInv, CallFits
    <2> QED BY <1>1, <2>1, PlannedFits, RefStoreAssumption DEF Request
  <1>3. <<asked[c].target>> \o change[asked[c].change] \in Seq(Targets)
    BY <1>2 DEF TInv, TypeOK
  <1>4. commits' \in [Clients -> Seq(Targets)]
    BY <1>3 DEF ReadChange, TInv, TypeOK
  <1>5. /\ plan' \in [Clients -> Plan \cup {NoPlan}]
        /\ cur' \in [Clients -> RefItem]
        /\ slot' \in [Clients -> [next : Nat, version : Nat]]
        /\ tries' \in [Clients -> 0 .. (CounterRetries - 1)]
    BY DEF ReadChange, TInv, TypeOK
  <1>6. slot[c].next = slot[c].version /\ slot[c].next \in 1 .. counter.version
    BY <1>1 DEF TInv, CallFits
  <1>7. "commit" \in Phases \ {"idle", "undo"}
    BY DEF Phases
  <1> QED BY <1>1, <1>4, <1>5, <1>6, <1>7, PlannedFits, GotoFits DEF ReadChange

LEMMA CounterMovedFits ==
  ASSUME TInv, NEW c \in Clients, CounterMoved(c)
  PROVE  TInv'
  <1>1. phase[c] \in Planned
    BY DEF CounterMoved, Planned, Phases
  <1>2. CASE tries[c] + 1 < CounterRetries
    <2>1. /\ tries' = [tries EXCEPT ![c] = @ + 1]
          /\ Goto(c, "counter")
          /\ UNCHANGED <<plan, cur, slot, commits>>
      BY <1>2 DEF CounterMoved
    <2>2. tries' \in [Clients -> 0 .. (CounterRetries - 1)]
      BY <1>2, <2>1, RefStoreAssumption DEF TInv, TypeOK
    <2>3. /\ plan' \in [Clients -> Plan \cup {NoPlan}]
          /\ cur' \in [Clients -> RefItem]
          /\ slot' \in [Clients -> [next : Nat, version : Nat]]
          /\ commits' \in [Clients -> Seq(Targets)]
      BY <2>1 DEF TInv, TypeOK
    <2>4. "counter" \in Phases \ {"idle", "undo"}
      BY DEF Phases
    <2> QED BY <1>1, <2>1, <2>2, <2>3, <2>4, PlannedFits, GotoFits
  <1>3. CASE ~(tries[c] + 1 < CounterRetries)
    BY <1>1, <1>3, PlannedFits, FinishFits DEF CounterMoved, Outcomes
  <1> QED BY <1>2, <1>3

LEMMA RefusedFits ==
  ASSUME TInv, NEW c \in Clients, Refused(c)
  PROVE  TInv'
  <1>1. phase[c] \in Planned
    BY DEF Refused, Planned, Phases
  <1>2. CASE asked[c].key = NoKey
    BY <1>1, <1>2, PlannedFits, FinishFits DEF Refused, Outcomes
  <1>3. CASE asked[c].key # NoKey
    <2>1. asked[c].key \in Keys
      BY <1>1, <1>3, PlannedFits DEF Request
    <2> QED BY <1>1, <1>3, <2>1, JustGotoFits DEF Refused
  <1> QED BY <1>2, <1>3

LEMMA RecheckFits ==
  ASSUME TInv, NEW c \in Clients, Recheck(c)
  PROVE  TInv'
  <1>1. phase[c] \in Planned
    BY DEF Recheck, Planned, Phases
  <1>2. CASE Answer(c)
    BY <1>2, AnswerFits DEF Recheck
  <1>3. CASE Finish(c, "conflict", 0) /\ UNCHANGED store
    BY <1>1, <1>3, PlannedFits, FinishFits DEF Outcomes
  <1> QED BY <1>2, <1>3 DEF Recheck

LEMMA CrashFits ==
  ASSUME TInv, NEW c \in Clients, Crash(c)
  PROVE  TInv'
  BY FinishFits DEF Crash, Outcomes

\* What the transaction of a call writes.
LEMMA ApplyFits ==
  ASSUME TInv, NEW c \in Clients, Apply(c)
  PROVE  TInv'
  <1> DEFINE q == asked[c]
             n == slot[c].next
  <1> USE DEF Apply
  <1>1. phase[c] \in Planned /\ phase[c] = "commit"
    BY DEF Planned, Phases
  <1>2. /\ q \in Request /\ plan[c] \in Plan
        /\ (plan[c].kind = "DeleteRef") <=> (q.target = NoTarget)
    BY <1>1, PlannedFits
  <1>3. n \in Nat \ {0} /\ n = counter.version /\ counter.version \in Nat
    BY <1>1 DEF TInv, TypeOK, CallFits, CounterHolds
  <1>4. q.ref \in Refs /\ q.target \in Targets \cup {NoTarget} /\ q.expected \in Nat
        /\ q.key \in Keys \cup {NoKey} /\ q.change \in Changes \cup {NoChange}
    BY <1>2 DEF Request
  <1>5. ref' \in [Refs -> RefItem]
    <2>1. NewRef(c) \in RefItem
      <3>1. cur[c].generation \in Nat
        BY DEF RefItem, NoRef, TInv, TypeOK
      <3>2. CASE plan[c].kind = "DeleteRef"
        BY <3>2 DEF NewRef, RefItem
      <3>3. CASE plan[c].kind # "DeleteRef"
        BY <1>2, <1>4, <3>1, <3>3 DEF NewRef, RefItem
      <3> QED BY <3>2, <3>3
    <2> QED BY <2>1 DEF TInv, TypeOK
  <1>6. counter' \in [next : Nat \ {0}, version : Nat] /\ counter'.next = counter'.version
        /\ counter'.version = counter.version + 1
    BY <1>3
  <1>7. DOMAIN ops' \subseteq Nat \ {0} /\ ops' \in [DOMAIN ops' -> OpEntry]
    <2>1. NewEntry(c) \in OpEntry
      <3>1. cur[c].target \in Targets \cup {NoTarget}
        BY DEF TInv, TypeOK, RefItem, NoRef
      <3> QED BY <1>2, <1>4, <3>1 DEF NewEntry, OpEntry, Plan
    <2> QED BY <1>3, <2>1 DEF TInv, TypeOK
  <1>8. change' \in [Changes -> Seq(Targets)]
    BY <1>4 DEF TInv, TypeOK
  <1>9. idem' \in [Keys -> Recorded \cup {NoRecord}]
    <2>1. PrintOf(c) \in Fingerprint
      BY <1>2, <1>4 DEF PrintOf, Fingerprint, Plan
    <2>2. [print |-> PrintOf(c), seq |-> n, asked |-> q] \in Recorded
      BY <1>2, <1>3, <2>1 DEF Recorded
    <2> QED BY <1>4, <2>2 DEF TInv, TypeOK
  <1>10. outbox' \in Seq([type : {"ref.updated", "ref.deleted"}, ref : Refs, op_sequence : Nat])
    <2>1. NewEvent(c) \in [type : {"ref.updated", "ref.deleted"}, ref : Refs, op_sequence : Nat]
      BY <1>3, <1>4 DEF NewEvent
    <2> QED BY <2>1 DEF TInv, TypeOK
  <1>11. Finish(c, "applied", Reported(c, n)) /\ Reported(c, n) \in Nat
    BY <1>2, <1>3, ReportedType
  <1>12. /\ seen' \in [Clients -> Sight \cup {NoSight}]
         /\ asked' \in [Clients -> Request \cup {NoRequest}]
         /\ phase' \in [Clients -> Phases]
         /\ plan' \in [Clients -> Plan \cup {NoPlan}]
         /\ cur' \in [Clients -> RefItem]
         /\ slot' \in [Clients -> [next : Nat, version : Nat]]
         /\ commits' \in [Clients -> Seq(Targets)]
         /\ tries' \in [Clients -> 0 .. (CounterRetries - 1)]
         /\ result' \in [Clients -> [outcome : Outcomes, seq : Nat]]
         /\ calls' \in 0 .. MaxCalls
    BY <1>2, <1>3, <1>11, RefStoreAssumption
       DEF Finish, TInv, TypeOK, Phases, RefItem, Outcomes
  <1>13. TypeOK'
    BY <1>5, <1>6, <1>7, <1>8, <1>9, <1>10, <1>12 DEF TypeOK
  <1>14. ASSUME NEW d \in Clients PROVE CallFits(d)'
    <2>1. CallFits(d)
      BY DEF TInv
    <2>2. CASE d = c
      BY <2>2, <1>11, <1>13 DEF CallFits, TypeOK, Planned, Finish
    <2>3. CASE d # c
      <3>1. /\ asked'[d] = asked[d] /\ phase'[d] = phase[d] /\ plan'[d] = plan[d]
            /\ slot'[d] = slot[d]
        BY <2>3, <1>11 DEF Finish, TInv, TypeOK
      <3>2. \A k \in Keys : idem[k] \in Recorded => idem'[k] \in Recorded
        <4>1. \A k \in Keys : idem'[k] = idem[k] \/ (k = q.key /\ q.key # NoKey)
          BY DEF TInv, TypeOK
        <4>2. q.key # NoKey => idem[q.key] = NoRecord
          BY DEF KeyHolds
        <4>3. NoRecord \notin Recorded
          BY DEF NoRecord, Recorded
        <4> QED BY <4>1, <4>2, <4>3
      <3>3. 1 .. counter.version \subseteq 1 .. counter'.version
        BY <1>3, <1>6
      <3> QED BY <2>1, <3>1, <3>2, <3>3 DEF CallFits
    <2> QED BY <2>2, <2>3
  <1> QED BY <1>6, <1>13, <1>14 DEF TInv

LEMMA StutterFits == TInv /\ UNCHANGED vars => TInv'
  BY DEF TInv, TypeOK, CallFits, vars, store

LEMMA NextFits == TInv /\ [Next]_vars => TInv'
  <1> SUFFICES ASSUME TInv, Next PROVE TInv'
    BY StutterFits
  <1>1. ASSUME NEW c \in Clients, Step(c) PROVE TInv'
    BY <1>1, UndoFits, ReadRefFits, ReplayFits, RereadFits, ReadCounterFits, ReadChangeFits,
       ApplyFits, CounterMovedFits, RefusedFits, RecheckFits DEF Step
  <1> QED BY <1>1, LookFits, AskFits, RetryFits, CrashFits DEF Next

LEMMA FitsAlways == Spec => []TInv
  BY InitFits, NextFits, PTL DEF Spec

\* Every item of the partition and the state of every call keep their shape:
\* what a call writes was built from what it read, in the order it read it.
THEOREM TypeCorrect == Spec => []TypeOK
  <1>1. TInv => TypeOK
    BY DEF TInv
  <1> QED BY <1>1, FitsAlways, PTL

-----------------------------------------------------------------------------
\* The log, the refs and the keys

\* Nothing but a transaction that commits changes the partition.
LEMMA OnlyApplyWrites == [Next]_vars => UNCHANGED store \/ \E c \in Clients : Apply(c)
  <1> SUFFICES ASSUME [Next]_vars, \A c \in Clients : ~Apply(c)
               PROVE  UNCHANGED store
    OBVIOUS
  <1>1. CASE UNCHANGED vars
    BY <1>1 DEF vars
  <1>2. ASSUME NEW c \in Clients, Step(c) PROVE UNCHANGED store
    <2>1. CASE Undo(c) \/ ReadRef(c) \/ ReadCounter(c) \/ ReadChange(c)
      BY <2>1 DEF Undo, ReadRef, ReadCounter, ReadChange, Goto
    <2>2. CASE Replay(c) \/ Recheck(c) \/ Reread(c)
      BY <2>2 DEF Replay, Recheck, Reread, Answer, Goto
    <2>3. CASE CounterMoved(c) \/ Refused(c)
      BY <2>3 DEF CounterMoved, Refused, Goto
    <2> QED BY <1>2, <2>1, <2>2, <2>3 DEF Step
  <1>3. ASSUME NEW c \in Clients, Ask(c) PROVE UNCHANGED store
    <2>1. ASSUME NEW q, NEW p, NEW step, Begin(c, q, p, step) PROVE UNCHANGED store
      BY <2>1 DEF Begin
    <2>2. PICK k \in Keys \cup {NoKey} :
            \/ \E r \in Refs : AskDelete(c, r, k)
            \/ \E r \in Refs, t \in Targets, x \in Changes \cup {NoChange} :
                  AskCreate(c, r, t, k, x) \/ AskUpdate(c, r, t, k, x)
            \/ \E i \in DOMAIN ops : AskUndo(c, i, k)
      BY <1>3 DEF Ask
    <2>3. ASSUME NEW r \in Refs, AskDelete(c, r, k) PROVE UNCHANGED store
      BY <2>3, <2>1 DEF AskDelete
    <2>4. ASSUME NEW r \in Refs, NEW t \in Targets, NEW x \in Changes \cup {NoChange},
                 AskCreate(c, r, t, k, x) \/ AskUpdate(c, r, t, k, x)
          PROVE  UNCHANGED store
      BY <2>4, <2>1 DEF AskCreate, AskUpdate
    <2>5. ASSUME NEW i \in DOMAIN ops, AskUndo(c, i, k) PROVE UNCHANGED store
      BY <2>5, <2>1 DEF AskUndo
    <2> QED BY <2>2, <2>3, <2>4, <2>5
  <1>4. ASSUME NEW c \in Clients, Retry(c) PROVE UNCHANGED store
    BY <1>4 DEF Retry, Begin
  <1>5. ASSUME NEW c \in Clients, NEW r \in Refs, Look(c, r) PROVE UNCHANGED store
    BY <1>5 DEF Look
  <1>6. ASSUME NEW c \in Clients, Crash(c) PROVE UNCHANGED store
    BY <1>6 DEF Crash
  <1> QED BY <1>1, <1>2, <1>3, <1>4, <1>5, <1>6 DEF Next

\* What a committed transaction did, stated once: it appended entry number
\* counter.next, and it moved its ref to where that entry says.
LEMMA ApplyAppends ==
  ASSUME TInv, LogDense, NEW c \in Clients, Apply(c)
  PROVE  /\ counter.next \in Nat \ {0}
         /\ counter.next \notin DOMAIN ops
         /\ counter'.next = counter.next + 1
         /\ DOMAIN ops' = DOMAIN ops \cup {counter.next}
         /\ ops'[counter.next] = NewEntry(c)
         /\ \A i \in DOMAIN ops : ops'[i] = ops[i]
         /\ asked[c] \in Request
         /\ ref' = [ref EXCEPT ![asked[c].ref] = NewRef(c)]
         /\ NewRef(c).target = asked[c].target
  <1>1. phase[c] \in Planned /\ phase[c] = "commit"
    BY DEF Apply, Planned, Phases
  <1>2. slot[c].next = counter.next
    BY <1>1 DEF Apply, CounterHolds, TInv, CallFits
  <1>3. counter.next \in Nat \ {0}
    BY DEF TInv, TypeOK
  <1>4. counter.next \notin DOMAIN ops
    BY <1>3 DEF LogDense
  <1>5. asked[c] \in Request /\ NewRef(c).target = asked[c].target
    BY <1>1, PlannedFits DEF NewRef, NoRef
  <1> QED BY <1>2, <1>3, <1>4, <1>5 DEF Apply

\* A key that some entry was made under has its record.
KeysRecorded ==
    \A i \in DOMAIN ops : ops[i].key # NoKey => idem[ops[i].key] # NoRecord

LogInv == LogDense /\ LogAgrees /\ AppliedOnce /\ KeysRecorded

LEMMA DenseStep ==
  ASSUME TInv, LogDense, NEW c \in Clients, Apply(c)
  PROVE  LogDense'
  <1> DEFINE n == counter.next
  <1>1. n \in Nat \ {0} /\ counter'.next = n + 1 /\ DOMAIN ops' = DOMAIN ops \cup {n}
    BY ApplyAppends
  <1>2. DOMAIN ops = 1 .. (n - 1)
    BY DEF LogDense
  <1> HIDE DEF n
  <1>3. (1 .. (n - 1)) \cup {n} = 1 .. ((n + 1) - 1)
    BY <1>1
  <1> QED BY <1>1, <1>2, <1>3 DEF LogDense

LEMMA AgreesStep ==
  ASSUME TInv, LogDense, LogAgrees, NEW c \in Clients, Apply(c)
  PROVE  LogAgrees'
  <1> DEFINE n == counter.next
             m == asked[c].ref
  <1>1. /\ n \in Nat \ {0}
        /\ n \notin DOMAIN ops
        /\ DOMAIN ops' = DOMAIN ops \cup {n}
        /\ ops'[n] = NewEntry(c)
        /\ \A i \in DOMAIN ops : ops'[i] = ops[i]
        /\ asked[c] \in Request
        /\ ref' = [ref EXCEPT ![m] = NewRef(c)]
        /\ NewRef(c).target = asked[c].target
    BY ApplyAppends
  <1>2. \A i \in DOMAIN ops : i \in Nat /\ i < n
    BY <1>1 DEF LogDense
  <1>3. m \in Refs /\ NewEntry(c).ref = m /\ NewEntry(c).after = asked[c].target
    BY <1>1 DEF NewEntry, Request
  <1> HIDE DEF n, m
  <1> SUFFICES ASSUME NEW r \in Refs
               PROVE  /\ About(r)' = {} => ref'[r] = NoRef
                      /\ \A i \in About(r)' : IsLatest(i, About(r)') => ref'[r].target = ops'[i].after
    BY DEF LogAgrees
  <1>4. CASE r = m
    <2>1. n \in About(r)'
      BY <1>1, <1>3, <1>4 DEF About
    <2>2. \A i \in About(r)' : IsLatest(i, About(r)') => i = n
      BY <1>1, <1>2, <2>1 DEF About, IsLatest
    <2>3. ref'[r] = NewRef(c)
      BY <1>1, <1>3, <1>4 DEF TInv, TypeOK
    <2>4. ref'[r].target = ops'[n].after
      BY <1>1, <1>3, <2>3
    <2> QED BY <2>1, <2>2, <2>4
  <1>5. CASE r # m
    <2>1. About(r)' = About(r)
      BY <1>1, <1>3, <1>5 DEF About
    <2>2. ref'[r] = ref[r]
      BY <1>1, <1>5 DEF TInv, TypeOK
    <2>3. \A i \in About(r) : ops'[i] = ops[i]
      BY <1>1 DEF About
    <2> QED BY <2>1, <2>2, <2>3 DEF LogAgrees
  <1> QED BY <1>4, <1>5

LEMMA KeysStep ==
  ASSUME TInv, LogDense, AppliedOnce, KeysRecorded, NEW c \in Clients, Apply(c)
  PROVE  AppliedOnce' /\ KeysRecorded'
  <1> DEFINE n == counter.next
             k == asked[c].key
  <1>1. /\ n \notin DOMAIN ops
        /\ DOMAIN ops' = DOMAIN ops \cup {n}
        /\ ops'[n] = NewEntry(c)
        /\ \A i \in DOMAIN ops : ops'[i] = ops[i]
        /\ asked[c] \in Request
    BY ApplyAppends
  <1>2. NewEntry(c).key = k
    BY DEF NewEntry
  <1>3. k # NoKey => idem[k] = NoRecord
    BY DEF Apply, KeyHolds
  <1>4. \A i \in DOMAIN ops : ops[i].key = k => k = NoKey
    BY <1>3 DEF KeysRecorded
  <1>5. AppliedOnce'
    BY <1>1, <1>2, <1>4 DEF AppliedOnce
  <1>6. \A j \in Keys : idem[j] # NoRecord => idem'[j] # NoRecord
    BY <1>3 DEF Apply, TInv, TypeOK
  <1>7. k # NoKey => idem'[k] # NoRecord
    <2>1. phase[c] = "commit"
      BY DEF Apply
    <2>2. slot[c].next \in Nat \ {0}
      BY <2>1 DEF TInv, TypeOK, CallFits
    <2>3. [print |-> PrintOf(c), seq |-> slot[c].next, asked |-> asked[c]] # NoRecord
      BY <2>2 DEF NoRecord
    <2> QED BY <1>1, <2>3 DEF Apply, TInv, TypeOK, Request
  <1>8. \A i \in DOMAIN ops : ops[i].key \in Keys \cup {NoKey}
    BY DEF TInv, TypeOK, OpEntry
  <1>9. KeysRecorded'
    BY <1>1, <1>2, <1>6, <1>7, <1>8 DEF KeysRecorded
  <1> QED BY <1>5, <1>9

LEMMA LogStep == TInv /\ LogInv /\ [Next]_vars => LogInv'
  <1> SUFFICES ASSUME TInv, LogInv, [Next]_vars PROVE LogInv'
    OBVIOUS
  <1>1. CASE UNCHANGED store
    <2>1. UNCHANGED <<ref, counter, ops, idem>>
      BY <1>1 DEF store
    <2>2. \A r \in Refs : About(r)' = About(r)
      BY <2>1 DEF About
    <2> QED BY <2>1, <2>2 DEF LogInv, LogDense, LogAgrees, AppliedOnce, KeysRecorded
  <1>2. CASE \E c \in Clients : Apply(c)
    BY <1>2, DenseStep, AgreesStep, KeysStep DEF LogInv
  <1> QED BY <1>1, <1>2, OnlyApplyWrites

LEMMA LogAlways == Spec => []LogInv
  <1>1. Init => LogInv
    BY DEF Init, LogInv, LogDense, LogAgrees, AppliedOnce, KeysRecorded, About
  <1> QED BY <1>1, LogStep, FitsAlways, PTL DEF Spec

\* Concurrent callers leave no gap in the operation numbers and take none
\* twice: the counter's version condition makes its read and its advance one.
THEOREM LogStaysDense == Spec => []LogDense
  BY LogAlways, PTL DEF LogInv

\* The log appended with each mutation agrees with the refs in every state.
THEOREM LogAndRefsAgree == Spec => []LogAgrees
  BY LogAlways, PTL DEF LogInv

\* A request made under a key takes effect at most once, however often and
\* however concurrently it is repeated.
THEOREM KeyAppliesOnce == Spec => []AppliedOnce
  BY LogAlways, PTL DEF LogInv
=============================================================================
