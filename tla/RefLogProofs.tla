---------------------------- MODULE RefLogProofs -----------------------------
(***************************************************************************)
(* Theorems about what the callers of RefStore and the readers of its log  *)
(* and outbox are told, whatever is asked and however it interleaves: its  *)
(* events, the answers of calls, tags and change records; and, as long as  *)
(* no ref is deleted: no update is lost, the refs are those RefLog         *)
(* promises, and a retry is answered.                                      *)
(***************************************************************************)
EXTENDS RefStoreProofs, FiniteSetTheorems, SequenceTheorems

-----------------------------------------------------------------------------
\* Steps

\* The plan and the first phase of a call, by what is asked.
PlanAtStart(q) ==
    IF q.op = "create" THEN PlanOf("CreateRef", q)
    ELSE IF q.op = "update" THEN PlanOf("UpdateRef", q)
    ELSE IF q.op = "delete" THEN PlanOf("DeleteRef", q)
    ELSE NoPlan

StepAtStart(q) ==
    IF q.op = "create" THEN FirstStep(q) ELSE IF q.op = "undo" THEN "undo" ELSE "read"

\* What the author of an update or a deletion has seen, or guesses.
SeenBy(c, q) ==
    q.op \in {"update", "delete"} =>
        \E s \in {seen[c]} \cup [ref : Refs, generation : Guesses, at : {0}] :
            s # NoSight /\ q.ref = s.ref /\ q.expected = s.generation /\ q.saw = s.at

\* Every call begins with a request, new or repeated.
LEMMA CallBegins ==
  ASSUME TInv, NEW c \in Clients, Ask(c) \/ Retry(c)
  PROVE  \E q \in Request : /\ Begin(c, q, PlanAtStart(q), StepAtStart(q))
                            /\ q = asked[c] \/ (q.op \in Kinds /\ SeenBy(c, q))
  <1>1. CASE Retry(c)
    <2>1. asked[c] \in Request
      BY <1>1 DEF Retry, TInv, TypeOK
    <2> QED BY <1>1, <2>1 DEF Retry, PlanAtStart, StepAtStart
  <1>2. CASE Ask(c)
    <2>1. PICK k \in Keys \cup {NoKey} :
            \/ \E r \in Refs : AskDelete(c, r, k)
            \/ \E r \in Refs, t \in Targets, x \in Changes \cup {NoChange} :
                  AskCreate(c, r, t, k, x) \/ AskUpdate(c, r, t, k, x)
            \/ \E i \in DOMAIN ops : AskUndo(c, i, k)
      BY <1>2 DEF Ask
    <2>2. ASSUME NEW s \in {seen[c]} \cup [ref : Refs, generation : Guesses, at : {0}], s # NoSight
          PROVE  s.generation \in Nat /\ s.at \in Nat
      BY <2>2, RefStoreAssumption DEF TInv, TypeOK, Sight
    <2>3. ASSUME NEW r \in Refs, AskDelete(c, r, k)
          PROVE  \E q \in Request : /\ Begin(c, q, PlanAtStart(q), StepAtStart(q))
                                    /\ q.op \in Kinds /\ SeenBy(c, q)
      <3>1. PICK s \in {seen[c]} \cup [ref : Refs, generation : Guesses, at : {0}] :
              /\ s # NoSight
              /\ s.ref = r
              /\ "delete" \in Kinds
              /\ LET q == [op |-> "delete", ref |-> r, target |-> NoTarget,
                           expected |-> s.generation, key |-> k, change |-> NoChange,
                           undoes |-> 0, saw |-> s.at]
                 IN  Begin(c, q, PlanOf("DeleteRef", q), "read")
        BY <2>3 DEF AskDelete
      <3> DEFINE q == [op |-> "delete", ref |-> r, target |-> NoTarget,
                       expected |-> s.generation, key |-> k, change |-> NoChange,
                       undoes |-> 0, saw |-> s.at]
      <3>2. q \in Request
        BY <2>2, <3>1 DEF Request
      <3>3. Begin(c, q, PlanAtStart(q), StepAtStart(q))
        BY <3>1 DEF PlanAtStart, StepAtStart
      <3>4. SeenBy(c, q)
        BY <3>1 DEF SeenBy
      <3> QED BY <3>1, <3>2, <3>3, <3>4
    <2>4. ASSUME NEW r \in Refs, NEW t \in Targets, NEW x \in Changes \cup {NoChange},
                 AskCreate(c, r, t, k, x)
          PROVE  \E q \in Request : /\ Begin(c, q, PlanAtStart(q), StepAtStart(q))
                                    /\ q.op \in Kinds /\ SeenBy(c, q)
      <3> DEFINE q == [op |-> "create", ref |-> r, target |-> t, expected |-> 0, key |-> k,
                       change |-> x, undoes |-> 0, saw |-> 0]
      <3>1. "create" \in Kinds /\ Begin(c, q, PlanOf("CreateRef", q), FirstStep(q))
        BY <2>4 DEF AskCreate
      <3>2. q \in Request
        BY DEF Request
      <3>3. Begin(c, q, PlanAtStart(q), StepAtStart(q))
        BY <3>1 DEF PlanAtStart, StepAtStart
      <3>4. SeenBy(c, q)
        BY DEF SeenBy
      <3> QED BY <3>1, <3>2, <3>3, <3>4
    <2>5. ASSUME NEW r \in Refs, NEW t \in Targets, NEW x \in Changes \cup {NoChange},
                 AskUpdate(c, r, t, k, x)
          PROVE  \E q \in Request : /\ Begin(c, q, PlanAtStart(q), StepAtStart(q))
                                    /\ q.op \in Kinds /\ SeenBy(c, q)
      <3>1. PICK s \in {seen[c]} \cup [ref : Refs, generation : Guesses, at : {0}] :
              /\ s # NoSight
              /\ s.ref = r
              /\ "update" \in Kinds
              /\ LET q == [op |-> "update", ref |-> r, target |-> t,
                           expected |-> s.generation, key |-> k, change |-> x,
                           undoes |-> 0, saw |-> s.at]
                 IN  Begin(c, q, PlanOf("UpdateRef", q), "read")
        BY <2>5 DEF AskUpdate
      <3> DEFINE q == [op |-> "update", ref |-> r, target |-> t,
                       expected |-> s.generation, key |-> k, change |-> x,
                       undoes |-> 0, saw |-> s.at]
      <3>2. q \in Request
        BY <2>2, <3>1 DEF Request
      <3>3. Begin(c, q, PlanAtStart(q), StepAtStart(q))
        BY <3>1 DEF PlanAtStart, StepAtStart
      <3>4. SeenBy(c, q)
        BY <3>1 DEF SeenBy
      <3> QED BY <3>1, <3>2, <3>3, <3>4
    <2>6. ASSUME NEW i \in DOMAIN ops, AskUndo(c, i, k)
          PROVE  \E q \in Request : /\ Begin(c, q, PlanAtStart(q), StepAtStart(q))
                                    /\ q.op \in Kinds /\ SeenBy(c, q)
      <3> DEFINE q == [op |-> "undo", ref |-> ops[i].ref, target |-> ops[i].before,
                       expected |-> 0, key |-> k, change |-> NoChange, undoes |-> i, saw |-> 0]
      <3>1. "undo" \in Kinds /\ Begin(c, q, NoPlan, "undo")
        BY <2>6 DEF AskUndo
      <3>2. q \in Request
        BY DEF Request, TInv, TypeOK, OpEntry
      <3>3. Begin(c, q, PlanAtStart(q), StepAtStart(q))
        BY <3>1 DEF PlanAtStart, StepAtStart
      <3>4. SeenBy(c, q)
        BY DEF SeenBy
      <3> QED BY <3>1, <3>2, <3>3, <3>4
    <2> QED BY <2>1, <2>3, <2>4, <2>5, <2>6
  <1> QED BY <1>1, <1>2

\* What a caller does leaves the other callers where they are, and only a
\* transaction changes the partition.
LEMMA OthersStay ==
  ASSUME TInv, NEW c \in Clients, NEW d \in Clients, d # c,
         Ask(c) \/ Retry(c) \/ Step(c) \/ Crash(c) \/ \E r \in Refs : Look(c, r)
  PROVE  /\ seen'[d] = seen[d] /\ asked'[d] = asked[d] /\ phase'[d] = phase[d]
         /\ plan'[d] = plan[d] /\ cur'[d] = cur[d] /\ slot'[d] = slot[d]
         /\ commits'[d] = commits[d]
  <1> USE DEF TInv, TypeOK
  <1>1. CASE \E r \in Refs : Look(c, r)
    BY <1>1 DEF Look
  <1>2. CASE Ask(c) \/ Retry(c)
    <2>1. PICK q \in Request : Begin(c, q, PlanAtStart(q), StepAtStart(q))
      BY <1>2, CallBegins
    <2> QED BY <2>1 DEF Begin
  <1>3. ASSUME NEW outcome, NEW seq, Finish(c, outcome, seq)
        PROVE  /\ seen'[d] = seen[d] /\ asked'[d] = asked[d] /\ phase'[d] = phase[d]
               /\ plan'[d] = plan[d] /\ cur'[d] = cur[d] /\ slot'[d] = slot[d]
               /\ commits'[d] = commits[d]
    BY <1>3 DEF Finish
  <1>4. CASE Crash(c) \/ Apply(c)
    BY <1>3, <1>4 DEF Crash, Apply
  <1>5. CASE Undo(c) \/ ReadRef(c) \/ ReadCounter(c) \/ ReadChange(c)
    BY <1>3, <1>5 DEF Undo, ReadRef, ReadCounter, ReadChange, Goto
  <1>6. CASE Replay(c) \/ Recheck(c) \/ Reread(c)
    BY <1>3, <1>6 DEF Replay, Recheck, Reread, Answer, Goto
  <1>7. CASE CounterMoved(c) \/ Refused(c)
    BY <1>3, <1>7 DEF CounterMoved, Refused, Goto
  <1> QED BY <1>1, <1>2, <1>4, <1>5, <1>6, <1>7 DEF Step

LEMMA StepReads ==
  ASSUME NEW c \in Clients, Step(c), ~Apply(c)
  PROVE  UNCHANGED store
  <1>1. CASE Undo(c) \/ ReadRef(c) \/ ReadCounter(c) \/ ReadChange(c)
    BY <1>1 DEF Undo, ReadRef, ReadCounter, ReadChange, Goto
  <1>2. CASE Replay(c) \/ Recheck(c) \/ Reread(c)
    BY <1>2 DEF Replay, Recheck, Reread, Answer, Goto
  <1>3. CASE CounterMoved(c) \/ Refused(c)
    BY <1>3 DEF CounterMoved, Refused, Goto
  <1> QED BY <1>1, <1>2, <1>3 DEF Step

\* A call asks one thing throughout, and forgets it when it ends if it has no
\* key.
LEMMA AskedStays ==
  ASSUME TInv, NEW c \in Clients, Step(c) \/ Crash(c) \/ \E r \in Refs : Look(c, r)
  PROVE  asked'[c] \in {asked[c], NoRequest}
  <1> USE DEF TInv, TypeOK
  <1>1. CASE \E r \in Refs : Look(c, r)
    BY <1>1 DEF Look
  <1>2. ASSUME NEW outcome, NEW seq, Finish(c, outcome, seq)
        PROVE  asked'[c] \in {asked[c], NoRequest}
    BY <1>2 DEF Finish
  <1>3. CASE Crash(c) \/ Apply(c)
    BY <1>2, <1>3 DEF Crash, Apply
  <1>4. CASE Undo(c) \/ ReadRef(c) \/ ReadCounter(c) \/ ReadChange(c)
    BY <1>2, <1>4 DEF Undo, ReadRef, ReadCounter, ReadChange, Goto
  <1>5. CASE Replay(c) \/ Recheck(c) \/ Reread(c)
    BY <1>2, <1>5 DEF Replay, Recheck, Reread, Answer, Goto
  <1>6. CASE CounterMoved(c) \/ Refused(c)
    BY <1>2, <1>6 DEF CounterMoved, Refused, Goto
  <1> QED BY <1>1, <1>3, <1>4, <1>5, <1>6 DEF Step

-----------------------------------------------------------------------------
\* Events

LEMMA EventStep ==
  ASSUME TInv, LogDense, OneEventPerOperation, NEW c \in Clients, Apply(c)
  PROVE  OneEventPerOperation'
  <1> DEFINE n == counter.next
  <1>1. /\ n \in Nat \ {0}
        /\ n \notin DOMAIN ops
        /\ counter'.next = n + 1
        /\ DOMAIN ops' = DOMAIN ops \cup {n}
        /\ ops'[n] = NewEntry(c)
        /\ \A i \in DOMAIN ops : ops'[i] = ops[i]
        /\ asked[c] \in Request
    BY ApplyAppends
  <1>2. DOMAIN ops = 1 .. (n - 1)
    BY DEF LogDense
  <1>3. phase[c] \in Planned /\ phase[c] = "commit"
    BY DEF Apply, Planned, Phases
  <1>4. slot[c].next = n
    BY <1>3 DEF Apply, CounterHolds, TInv, CallFits
  <1>5. (plan[c].kind = "DeleteRef") <=> (asked[c].target = NoTarget)
    BY <1>3, PlannedFits
  <1>6. outbox' = Append(outbox, NewEvent(c))
    BY DEF Apply
  <1>7. /\ NewEvent(c).op_sequence = n
        /\ NewEvent(c).ref = NewEntry(c).ref
        /\ (NewEvent(c).type = "ref.deleted") <=> (NewEntry(c).after = NoTarget)
    BY <1>4, <1>5 DEF NewEvent, NewEntry
  <1> DEFINE Events == [type : {"ref.updated", "ref.deleted"}, ref : Refs, op_sequence : Nat]
  <1>8. outbox \in Seq(Events) /\ NewEvent(c) \in Events
    <2>1. asked[c].ref \in Refs
      BY <1>1 DEF Request
    <2> QED BY <1>1, <1>4, <2>1 DEF NewEvent, TInv, TypeOK
  <1>9. IsFiniteSet(1 .. (n - 1)) /\ Cardinality(1 .. (n - 1)) = n - 1
    <2> HIDE DEF n
    <2>1. 1 \in Int /\ n - 1 \in Int
      BY <1>1
    <2>2. IsFiniteSet(1 .. (n - 1)) /\ Cardinality(1 .. (n - 1)) = IF 1 > n - 1 THEN 0 ELSE (n - 1) - 1 + 1
      BY <2>1, FS_Interval
    <2> QED BY <2>2, <1>1
  <1> HIDE DEF n, Events
  <1>10. Cardinality(DOMAIN ops') = n
    <2>1. IsFiniteSet(DOMAIN ops) /\ Cardinality(DOMAIN ops) = n - 1
      BY <1>2, <1>9
    <2>2. Cardinality(DOMAIN ops \cup {n}) = Cardinality(DOMAIN ops) + 1
      BY <1>1, <2>1, FS_AddElement
    <2> QED BY <1>1, <2>1, <2>2
  <1>11. Len(outbox) = n - 1
    BY <1>2, <1>9 DEF OneEventPerOperation
  <1>12. /\ Len(outbox') = n
         /\ \A i \in 1 .. n : outbox'[i] = IF i = n THEN NewEvent(c) ELSE outbox[i]
         /\ DOMAIN outbox' = 1 .. n
         /\ DOMAIN outbox = 1 .. (n - 1)
    BY <1>1, <1>6, <1>8, <1>11
  <1>13. ASSUME NEW i \in DOMAIN outbox'
         PROVE  /\ outbox'[i].op_sequence = i
                /\ i \in DOMAIN ops'
                /\ outbox'[i].ref = ops'[i].ref
                /\ (outbox'[i].type = "ref.deleted") <=> (ops'[i].after = NoTarget)
    <2>1. CASE i = n
      BY <2>1, <1>1, <1>7, <1>12
    <2>2. CASE i # n
      <3>1. i \in DOMAIN outbox /\ outbox'[i] = outbox[i]
        BY <1>1, <1>12, <2>2
      <3> QED BY <1>1, <3>1 DEF OneEventPerOperation
    <2> QED BY <2>1, <2>2
  <1> QED BY <1>10, <1>12, <1>13 DEF OneEventPerOperation

\* Nobody who follows the outbox misses an operation, sees one twice or is told
\* that a ref moved that is gone: the event is written with its entry.
THEOREM EveryOperationOneEvent == Spec => []OneEventPerOperation
  <1>1. Init => OneEventPerOperation
    BY FS_EmptySet DEF Init, OneEventPerOperation
  <1>2. TInv /\ LogInv /\ OneEventPerOperation /\ [Next]_vars => OneEventPerOperation'
    <2> SUFFICES ASSUME TInv, LogInv, OneEventPerOperation, [Next]_vars
                 PROVE  OneEventPerOperation'
      OBVIOUS
    <2>1. CASE UNCHANGED store
      BY <2>1 DEF store, OneEventPerOperation
    <2>2. CASE \E c \in Clients : Apply(c)
      BY <2>2, EventStep DEF LogInv
    <2> QED BY <2>1, <2>2, OnlyApplyWrites
  <1> QED BY <1>1, <1>2, FitsAlways, LogAlways, PTL DEF Spec
-----------------------------------------------------------------------------
\* Answers

\* The record of a key names the operation that was made under it, and its
\* fingerprint the ref and the target of that operation.
RecordsTrue ==
    \A k \in Keys : idem[k] # NoRecord =>
        /\ idem[k].seq \in DOMAIN ops
        /\ ops[idem[k].seq].key = k
        /\ ops[idem[k].seq].ref = idem[k].print.ref
        /\ ops[idem[k].seq].after = idem[k].print.target

\* Request q is on record, as the mutation it asks for.
OnRecord(q) ==
    /\ idem[q.key] # NoRecord
    /\ idem[q.key].print.ref = q.ref
    /\ idem[q.key].print.target = q.target

\* A call that is about to report a recorded outcome reports its own, which is
\* no deletion: delete_ref reports at once.
RereadOwn ==
    \A c \in Clients :
        phase[c] = "reread" => OnRecord(asked[c]) /\ asked[c].target # NoTarget

AnswerInv == AnsweredTruly /\ RecordsTrue /\ RereadOwn

\* seq is what request q is answered with when operation i has fulfilled it.
Fulfils(i, q, seq) ==
    /\ i \in DOMAIN ops
    /\ ops[i].key = q.key /\ ops[i].ref = q.ref /\ ops[i].after = q.target
    /\ seq = IF q.op = "undo" /\ q.target = NoTarget THEN q.undoes ELSE i

LEMMA AnswerFinish ==
  ASSUME TInv, AnswerInv, NEW c \in Clients, NEW outcome, NEW seq,
         Finish(c, outcome, seq), UNCHANGED store,
         outcome \in {"applied", "replayed"} => \E i : Fulfils(i, asked[c], seq)
  PROVE  AnswerInv'
  <1> USE DEF Finish, store
  <1>1. RecordsTrue'
    BY DEF AnswerInv, RecordsTrue
  <1>2. RereadOwn'
    BY DEF AnswerInv, RereadOwn, OnRecord, TInv, TypeOK
  <1>3. AnsweredTruly'
    <2> SUFFICES ASSUME NEW d \in Clients, asked'[d] # NoRequest,
                        result'[d].outcome \in {"applied", "replayed"}
                 PROVE  \E i : Fulfils(i, asked'[d], result'[d].seq)
      BY DEF AnsweredTruly, Fulfils
    <2>1. CASE d = c
      <3>1. asked'[c] = asked[c] /\ result'[c] = [outcome |-> outcome, seq |-> seq]
        BY <2>1 DEF TInv, TypeOK
      <3> QED BY <2>1, <3>1
    <2>2. CASE d # c
      <3>1. asked'[d] = asked[d] /\ result'[d] = result[d]
        BY <2>2 DEF TInv, TypeOK
      <3> QED BY <3>1 DEF AnswerInv, AnsweredTruly, Fulfils
    <2> QED BY <2>1, <2>2
  <1> QED BY <1>1, <1>2, <1>3 DEF AnswerInv

LEMMA AnswerGoto ==
  ASSUME TInv, AnswerInv, NEW c \in Clients, NEW step, Goto(c, step),
         step = "reread" => OnRecord(asked[c]) /\ asked[c].target # NoTarget
  PROVE  AnswerInv'
  <1> USE DEF Goto, store
  <1>1. RecordsTrue'
    BY DEF AnswerInv, RecordsTrue
  <1>2. RereadOwn'
    BY DEF AnswerInv, RereadOwn, OnRecord, TInv, TypeOK
  <1>3. AnsweredTruly'
    BY DEF AnswerInv, AnsweredTruly
  <1> QED BY <1>1, <1>2, <1>3 DEF AnswerInv

LEMMA AnswerBegin ==
  ASSUME TInv, AnswerInv, NEW c \in Clients, NEW q, NEW p, NEW step, Begin(c, q, p, step),
         step # "reread"
  PROVE  AnswerInv'
  <1> USE DEF Begin, store
  <1>1. RecordsTrue'
    BY DEF AnswerInv, RecordsTrue
  <1>2. RereadOwn'
    BY DEF AnswerInv, RereadOwn, OnRecord, TInv, TypeOK
  <1>3. AnsweredTruly'
    BY DEF AnswerInv, AnsweredTruly, TInv, TypeOK
  <1> QED BY <1>1, <1>2, <1>3 DEF AnswerInv

LEMMA AnswerAnswer ==
  ASSUME TInv, AnswerInv, NEW c \in Clients, phase[c] \in {"replay", "recheck"}, Answer(c)
  PROVE  AnswerInv'
  <1> DEFINE record == idem[asked[c].key]
  <1>1. asked[c].key \in Keys /\ record # NoRecord
    BY DEF TInv, CallFits, Answer
  <1>2. /\ record.seq \in DOMAIN ops
        /\ ops[record.seq].key = asked[c].key
        /\ ops[record.seq].ref = record.print.ref
        /\ ops[record.seq].after = record.print.target
    BY <1>1 DEF AnswerInv, RecordsTrue
  <1>3. CASE record.print = PrintOf(c)
    <2>1. record.print.ref = asked[c].ref /\ record.print.target = asked[c].target
      BY <1>3 DEF PrintOf
    <2>2. Fulfils(record.seq, asked[c], Reported(c, record.seq))
      BY <1>2, <2>1 DEF Fulfils, Reported
    <2>3. OnRecord(asked[c])
      BY <1>1, <2>1 DEF OnRecord
    <2>4. plan[c].kind # "DeleteRef" => asked[c].target # NoTarget
      BY DEF TInv, CallFits, Planned, Phases
    <2> QED BY <1>3, <2>2, <2>3, <2>4, AnswerFinish, AnswerGoto DEF Answer
  <1>4. CASE record.print # PrintOf(c)
    BY <1>4, AnswerFinish DEF Answer
  <1> QED BY <1>3, <1>4

LEMMA AnswerApply ==
  ASSUME TInv, LogDense, AnswerInv, NEW c \in Clients, Apply(c)
  PROVE  AnswerInv'
  <1> DEFINE n == counter.next
             k == asked[c].key
  <1>1. /\ n \notin DOMAIN ops
        /\ DOMAIN ops' = DOMAIN ops \cup {n}
        /\ ops'[n] = NewEntry(c)
        /\ \A i \in DOMAIN ops : ops'[i] = ops[i]
        /\ asked[c] \in Request
    BY ApplyAppends
  <1>2. phase[c] = "commit" /\ slot[c].next = n
    BY DEF Apply, CounterHolds, TInv, CallFits
  <1>3. /\ NewEntry(c).key = k
        /\ NewEntry(c).ref = asked[c].ref /\ PrintOf(c).ref = asked[c].ref
        /\ NewEntry(c).after = asked[c].target /\ PrintOf(c).target = asked[c].target
    BY DEF NewEntry, PrintOf
  <1>4. k # NoKey => /\ k \in Keys
                     /\ idem[k] = NoRecord
                     /\ idem' = [idem EXCEPT ![k] = [print |-> PrintOf(c), seq |-> n, asked |-> asked[c]]]
    BY <1>1, <1>2 DEF Request, Apply, KeyHolds
  <1>5. k = NoKey => idem' = idem
    BY DEF Apply
  <1>6. Finish(c, "applied", Reported(c, n))
    BY <1>2 DEF Apply
  <1> HIDE DEF n, k
  <1>7. RecordsTrue'
    <2> SUFFICES ASSUME NEW j \in Keys, idem'[j] # NoRecord
                 PROVE  /\ idem'[j].seq \in DOMAIN ops'
                        /\ ops'[idem'[j].seq].key = j
                        /\ ops'[idem'[j].seq].ref = idem'[j].print.ref
                        /\ ops'[idem'[j].seq].after = idem'[j].print.target
      BY DEF RecordsTrue
    <2>1. CASE idem'[j] = idem[j]
      BY <2>1, <1>1 DEF AnswerInv, RecordsTrue
    <2>2. CASE idem'[j] # idem[j]
      BY <2>2, <1>1, <1>3, <1>4, <1>5 DEF TInv, TypeOK
    <2> QED BY <2>1, <2>2
  <1>8. RereadOwn'
    <2> SUFFICES ASSUME NEW d \in Clients, phase'[d] = "reread" PROVE  (OnRecord(asked[d]) /\ asked[d].target # NoTarget)'
      BY DEF RereadOwn
    <2>1. d # c /\ asked'[d] = asked[d] /\ phase[d] = "reread"
      BY <1>6 DEF Finish, TInv, TypeOK
    <2>2. OnRecord(asked[d]) /\ asked[d].target # NoTarget /\ asked[d].key \in Keys
      BY <2>1 DEF AnswerInv, RereadOwn, TInv, CallFits
    <2>3. idem'[asked[d].key] = idem[asked[d].key]
      BY <2>2, <1>4, <1>5 DEF OnRecord, TInv, TypeOK
    <2> QED BY <2>1, <2>2, <2>3 DEF OnRecord
  <1>9. AnsweredTruly'
    <2> SUFFICES ASSUME NEW d \in Clients, result'[d].outcome \in {"applied", "replayed"},
                        asked'[d] # NoRequest
                 PROVE  \E i \in DOMAIN ops' :
                          /\ ops'[i].key = asked'[d].key
                          /\ ops'[i].ref = asked'[d].ref
                          /\ ops'[i].after = asked'[d].target
                          /\ result'[d].seq = IF asked'[d].op = "undo" /\ asked'[d].target = NoTarget
                                              THEN asked'[d].undoes ELSE i
      BY DEF AnsweredTruly
    <2>1. CASE d = c
      <3>1. result'[d].seq = Reported(c, n) /\ asked'[d] = asked[c]
        BY <1>6, <2>1 DEF Finish, TInv, TypeOK
      <3> QED BY <3>1, <1>1, <1>3 DEF k, Reported
    <2>2. CASE d # c
      <3>1. result'[d] = result[d] /\ asked'[d] = asked[d]
        BY <1>6, <2>2 DEF Finish, TInv, TypeOK
      <3>2. PICK i \in DOMAIN ops : Fulfils(i, asked[d], result[d].seq)
        BY <3>1 DEF AnswerInv, AnsweredTruly, Fulfils
      <3> QED BY <3>1, <3>2, <1>1 DEF Fulfils
    <2> QED BY <2>1, <2>2
  <1> QED BY <1>7, <1>8, <1>9 DEF AnswerInv

LEMMA AnswerStep == TInv /\ LogDense /\ AnswerInv /\ [Next]_vars => AnswerInv'
  <1> SUFFICES ASSUME TInv, LogDense, AnswerInv, [Next]_vars PROVE AnswerInv'
    OBVIOUS
  <1>1. CASE UNCHANGED vars
    BY <1>1 DEF vars, store, AnswerInv, RecordsTrue, RereadOwn, OnRecord, AnsweredTruly
  <1>2. ASSUME NEW c \in Clients, NEW r \in Refs, Look(c, r) PROVE AnswerInv'
    BY <1>2 DEF Look, store, AnswerInv, RecordsTrue, RereadOwn, OnRecord, AnsweredTruly
  <1>3. ASSUME NEW c \in Clients, Ask(c) \/ Retry(c) PROVE AnswerInv'
    <2>1. PICK q \in Request : Begin(c, q, PlanAtStart(q), StepAtStart(q))
      BY <1>3, CallBegins
    <2>2. StepAtStart(q) # "reread"
      BY DEF StepAtStart, FirstStep
    <2> QED BY <2>1, <2>2, AnswerBegin
  <1>4. ASSUME NEW c \in Clients, Crash(c) PROVE AnswerInv'
    BY <1>4, AnswerFinish DEF Crash
  <1>5. ASSUME NEW c \in Clients, Step(c) PROVE AnswerInv'
    <2>1. CASE Undo(c)
      <3>1. CASE Finish(c, "notfound", 0) /\ UNCHANGED store
        BY <3>1, AnswerFinish
      <3>2. CASE \E step : step # "reread" /\ Goto(c, step)
        BY <3>2, AnswerGoto
      <3> QED BY <2>1, <3>1, <3>2 DEF Undo, FirstStep
    <2>2. CASE ReadRef(c)
      <3>1. CASE \E outcome \in {"notfound", "conflict"} : Finish(c, outcome, 0) /\ UNCHANGED store
        BY <3>1, AnswerFinish
      <3>2. CASE Goto(c, FirstStep(asked[c]))
        BY <3>2, AnswerGoto DEF FirstStep
      <3> QED BY <2>2, <3>1, <3>2 DEF ReadRef
    <2>3. CASE Replay(c) \/ Recheck(c)
      BY <2>3, AnswerAnswer, AnswerGoto, AnswerFinish DEF Replay, Recheck
    <2>4. CASE Reread(c)
      <3>1. asked[c].key \in Keys /\ OnRecord(asked[c]) /\ asked[c].target # NoTarget
        BY <2>4 DEF Reread, TInv, CallFits, AnswerInv, RereadOwn
      <3>2. Fulfils(idem[asked[c].key].seq, asked[c], idem[asked[c].key].seq)
        BY <3>1 DEF AnswerInv, RecordsTrue, OnRecord, Fulfils
      <3> QED BY <2>4, <3>2, AnswerFinish DEF Reread
    <2>5. CASE ReadCounter(c) \/ ReadChange(c)
      BY <2>5, AnswerGoto DEF ReadCounter, ReadChange
    <2>6. CASE Apply(c)
      BY <2>6, AnswerApply
    <2>7. CASE CounterMoved(c)
      BY <2>7, AnswerGoto, AnswerFinish DEF CounterMoved
    <2>8. CASE Refused(c)
      BY <2>8, AnswerGoto, AnswerFinish DEF Refused
    <2> QED BY <1>5, <2>1, <2>2, <2>3, <2>4, <2>5, <2>6, <2>7, <2>8 DEF Step
  <1> QED BY <1>1, <1>2, <1>3, <1>4, <1>5 DEF Next

\* Whoever is told that a request made under a key succeeded, at once or on a
\* repetition: the log has the operation, on that ref, with that target, and the
\* answer bears its number, or the number of the creation it undid (undo).
THEOREM AnswersAreTrue == Spec => []AnsweredTruly
  <1>1. Init => AnswerInv
    BY DEF Init, AnswerInv, AnsweredTruly, RecordsTrue, RereadOwn
  <1>2. AnswerInv => AnsweredTruly
    BY DEF AnswerInv
  <1> QED BY <1>1, <1>2, AnswerStep, FitsAlways, LogStaysDense, PTL DEF Spec

-----------------------------------------------------------------------------
\* Tags

\* A call that has read an existing tag goes no further than to delete it.
TagInv ==
    \A c \in Clients :
        phase[c] \in Planned \ {"read"} /\ plan[c].kind \in {"UpdateRef", "Undo"}
        => asked[c].ref \notin Tags

LEMMA TagStep == TInv /\ TagInv /\ [Next]_vars => TagInv'
  <1> SUFFICES ASSUME TInv, TagInv, [Next]_vars PROVE TagInv'
    OBVIOUS
  <1> USE DEF TagInv, Planned, Phases
  <1>1. CASE UNCHANGED vars
    BY <1>1 DEF vars
  <1>2. ASSUME NEW c \in Clients, NEW r \in Refs, Look(c, r) PROVE TagInv'
    BY <1>2 DEF Look
  <1>3. ASSUME NEW c \in Clients, Ask(c) \/ Retry(c) PROVE TagInv'
    <2>1. PICK q \in Request : Begin(c, q, PlanAtStart(q), StepAtStart(q))
      BY <1>3, CallBegins
    <2>2. StepAtStart(q) \in Planned \ {"read"} => PlanAtStart(q).kind = "CreateRef"
      BY DEF StepAtStart, PlanAtStart, PlanOf
    <2> QED BY <2>1, <2>2 DEF Begin, TInv, TypeOK
  <1>4. ASSUME NEW c \in Clients, NEW outcome, NEW seq, Finish(c, outcome, seq) PROVE TagInv'
    BY <1>4 DEF Finish, TInv, TypeOK
  <1>5. ASSUME NEW c \in Clients, phase[c] \in Planned \ {"read"}, NEW step, Goto(c, step),
               UNCHANGED plan
        PROVE  TagInv'
    BY <1>5 DEF Goto, TInv, TypeOK
  <1>6. ASSUME NEW c \in Clients, Undo(c) PROVE TagInv'
    <2>1. CASE Finish(c, "notfound", 0)
      BY <2>1, <1>4
    <2>2. CASE plan' = [plan EXCEPT ![c] = UndoPlan(c)]
               /\ Goto(c, IF UndoPlan(c).kind = "CreateRef" THEN FirstStep(asked[c]) ELSE "read")
      BY <2>2 DEF Goto, TInv, TypeOK
    <2> QED BY <1>6, <2>1, <2>2 DEF Undo
  <1>7. ASSUME NEW c \in Clients, ReadRef(c) PROVE TagInv'
    <2>1. CASE \E outcome \in {"notfound", "conflict"} : Finish(c, outcome, 0)
      BY <2>1, <1>4
    <2>2. CASE /\ ~(asked[c].ref \in Tags /\ plan[c].kind # "DeleteRef")
               /\ Goto(c, FirstStep(asked[c])) /\ UNCHANGED plan
      BY <2>2 DEF Goto, TInv, TypeOK
    <2> QED BY <1>7, <2>1, <2>2 DEF ReadRef
  <1>8. ASSUME NEW c \in Clients, Replay(c) \/ Recheck(c) \/ Reread(c) PROVE TagInv'
    BY <1>8, <1>4, <1>5 DEF Replay, Recheck, Reread, Answer
  <1>9. ASSUME NEW c \in Clients, ReadCounter(c) \/ ReadChange(c) PROVE TagInv'
    BY <1>9, <1>5 DEF ReadCounter, ReadChange
  <1>10. ASSUME NEW c \in Clients, CounterMoved(c) \/ Refused(c) PROVE TagInv'
    BY <1>10, <1>4, <1>5 DEF CounterMoved, Refused
  <1>11. ASSUME NEW c \in Clients, Apply(c) \/ Crash(c) PROVE TagInv'
    BY <1>11, <1>4 DEF Apply, Crash
  <1> QED BY <1>1, <1>2, <1>3, <1>6, <1>7, <1>8, <1>9, <1>10, <1>11 DEF Next, Step

\* Neither an update nor an undo moves a tag, even one that somebody creates
\* while they are under way; it can only be deleted.
THEOREM TagsStayFrozen == Spec => TagsFrozen
  <1>1. Init => TagInv
    BY DEF Init, TagInv, Planned
  <1>2. TInv /\ TagInv /\ [Next]_vars =>
            [\A r \in Tags : ref[r] # NoRef /\ ref'[r] # NoRef => ref'[r] = ref[r]]_vars
    <2> SUFFICES ASSUME TInv, TagInv, [Next]_vars, NEW r \in Tags, ref[r] # NoRef, ref'[r] # NoRef
                 PROVE  ref'[r] = ref[r]
      OBVIOUS
    <2>1. CASE UNCHANGED store
      BY <2>1 DEF store
    <2>2. ASSUME NEW c \in Clients, Apply(c) PROVE ref'[r] = ref[r]
      <3>1. /\ phase[c] = "commit" /\ RefHolds(c)
            /\ ref' = [ref EXCEPT ![asked[c].ref] = NewRef(c)]
        BY <2>2 DEF Apply
      <3>2. phase[c] \in Planned \ {"read"}
        BY <3>1 DEF Planned, Phases
      <3>3. plan[c].kind \in OpKinds
        BY <3>2, PlannedFits DEF Plan
      <3>4. CASE asked[c].ref = r
        <4>1. plan[c].kind = "DeleteRef"
          BY <3>1, <3>2, <3>3, <3>4 DEF TagInv, RefHolds, OpKinds
        <4>2. ref'[r] = NoRef
          BY <3>1, <3>4, <4>1, RefStoreAssumption DEF NewRef, TInv, TypeOK
        <4> QED BY <4>2
      <3> QED BY <3>1, <3>4, RefStoreAssumption DEF TInv, TypeOK
    <2> QED BY <2>1, <2>2, OnlyApplyWrites
  <1> QED BY <1>1, <1>2, TagStep, FitsAlways, PTL DEF Spec, TagsFrozen

-----------------------------------------------------------------------------
\* Change records

\* A call about to commit, with the counter still as it read it, will extend
\* the change record as it is: the record is read after the counter, and whoever
\* writes a record moves the counter.
CommitsFit(c) ==
    phase[c] = "commit" /\ asked[c].change # NoChange /\ counter.version = slot[c].version
    => commits[c] = <<asked[c].target>> \o change[asked[c].change]

ChangeInv == ChangeComplete /\ \A c \in Clients : CommitsFit(c)

LEMMA CommitsFinish ==
  ASSUME TInv, NEW c \in Clients, NEW outcome, NEW seq, Finish(c, outcome, seq)
  PROVE  CommitsFit(c)'
  BY DEF Finish, CommitsFit, TInv, TypeOK

LEMMA CommitsGoto ==
  ASSUME TInv, NEW c \in Clients, NEW step, step # "commit", Goto(c, step)
  PROVE  CommitsFit(c)'
  BY DEF Goto, CommitsFit, TInv, TypeOK

LEMMA CommitsStep ==
  ASSUME TInv, NEW c \in Clients, Step(c) \/ Crash(c)
  PROVE  CommitsFit(c)'
  <1>1. CASE Crash(c) \/ Apply(c) \/ Reread(c)
    BY <1>1, CommitsFinish DEF Crash, Apply, Reread
  <1>2. CASE Undo(c) \/ ReadRef(c)
    <2>1. FirstStep(asked[c]) # "commit"
      BY DEF FirstStep
    <2> QED BY <1>2, <2>1, CommitsFinish, CommitsGoto DEF Undo, ReadRef
  <1>3. CASE Replay(c) \/ Recheck(c)
    BY <1>3, CommitsFinish, CommitsGoto DEF Replay, Recheck, Answer
  <1>4. CASE ReadCounter(c)
    BY <1>4 DEF ReadCounter, Goto, CommitsFit, TInv, TypeOK
  <1>5. CASE ReadChange(c)
    BY <1>5 DEF ReadChange, Goto, store, CommitsFit, TInv, TypeOK
  <1>6. CASE CounterMoved(c) \/ Refused(c)
    BY <1>6, CommitsFinish, CommitsGoto DEF CounterMoved, Refused
  <1> QED BY <1>1, <1>2, <1>3, <1>4, <1>5, <1>6 DEF Step

\* A transaction extends one record by its commit.
LEMMA ChangeApply ==
  ASSUME TInv, LogInv, ChangeInv, NEW c \in Clients, Apply(c)
  PROVE  ChangeComplete'
  <1> DEFINE Made(x) == {i \in DOMAIN ops : ops[i].change = x}
  <1>0. PICK n : n = counter.next
    OBVIOUS
  <1>1. /\ n \in Nat \ {0}
        /\ n \notin DOMAIN ops
        /\ DOMAIN ops' = DOMAIN ops \cup {n}
        /\ ops'[n] = NewEntry(c)
        /\ \A j \in DOMAIN ops : ops'[j] = ops[j]
        /\ asked[c] \in Request
    BY <1>0, ApplyAppends DEF LogInv
  <1>2. DOMAIN ops = 1 .. (n - 1) /\ \A j \in DOMAIN ops : j \in Nat /\ j < n
    BY <1>0, <1>1 DEF LogInv, LogDense
  <1>3. NewEntry(c).change = asked[c].change /\ NewEntry(c).after = asked[c].target
    BY DEF NewEntry
  <1>4. IsFiniteSet(DOMAIN ops)
    <2>1. 1 \in Int /\ n - 1 \in Int
      BY <1>1
    <2> QED BY <1>2, <2>1, FS_Interval
  <1> SUFFICES ASSUME NEW x \in Changes
               PROVE  /\ Len(change'[x]) = Cardinality(Made(x)')
                      /\ \A i \in Made(x)' :
                            change'[x][Cardinality({j \in Made(x)' : j >= i})] = ops'[i].after
    BY DEF ChangeComplete
  <1>5. /\ Len(change[x]) = Cardinality(Made(x))
        /\ \A i \in Made(x) : change[x][Cardinality({j \in Made(x) : j >= i})] = ops[i].after
    BY DEF ChangeInv, ChangeComplete
  <1>6. change[x] \in Seq(Targets)
    BY DEF TInv, TypeOK
  <1>7. IsFiniteSet(Made(x)) /\ \A i \in Made(x) : i \in DOMAIN ops
    BY <1>4, FS_Subset
  <1>8. CASE asked[c].change # x
    <2>1. Made(x)' = Made(x)
      BY <1>1, <1>3, <1>8
    <2>2. change'[x] = change[x]
      BY <1>8 DEF Apply, TInv, TypeOK
    <2>3. \A i \in Made(x)' : /\ ops'[i] = ops[i]
                              /\ {j \in Made(x)' : j >= i} = {j \in Made(x) : j >= i}
      BY <1>1, <1>7, <2>1
    <2> HIDE DEF Made
    <2> QED BY <1>5, <2>1, <2>2, <2>3
  <1>9. CASE asked[c].change = x
    <2>1. Made(x)' = Made(x) \cup {n} /\ n \notin Made(x)
      BY <1>1, <1>3, <1>9
    <2>2. x # NoChange
      BY RefStoreAssumption
    <2>3. asked[c].target \in Targets
      BY <1>1, <1>9, <2>2 DEF Request
    <2>4. phase[c] = "commit" /\ counter.version = slot[c].version
      BY DEF Apply, CounterHolds
    <2>5. commits[c] = <<asked[c].target>> \o change[x]
      BY <1>9, <2>2, <2>4 DEF ChangeInv, CommitsFit
    <2>6. change'[x] = <<asked[c].target>> \o change[x]
      BY <1>9, <2>2, <2>5 DEF Apply, TInv, TypeOK
    <2>7. /\ Len(change'[x]) = Len(change[x]) + 1
          /\ change'[x][1] = asked[c].target
          /\ \A k \in 1 .. Len(change[x]) : change'[x][k + 1] = change[x][k]
      <3>1. <<asked[c].target>> \in Seq(Targets) /\ Len(<<asked[c].target>>) = 1
        BY <2>3
      <3> QED BY <1>6, <2>3, <2>6, <3>1
    <2>8. Cardinality(Made(x) \cup {n}) = Cardinality(Made(x)) + 1
      BY <1>7, <2>1, FS_AddElement
    <2>9. Cardinality({j \in Made(x) \cup {n} : j >= n}) = 1
      <3>1. {j \in Made(x) \cup {n} : j >= n} = {n}
        BY <1>1, <1>2, <1>7
      <3> QED BY <3>1, FS_Singleton
    <2>10. ASSUME NEW i \in Made(x)
           PROVE  /\ Cardinality({j \in Made(x) \cup {n} : j >= i})
                        = Cardinality({j \in Made(x) : j >= i}) + 1
                  /\ Cardinality({j \in Made(x) : j >= i}) \in 1 .. Len(change[x])
      <3> DEFINE later == {j \in Made(x) : j >= i}
      <3>1. i \in Nat /\ i < n
        BY <1>2, <1>7
      <3>2. {j \in Made(x) \cup {n} : j >= i} = later \cup {n} /\ n \notin later
        BY <1>1, <2>1, <3>1
      <3>3. i \in later /\ later \subseteq Made(x)
        BY <3>1
      <3> HIDE DEF later, Made
      <3>4. IsFiniteSet(later) /\ Cardinality(later) <= Cardinality(Made(x))
        BY <1>7, <3>3, FS_Subset
      <3>5. Cardinality(later) \in Nat /\ Cardinality(later) # 0
        BY <3>3, <3>4, FS_CardinalityType, FS_EmptySet
      <3>6. Len(change[x]) \in Nat
        BY <1>6
      <3>7. Cardinality(later \cup {n}) = Cardinality(later) + 1
        BY <3>2, <3>4, FS_AddElement
      <3>8. Cardinality(later) \in 1 .. Len(change[x])
        BY <1>5, <3>4, <3>5, <3>6
      <3>9. Cardinality({j \in Made(x) \cup {n} : j >= i}) = Cardinality(later) + 1
        BY <3>2, <3>7
      <3> QED BY <3>8, <3>9 DEF later
    <2>11. \A i \in Made(x) : ops'[i] = ops[i]
      BY <1>1, <1>7
    <2> HIDE DEF Made
    <2>12. ASSUME NEW i \in Made(x)'
           PROVE  change'[x][Cardinality({j \in Made(x)' : j >= i})] = ops'[i].after
      <3>1. CASE i = n
        BY <1>1, <1>3, <2>1, <2>7, <2>9, <3>1
      <3>2. CASE i # n
        <4>1. i \in Made(x)
          BY <2>1, <3>2
        <4>2. PICK k : k = Cardinality({j \in Made(x) : j >= i})
          OBVIOUS
        <4>3. Cardinality({j \in Made(x)' : j >= i}) = k + 1 /\ k \in 1 .. Len(change[x])
          BY <2>1, <2>10, <4>1, <4>2
        <4>4. change'[x][k + 1] = change[x][k] /\ change[x][k] = ops[i].after
          BY <1>5, <2>7, <4>1, <4>2, <4>3
        <4> QED BY <2>11, <4>1, <4>3, <4>4
      <3> QED BY <3>1, <3>2
    <2> QED BY <1>5, <2>1, <2>7, <2>8, <2>12
  <1> QED BY <1>8, <1>9

LEMMA ChangeStep == TInv /\ LogInv /\ ChangeInv /\ [Next]_vars => ChangeInv'
  <1> SUFFICES ASSUME TInv, LogInv, ChangeInv, [Next]_vars PROVE ChangeInv'
    OBVIOUS
  <1>1. ChangeComplete'
    <2>1. CASE UNCHANGED store
      BY <2>1 DEF store, ChangeInv, ChangeComplete
    <2> QED BY <2>1, ChangeApply, OnlyApplyWrites
  <1>2. CASE UNCHANGED vars
    BY <1>1, <1>2 DEF vars, store, ChangeInv, CommitsFit
  <1>3. ASSUME NEW c \in Clients,
               Ask(c) \/ Retry(c) \/ Step(c) \/ Crash(c) \/ \E r \in Refs : Look(c, r)
        PROVE  \A d \in Clients : CommitsFit(d)'
    <2>1. CommitsFit(c)'
      <3>1. CASE \E r \in Refs : Look(c, r)
        BY <3>1 DEF Look, CommitsFit, TInv, TypeOK
      <3>2. CASE Ask(c) \/ Retry(c)
        <4>1. PICK q \in Request : Begin(c, q, PlanAtStart(q), StepAtStart(q))
          BY <3>2, CallBegins
        <4>2. StepAtStart(q) # "commit"
          BY DEF StepAtStart, FirstStep
        <4> QED BY <4>1, <4>2 DEF Begin, CommitsFit, TInv, TypeOK
      <3> QED BY <1>3, <3>1, <3>2, CommitsStep
    <2>2. ASSUME NEW d \in Clients, d # c PROVE CommitsFit(d)'
      <3>1. /\ asked'[d] = asked[d] /\ phase'[d] = phase[d] /\ slot'[d] = slot[d]
            /\ commits'[d] = commits[d]
        BY <1>3, <2>2, OthersStay
      <3>2. CASE UNCHANGED store
        BY <3>1, <3>2 DEF store, ChangeInv, CommitsFit
      <3>3. ASSUME NEW e \in Clients, Apply(e) PROVE CommitsFit(d)'
        <4>1. counter'.version = counter.version + 1
          BY <3>3 DEF Apply
        <4>2. phase[d] = "commit" => /\ slot[d].version \in 1 .. counter.version
                                     /\ counter.version \in Nat
          BY DEF TInv, TypeOK, CallFits
        <4> QED BY <3>1, <4>1, <4>2 DEF CommitsFit
      <3> QED BY <3>2, <3>3, OnlyApplyWrites
    <2> QED BY <2>1, <2>2
  <1> QED BY <1>1, <1>2, <1>3 DEF Next, ChangeInv

\* No commit is missing from the record of its change and none is in it twice,
\* in whatever order concurrent writers of one change read and commit.
THEOREM ChangesAreComplete == Spec => []ChangeComplete
  <1>1. Init => ChangeInv
    <2> SUFFICES ASSUME Init PROVE ChangeInv
      OBVIOUS
    <2>1. \A x : {i \in DOMAIN ops : ops[i].change = x} = {}
      BY DEF Init
    <2>2. ASSUME NEW x \in Changes PROVE Len(change[x]) = 0
      BY DEF Init
    <2>3. ChangeComplete
      BY <2>1, <2>2, FS_EmptySet DEF ChangeComplete
    <2>4. \A c \in Clients : CommitsFit(c)
      BY DEF Init, CommitsFit
    <2> QED BY <2>3, <2>4 DEF ChangeInv
  <1>2. ChangeInv => ChangeComplete
    BY DEF ChangeInv
  <1> QED BY <1>1, <1>2, ChangeStep, FitsAlways, LogAlways, PTL DEF Spec

-----------------------------------------------------------------------------
\* As long as no ref is deleted

\* A ref that is deleted and created anew counts its generations from one
\* again, and then a generation read before does not tell the two refs apart.
\* The results below are about the behaviours in which no ref is deleted; in
\* the others TLC refutes them.
NothingDeleted == \A i \in DOMAIN ops : ops[i].kind # "DeleteRef"

\* Whoever knows ref r at generation g, put there by entry i, knows the ref as
\* it is or as it was.
Known(r, g, i) ==
    /\ ref[r] # NoRef
    /\ i \in About(r)
    /\ g <= ref[r].generation
    /\ g = ref[r].generation => IsLatest(i, About(r))

HasLatest == \A r \in Refs : About(r) # {} => \E i \in About(r) : IsLatest(i, About(r))

\* What a call has decided on, and what it has read since.
Informed(c) ==
    /\ seen[c] # NoSight => Known(seen[c].ref, seen[c].generation, seen[c].at)
    /\ asked[c] # NoRequest /\ asked[c].op \in {"update", "delete"}
          => Known(asked[c].ref, asked[c].expected, asked[c].saw)
    /\ phase[c] \in {"idle", "undo", "read"} => cur[c] = NoRef
    /\ phase[c] \in Planned /\ plan[c].kind = "CreateRef" => phase[c] # "read" /\ cur[c] = NoRef
    /\ phase[c] \in Planned /\ plan[c].kind # "CreateRef"
          => Known(asked[c].ref, plan[c].expected, plan[c].saw)
    /\ phase[c] \in Planned \ {"read"} /\ plan[c].kind # "CreateRef"
          => LET now == ref[asked[c].ref]
             IN  /\ plan[c].expected <= cur[c].generation
                 /\ cur[c].generation <= now.generation
                 /\ cur[c].generation = now.generation => cur[c] = now

LifeInv == HasLatest /\ \A c \in Clients : Informed(c)

LEMMA LatestUnique ==
  ASSUME NEW S, S \subseteq Nat, NEW i, IsLatest(i, S)
  PROVE  Latest(S) = i
  <1>1. i \in S
    BY DEF IsLatest
  <1>2. ASSUME NEW j \in S, IsLatest(j, S) PROVE j = i
    BY <1>1, <1>2 DEF IsLatest
  <1>3. (CHOOSE j \in S : IsLatest(j, S)) = i
    BY <1>1, <1>2
  <1> QED BY <1>1, <1>3 DEF Latest

\* Who reads a ref that exists knows it as it is.
LEMMA NowKnown ==
  ASSUME TInv, LogAgrees, HasLatest, NEW r \in Refs, ref[r] # NoRef
  PROVE  Known(r, ref[r].generation, Latest(About(r)))
  <1>1. PICK i \in About(r) : IsLatest(i, About(r))
    BY DEF LogAgrees, HasLatest
  <1>2. Latest(About(r)) = i
    BY <1>1, LatestUnique DEF About, TInv, TypeOK
  <1>3. ref[r].generation \in Nat
    BY DEF TInv, TypeOK, RefItem, NoRef
  <1> QED BY <1>1, <1>2, <1>3 DEF Known

\* What a mutation other than a deletion does, if its caller is informed.
LEMMA InformedApply ==
  ASSUME TInv, LogInv, LifeInv, NEW c \in Clients, Apply(c), NothingDeleted'
  PROVE  LET r == asked[c].ref
         IN  /\ r \in Refs /\ asked[c].target \in Targets
             /\ NewRef(c) = [target |-> asked[c].target, generation |-> ref[r].generation + 1]
             /\ cur[c] = ref[r]
             /\ \/ plan[c].kind = "CreateRef" /\ ref[r] = NoRef
                \/ /\ plan[c].kind \in {"UpdateRef", "Undo"} /\ ref[r] # NoRef
                   /\ IsLatest(plan[c].saw, About(r))
  <1> DEFINE r == asked[c].ref
  <1>1. phase[c] = "commit" /\ RefHolds(c)
    BY DEF Apply
  <1>2. phase[c] \in Planned /\ phase[c] # "read"
    BY <1>1 DEF Planned, Phases
  <1>3. /\ asked[c] \in Request /\ plan[c] \in Plan
        /\ (plan[c].kind = "DeleteRef") <=> (asked[c].target = NoTarget)
    BY <1>2, PlannedFits
  <1>4. plan[c].kind # "DeleteRef"
    <2>1. counter.next \in DOMAIN ops' /\ ops'[counter.next] = NewEntry(c)
      BY ApplyAppends DEF LogInv
    <2> QED BY <2>1 DEF NothingDeleted, NewEntry
  <1>5. r \in Refs /\ asked[c].target \in Targets
    BY <1>3, <1>4 DEF Request
  <1>6. ref[r] \in RefItem /\ cur[c] \in RefItem /\ plan[c].expected \in Nat
    BY <1>3, <1>5 DEF TInv, TypeOK, Plan
  <1>7. Informed(c)
    BY DEF LifeInv
  <1>8. CASE plan[c].kind = "CreateRef"
    <2>1. cur[c] = NoRef /\ ref[r] = NoRef
      BY <1>1, <1>2, <1>7, <1>8 DEF Informed, RefHolds
    <2> QED BY <1>5, <1>8, <2>1 DEF NewRef, NoRef
  <1>9. CASE plan[c].kind # "CreateRef"
    <2>1. ref[r] # NoRef /\ ref[r].generation = plan[c].expected
      BY <1>1, <1>9 DEF RefHolds
    <2>2. /\ plan[c].expected <= cur[c].generation
          /\ cur[c].generation <= ref[r].generation
          /\ cur[c].generation = ref[r].generation => cur[c] = ref[r]
          /\ Known(r, plan[c].expected, plan[c].saw)
      BY <1>2, <1>7, <1>9 DEF Informed
    <2>3. cur[c].generation \in Nat /\ ref[r].generation \in Nat
      BY <1>6 DEF RefItem, NoRef
    <2>4. cur[c] = ref[r]
      BY <2>1, <2>2, <2>3, <1>6
    <2>5. IsLatest(plan[c].saw, About(r))
      BY <2>1, <2>2 DEF Known
    <2>6. plan[c].kind \in {"UpdateRef", "Undo"}
      BY <1>3, <1>4, <1>9 DEF Plan, OpKinds
    <2> QED BY <1>4, <1>5, <2>1, <2>4, <2>5, <2>6 DEF NewRef
  <1> QED BY <1>8, <1>9

\* The mutation of one caller leaves what the others know true of the ref as it
\* was: generations only grow while nothing is deleted.
LEMMA KnownGrows ==
  ASSUME TInv, LogInv, LifeInv, NEW c \in Clients, Apply(c), NothingDeleted',
         NEW r \in Refs, NEW g \in Nat, NEW i, Known(r, g, i)
  PROVE  /\ Known(r, g, i)'
         /\ ref'[r] = ref[r] \/ ref[r].generation < ref'[r].generation
  <1> DEFINE n == counter.next
             m == asked[c].ref
  <1>1. /\ n \in Nat \ {0}
        /\ n \notin DOMAIN ops
        /\ DOMAIN ops' = DOMAIN ops \cup {n}
        /\ ops'[n] = NewEntry(c)
        /\ \A j \in DOMAIN ops : ops'[j] = ops[j]
        /\ ref' = [ref EXCEPT ![m] = NewRef(c)]
    BY ApplyAppends DEF LogInv
  <1>2. /\ m \in Refs /\ asked[c].target \in Targets
        /\ NewRef(c) = [target |-> asked[c].target, generation |-> ref[m].generation + 1]
    BY InformedApply
  <1>3. NewEntry(c).ref = m
    BY DEF NewEntry
  <1>4. ref[r].generation \in Nat
    BY DEF TInv, TypeOK, RefItem, NoRef
  <1> HIDE DEF n, m
  <1>5. CASE r = m
    <2>1. ref'[r] = [target |-> asked[c].target, generation |-> ref[r].generation + 1]
      BY <1>1, <1>2, <1>5 DEF TInv, TypeOK
    <2>2. ref'[r] # NoRef
      BY <1>2, <2>1, RefStoreAssumption DEF NoRef
    <2>3. i \in About(r)'
      BY <1>1 DEF Known, About
    <2> QED BY <1>4, <2>1, <2>2, <2>3 DEF Known
  <1>6. CASE r # m
    <2>1. ref'[r] = ref[r]
      BY <1>1, <1>6 DEF TInv, TypeOK
    <2>2. About(r)' = About(r)
      BY <1>1, <1>3, <1>6 DEF About
    <2> QED BY <2>1, <2>2 DEF Known
  <1> QED BY <1>5, <1>6

LEMMA HasLatestStep ==
  ASSUME TInv, LogInv, HasLatest, NEW c \in Clients, Apply(c)
  PROVE  HasLatest'
  <1> DEFINE n == counter.next
  <1>1. /\ n \in Nat \ {0}
        /\ n \notin DOMAIN ops
        /\ DOMAIN ops' = DOMAIN ops \cup {n}
        /\ ops'[n] = NewEntry(c)
        /\ \A j \in DOMAIN ops : ops'[j] = ops[j]
    BY ApplyAppends DEF LogInv
  <1>2. \A j \in DOMAIN ops : j \in Nat /\ j < n
    BY <1>1 DEF LogInv, LogDense
  <1> HIDE DEF n
  <1> SUFFICES ASSUME NEW r \in Refs, About(r)' # {}
               PROVE  \E i \in About(r)' : IsLatest(i, About(r)')
    BY DEF HasLatest
  <1>3. CASE NewEntry(c).ref = r
    BY <1>1, <1>2, <1>3 DEF About, IsLatest
  <1>4. CASE NewEntry(c).ref # r
    <2>1. About(r)' = About(r)
      BY <1>1, <1>4 DEF About
    <2> QED BY <2>1 DEF HasLatest
  <1> QED BY <1>3, <1>4

\* A caller that nothing changes stays informed as long as the refs stay.
LEMMA InformedIdle ==
  ASSUME TInv, NEW c \in Clients, Informed(c), UNCHANGED store,
         seen'[c] = seen[c], asked'[c] = asked[c], phase'[c] = phase[c],
         plan'[c] = plan[c], cur'[c] = cur[c]
  PROVE  Informed(c)'
  BY DEF Informed, Known, About, store

LEMMA InformedOthers ==
  ASSUME TInv, LogInv, LifeInv, NEW c \in Clients, Apply(c), NothingDeleted',
         NEW d \in Clients, d # c
  PROVE  Informed(d)'
  <1>1. /\ seen'[d] = seen[d] /\ asked'[d] = asked[d] /\ phase'[d] = phase[d]
        /\ plan'[d] = plan[d] /\ cur'[d] = cur[d]
    BY DEF Apply, Finish, TInv, TypeOK
  <1>2. Informed(d)
    BY DEF LifeInv
  <1>3. ASSUME NEW r \in Refs, NEW g \in Nat, NEW i, Known(r, g, i)
        PROVE  Known(r, g, i)'
    BY <1>3, KnownGrows
  <1>4. seen[d] # NoSight => Known(seen[d].ref, seen[d].generation, seen[d].at)'
    <2> SUFFICES ASSUME seen[d] # NoSight
                 PROVE  Known(seen[d].ref, seen[d].generation, seen[d].at)'
      OBVIOUS
    <2>1. seen[d].ref \in Refs /\ seen[d].generation \in Nat
      BY DEF TInv, TypeOK, Sight
    <2>2. Known(seen[d].ref, seen[d].generation, seen[d].at)
      BY <1>2 DEF Informed
    <2> QED BY <1>1, <1>3, <2>1, <2>2 DEF Known
  <1>5. asked[d] # NoRequest /\ asked[d].op \in {"update", "delete"}
          => Known(asked[d].ref, asked[d].expected, asked[d].saw)'
    <2> SUFFICES ASSUME asked[d] # NoRequest, asked[d].op \in {"update", "delete"}
                 PROVE  Known(asked[d].ref, asked[d].expected, asked[d].saw)'
      OBVIOUS
    <2>1. asked[d].ref \in Refs /\ asked[d].expected \in Nat
      BY DEF TInv, TypeOK, Request
    <2>2. Known(asked[d].ref, asked[d].expected, asked[d].saw)
      BY <1>2 DEF Informed
    <2> QED BY <1>1, <1>3, <2>1, <2>2 DEF Known
  <1>6. phase[d] \in Planned /\ plan[d].kind # "CreateRef"
          => Known(asked[d].ref, plan[d].expected, plan[d].saw)'
    <2> SUFFICES ASSUME phase[d] \in Planned, plan[d].kind # "CreateRef"
                 PROVE  Known(asked[d].ref, plan[d].expected, plan[d].saw)'
      OBVIOUS
    <2>1. asked[d].ref \in Refs /\ plan[d].expected \in Nat
      BY PlannedFits DEF Request, Plan
    <2>2. Known(asked[d].ref, plan[d].expected, plan[d].saw)
      BY <1>2 DEF Informed
    <2> QED BY <1>1, <1>3, <2>1, <2>2 DEF Known
  <1>7. phase[d] \in Planned \ {"read"} /\ plan[d].kind # "CreateRef"
          => LET now == ref'[asked[d].ref]
             IN  /\ plan[d].expected <= cur[d].generation
                 /\ cur[d].generation <= now.generation
                 /\ cur[d].generation = now.generation => cur[d] = now
    <2> SUFFICES ASSUME phase[d] \in Planned \ {"read"}, plan[d].kind # "CreateRef"
                 PROVE  LET now == ref'[asked[d].ref]
                        IN  /\ plan[d].expected <= cur[d].generation
                            /\ cur[d].generation <= now.generation
                            /\ cur[d].generation = now.generation => cur[d] = now
      OBVIOUS
    <2> DEFINE r == asked[d].ref
    <2>1. r \in Refs /\ plan[d].expected \in Nat
      BY PlannedFits DEF Request, Plan
    <2>2. Known(r, plan[d].expected, plan[d].saw)
      BY <1>2 DEF Informed
    <2>3. ref'[r] = ref[r] \/ ref[r].generation < ref'[r].generation
      BY <2>1, <2>2, KnownGrows
    <2>4. /\ plan[d].expected <= cur[d].generation
          /\ cur[d].generation <= ref[r].generation
          /\ cur[d].generation = ref[r].generation => cur[d] = ref[r]
      BY <1>2 DEF Informed
    <2>5. cur[d].generation \in Nat /\ ref[r].generation \in Nat
      BY <2>1 DEF TInv, TypeOK, RefItem, NoRef
    <2>6. CASE ref'[r] = ref[r]
      BY <2>4, <2>6
    <2>7. CASE ref[r].generation < ref'[r].generation
      <3>1. TInv'
        BY ApplyFits
      <3>2. ref'[r].generation \in Nat
        <4>1. ref'[r] \in RefItem
          BY <2>1, <3>1 DEF TInv, TypeOK
        <4> QED BY <4>1 DEF RefItem, NoRef
      <3>3. /\ cur[d].generation <= ref'[r].generation
            /\ cur[d].generation # ref'[r].generation
        <4> HIDE DEF r
        <4> QED BY <2>4, <2>5, <2>7, <3>2
      <3> QED BY <2>4, <3>3
    <2> QED BY <2>3, <2>6, <2>7
  <1> QED BY <1>1, <1>2, <1>4, <1>5, <1>6, <1>7 DEF Informed

\* The caller of an action that is not a transaction stays informed, by what it
\* does: it ends its call, moves on, begins a call or looks at a ref.
LEMMA InformedFinish ==
  ASSUME TInv, NEW c \in Clients, Informed(c), NEW outcome, NEW seq,
         Finish(c, outcome, seq), UNCHANGED store
  PROVE  Informed(c)'
  BY DEF Informed, Finish, Known, About, store, Planned, TInv, TypeOK

LEMMA InformedGoto ==
  ASSUME TInv, NEW c \in Clients, Informed(c), phase[c] \in Planned \ {"read"},
         NEW step \in Planned \ {"read"}, Goto(c, step), UNCHANGED <<plan, cur>>
  PROVE  Informed(c)'
  BY DEF Informed, Goto, Known, About, store, Planned, Phases, TInv, TypeOK

LEMMA InformedLook ==
  ASSUME TInv, LogInv, HasLatest, NEW c \in Clients, Informed(c),
         NEW r \in Refs, Look(c, r)
  PROVE  Informed(c)'
  <1>1. Known(r, ref[r].generation, Latest(About(r)))
    BY NowKnown DEF Look, LogInv
  <1>2. /\ seen'[c].ref = r /\ seen'[c].generation = ref[r].generation
        /\ seen'[c].at = Latest(About(r))
    BY DEF Look, TInv, TypeOK
  <1>3. Known(seen'[c].ref, seen'[c].generation, seen'[c].at)
    BY <1>1, <1>2
  <1>4. UNCHANGED <<ref, ops, asked, phase, plan, cur>>
    BY DEF Look, store
  <1> QED BY <1>3, <1>4 DEF Informed, Known, About

LEMMA InformedBegin ==
  ASSUME TInv, Guesses = {}, NEW c \in Clients, Informed(c), Ask(c) \/ Retry(c)
  PROVE  Informed(c)'
  <1>1. PICK q \in Request : /\ Begin(c, q, PlanAtStart(q), StepAtStart(q))
                             /\ q = asked[c] \/ SeenBy(c, q)
    BY CallBegins
  <1>2. phase[c] = "idle" /\ UNCHANGED <<ref, ops, cur>>
    BY <1>1 DEF Begin, store
  <1>3. /\ asked'[c] = q /\ plan'[c] = PlanAtStart(q) /\ phase'[c] = StepAtStart(q)
        /\ seen'[c] = NoSight
    BY <1>1 DEF Begin, TInv, TypeOK
  <1>4. cur[c] = NoRef
    BY <1>2 DEF Informed
  <1>5. q.op \in {"update", "delete"} => Known(q.ref, q.expected, q.saw)
    <2>1. CASE q = asked[c]
      <3>1. q # NoRequest
        BY DEF Request, NoRequest
      <3> QED BY <2>1, <3>1 DEF Informed
    <2>2. CASE SeenBy(c, q)
      BY <2>2 DEF SeenBy, Informed
    <2> QED BY <1>1, <2>1, <2>2
  <1>6. Known(q.ref, q.expected, q.saw)' <=> Known(q.ref, q.expected, q.saw)
    BY <1>2 DEF Known, About
  <1>7. CASE q.op \in {"update", "delete"}
    <2>1. /\ PlanAtStart(q).expected = q.expected /\ PlanAtStart(q).saw = q.saw
          /\ StepAtStart(q) = "read"
          /\ PlanAtStart(q).kind # "CreateRef"
      BY <1>7 DEF PlanAtStart, PlanOf, StepAtStart
    <2> QED BY <1>2, <1>3, <1>4, <1>5, <1>7, <2>1 DEF Informed, Known, About
  <1>8. CASE q.op = "create"
    <2>1. PlanAtStart(q).kind = "CreateRef" /\ StepAtStart(q) \in {"replay", "counter"}
      BY <1>8 DEF PlanAtStart, PlanOf, StepAtStart, FirstStep
    <2> QED BY <1>2, <1>3, <1>4, <1>8, <2>1 DEF Informed
  <1>9. CASE q.op = "undo"
    <2>1. StepAtStart(q) = "undo"
      BY <1>9 DEF StepAtStart
    <2> QED BY <1>2, <1>3, <1>4, <1>9, <2>1 DEF Informed, Planned
  <1> QED BY <1>1, <1>7, <1>8, <1>9 DEF Request

\* undo decides on the ref as it finds it.
LEMMA InformedUndo ==
  ASSUME TInv, LogInv, HasLatest, NEW c \in Clients, Informed(c), Undo(c)
  PROVE  Informed(c)'
  <1> DEFINE q == asked[c]
  <1>1. phase[c] = "undo" /\ q \in Request /\ q.ref \in Refs
    BY DEF Undo, TInv, CallFits, Request
  <1>2. CASE Finish(c, "notfound", 0) /\ UNCHANGED store
    BY <1>2, InformedFinish
  <1>3. CASE /\ ~(q.target = NoTarget /\ ref[q.ref] = NoRef)
             /\ plan' = [plan EXCEPT ![c] = UndoPlan(c)]
             /\ Goto(c, IF UndoPlan(c).kind = "CreateRef" THEN FirstStep(q) ELSE "read")
             /\ UNCHANGED <<cur, slot, commits, tries>>
    <2>1. /\ plan'[c] = UndoPlan(c)
          /\ phase'[c] = (IF UndoPlan(c).kind = "CreateRef" THEN FirstStep(q) ELSE "read")
          /\ UNCHANGED <<store, seen, asked, cur>>
      BY <1>3 DEF Goto, TInv, TypeOK
    <2>2. UNCHANGED <<ref, ops>>
      BY <2>1 DEF store
    <2>3. cur[c] = NoRef
      BY <1>1 DEF Informed
    <2>4. FirstStep(q) \in {"replay", "counter"}
      BY DEF FirstStep
    <2>5. CASE UndoPlan(c).kind = "CreateRef"
      BY <2>1, <2>2, <2>3, <2>4, <2>5 DEF Informed, Known, About
    <2>6. CASE UndoPlan(c).kind # "CreateRef"
      <3>1. ref[q.ref] # NoRef
        BY <1>3, <2>6 DEF UndoPlan
      <3>2. Known(q.ref, ref[q.ref].generation, Latest(About(q.ref)))
        BY <1>1, <3>1, NowKnown DEF LogInv
      <3>3. Known(q.ref, UndoPlan(c).expected, UndoPlan(c).saw)
        BY <3>2 DEF UndoPlan
      <3> QED BY <2>1, <2>2, <2>3, <2>6, <3>3 DEF Informed, Known, About
    <2> QED BY <2>5, <2>6
  <1> QED BY <1>2, <1>3 DEF Undo

\* update_ref and delete_ref read the ref after it was at the generation they
\* expect.
LEMMA InformedReadRef ==
  ASSUME TInv, NEW c \in Clients, Informed(c), ReadRef(c)
  PROVE  Informed(c)'
  <1> DEFINE r == asked[c].ref
  <1>1. phase[c] = "read" /\ phase[c] \in Planned
    BY DEF ReadRef, Planned, Phases
  <1>2. CASE \E outcome \in {"notfound", "conflict"} : Finish(c, outcome, 0) /\ UNCHANGED store
    BY <1>2, InformedFinish
  <1>3. CASE /\ ref[r] # NoRef
             /\ cur' = [cur EXCEPT ![c] = ref[r]]
             /\ Goto(c, FirstStep(asked[c]))
             /\ UNCHANGED <<plan, slot, commits, tries>>
    <2>1. /\ cur'[c] = ref[r]
          /\ phase'[c] \in {"replay", "counter"}
          /\ UNCHANGED <<store, seen, asked, plan>>
      BY <1>3 DEF Goto, FirstStep, TInv, TypeOK
    <2>2. UNCHANGED <<ref, ops>>
      BY <2>1 DEF store
    <2>3. plan[c].kind # "CreateRef" /\ Known(r, plan[c].expected, plan[c].saw)
      BY <1>1 DEF Informed
    <2>4. r \in Refs
      BY <1>1, PlannedFits DEF Request
    <2>5. ref[r] \in RefItem
      BY <2>4 DEF TInv, TypeOK
    <2>6. ref[r].generation \in Nat
      BY <2>5 DEF RefItem, NoRef
    <2> QED BY <2>1, <2>2, <2>3, <2>6 DEF Informed, Known, About
  <1> QED BY <1>2, <1>3 DEF ReadRef

\* Who has just moved a ref knows what it knew before.
LEMMA InformedApplied ==
  ASSUME TInv, LogInv, LifeInv, NEW c \in Clients, Apply(c), NothingDeleted'
  PROVE  Informed(c)'
  <1>1. /\ phase'[c] = "idle" /\ cur'[c] = NoRef /\ seen'[c] = seen[c]
        /\ asked'[c] \in {asked[c], NoRequest}
    BY DEF Apply, Finish, TInv, TypeOK
  <1>2. Informed(c)
    BY DEF LifeInv
  <1>3. ASSUME NEW r \in Refs, NEW g \in Nat, NEW i, Known(r, g, i)
        PROVE  Known(r, g, i)'
    BY <1>3, KnownGrows
  <1>4. seen[c] # NoSight => Known(seen[c].ref, seen[c].generation, seen[c].at)'
    <2> SUFFICES ASSUME seen[c] # NoSight
                 PROVE  Known(seen[c].ref, seen[c].generation, seen[c].at)'
      OBVIOUS
    <2>1. seen[c].ref \in Refs /\ seen[c].generation \in Nat
      BY DEF TInv, TypeOK, Sight
    <2>2. Known(seen[c].ref, seen[c].generation, seen[c].at)
      BY <1>2 DEF Informed
    <2> QED BY <1>1, <1>3, <2>1, <2>2 DEF Known
  <1>5. asked'[c] # NoRequest /\ asked'[c].op \in {"update", "delete"}
          => Known(asked[c].ref, asked[c].expected, asked[c].saw)'
    <2> SUFFICES ASSUME asked'[c] # NoRequest, asked'[c].op \in {"update", "delete"}
                 PROVE  Known(asked[c].ref, asked[c].expected, asked[c].saw)'
      OBVIOUS
    <2>0. asked'[c] = asked[c]
      BY <1>1
    <2>1. asked[c].ref \in Refs /\ asked[c].expected \in Nat
      BY <2>0 DEF TInv, TypeOK, Request
    <2>2. Known(asked[c].ref, asked[c].expected, asked[c].saw)
      BY <1>2, <2>0 DEF Informed
    <2> QED BY <1>3, <2>0, <2>1, <2>2 DEF Known
  <1> QED BY <1>1, <1>4, <1>5 DEF Informed, Planned

\* A step that is not a transaction.
LEMMA InformedStep ==
  ASSUME TInv, LogInv, HasLatest, NEW c \in Clients, Informed(c),
         Step(c) \/ Crash(c), ~Apply(c)
  PROVE  Informed(c)'
  <1>1. CASE Crash(c)
    BY <1>1, InformedFinish DEF Crash
  <1>2. CASE Undo(c)
    BY <1>2, InformedUndo
  <1>3. CASE ReadRef(c)
    BY <1>3, InformedReadRef
  <1>4. CASE Replay(c) \/ Recheck(c)
    <2>1. phase[c] \in Planned \ {"read"}
      BY <1>4 DEF Replay, Recheck, Planned, Phases
    <2>2. {"counter", "reread"} \subseteq Planned \ {"read"}
      BY DEF Planned, Phases
    <2> QED BY <1>4, <2>1, <2>2, InformedFinish, InformedGoto DEF Replay, Recheck, Answer
  <1>5. CASE Reread(c)
    BY <1>5, InformedFinish DEF Reread
  <1>6. CASE ReadCounter(c) \/ ReadChange(c)
    <2>1. phase[c] \in Planned \ {"read"}
      BY <1>6 DEF ReadCounter, ReadChange, Planned, Phases
    <2>2. {"commit", "change"} \subseteq Planned \ {"read"}
      BY DEF Planned, Phases
    <2> QED BY <1>6, <2>1, <2>2, InformedGoto DEF ReadCounter, ReadChange
  <1>7. CASE CounterMoved(c) \/ Refused(c)
    <2>1. phase[c] \in Planned \ {"read"}
      BY <1>7 DEF CounterMoved, Refused, Planned, Phases
    <2>2. {"counter", "recheck"} \subseteq Planned \ {"read"}
      BY DEF Planned, Phases
    <2> QED BY <1>7, <2>1, <2>2, InformedFinish, InformedGoto DEF CounterMoved, Refused
  <1> QED BY <1>1, <1>2, <1>3, <1>4, <1>5, <1>6, <1>7 DEF Step

LEMMA LifeStep ==
  TInv /\ LogInv /\ LifeInv /\ Guesses = {} /\ NothingDeleted' /\ [Next]_vars => LifeInv'
  <1> SUFFICES ASSUME TInv, LogInv, LifeInv, Guesses = {}, NothingDeleted', [Next]_vars
               PROVE  LifeInv'
    OBVIOUS
  <1>1. CASE UNCHANGED vars
    <2>1. /\ UNCHANGED store /\ UNCHANGED ops
          /\ UNCHANGED <<seen, asked, phase, plan, cur>>
      BY <1>1 DEF vars, store
    <2>2. \A d \in Clients : Informed(d)'
      BY <2>1, InformedIdle DEF LifeInv
    <2>3. HasLatest'
      BY <2>1 DEF LifeInv, HasLatest, About
    <2> QED BY <2>2, <2>3 DEF LifeInv
  <1>2. ASSUME NEW c \in Clients, Apply(c) PROVE LifeInv'
    <2>1. HasLatest'
      BY <1>2, HasLatestStep DEF LifeInv
    <2>2. \A d \in Clients : Informed(d)'
      BY <1>2, InformedOthers, InformedApplied
    <2> QED BY <2>1, <2>2 DEF LifeInv
  <1>3. ASSUME NEW c \in Clients, ~Apply(c),
               Ask(c) \/ Retry(c) \/ Step(c) \/ Crash(c) \/ \E r \in Refs : Look(c, r)
        PROVE  LifeInv'
    <2>1. UNCHANGED store
      <3>1. CASE \E r \in Refs : Look(c, r)
        BY <3>1 DEF Look
      <3>2. CASE Ask(c) \/ Retry(c)
        BY <3>2, CallBegins DEF Begin
      <3>3. CASE Crash(c)
        BY <3>3 DEF Crash
      <3>4. CASE Step(c)
        BY <1>3, <3>4, StepReads
      <3> QED BY <1>3, <3>1, <3>2, <3>3, <3>4
    <2>2. Informed(c)'
      BY <1>3, InformedLook, InformedBegin, InformedStep DEF LifeInv
    <2>3. ASSUME NEW d \in Clients, d # c PROVE Informed(d)'
      <3>1. /\ seen'[d] = seen[d] /\ asked'[d] = asked[d] /\ phase'[d] = phase[d]
            /\ plan'[d] = plan[d] /\ cur'[d] = cur[d]
        BY <1>3, <2>3, OthersStay
      <3> QED BY <2>1, <3>1, InformedIdle DEF LifeInv
    <2>4. HasLatest'
      BY <2>1 DEF LifeInv, HasLatest, About, store
    <2> QED BY <2>2, <2>3, <2>4 DEF LifeInv
  <1> QED BY <1>1, <1>2, <1>3 DEF Next

LEMMA LifeAlways ==
  ASSUME Guesses = {}
  PROVE  Spec /\ []NothingDeleted => []LifeInv
  <1>1. Init => LifeInv
    BY DEF Init, LifeInv, HasLatest, About, Informed, Planned, Phases
  <1>2. TInv /\ LogInv /\ LifeInv /\ NothingDeleted' /\ [Next]_vars => LifeInv'
    BY LifeStep
  <1> QED BY <1>1, <1>2, FitsAlways, LogAlways, PTL DEF Spec

LEMMA DecidedStep ==
  ASSUME TInv, LogInv, LifeInv, DecidedOnLatest, NEW c \in Clients, Apply(c), NothingDeleted'
  PROVE  DecidedOnLatest'
  <1> DEFINE Before(i) == {j \in About(ops[i].ref) : j < i}
  <1>0. PICK n : n = counter.next
    OBVIOUS
  <1>1. /\ n \in Nat \ {0}
        /\ n \notin DOMAIN ops
        /\ DOMAIN ops' = DOMAIN ops \cup {n}
        /\ ops'[n] = NewEntry(c)
        /\ \A j \in DOMAIN ops : ops'[j] = ops[j]
    BY <1>0, ApplyAppends DEF LogInv
  <1>2. \A j \in DOMAIN ops : j \in Nat /\ j < n
    BY <1>0, <1>1 DEF LogInv, LogDense
  <1>3. ASSUME NEW i \in DOMAIN ops PROVE Before(i)' = Before(i)
    BY <1>1, <1>2, <1>3 DEF About
  <1>4. Before(n)' = About(asked[c].ref)
    BY <1>1, <1>2 DEF About, NewEntry
  <1>5. NewEntry(c).kind # "CreateRef" => NewEntry(c).saw = Latest(About(asked[c].ref))
    <2>1. About(asked[c].ref) \subseteq Nat
      BY <1>2 DEF About
    <2>2. plan[c].kind # "CreateRef" => IsLatest(plan[c].saw, About(asked[c].ref))
      BY InformedApply
    <2> QED BY <2>1, <2>2, LatestUnique DEF NewEntry
  <1>6. ASSUME NEW i \in DOMAIN ops', ops'[i].kind # "CreateRef"
        PROVE  ops'[i].saw = Latest(Before(i)')
    <2>1. CASE i = n
      BY <1>1, <1>4, <1>5, <1>6, <2>1
    <2>2. CASE i # n
      BY <1>1, <1>3, <1>6, <2>2 DEF DecidedOnLatest
    <2> QED BY <2>1, <2>2
  <1> QED BY <1>6 DEF DecidedOnLatest

\* No update is lost: as long as no ref is deleted, every operation replaces the
\* very state of the ref its author had read when deciding on it, however the
\* reads and transactions of other callers fall in between.
THEOREM NoUpdateIsLost ==
  ASSUME Guesses = {}
  PROVE  Spec /\ []NothingDeleted => []DecidedOnLatest
  <1>1. Init => DecidedOnLatest
    BY DEF Init, DecidedOnLatest
  <1>2. TInv /\ LogInv /\ LifeInv /\ DecidedOnLatest /\ NothingDeleted' /\ [Next]_vars
            => DecidedOnLatest'
    <2> SUFFICES ASSUME TInv, LogInv, LifeInv, DecidedOnLatest, NothingDeleted', [Next]_vars
                 PROVE  DecidedOnLatest'
      OBVIOUS
    <2>1. CASE UNCHANGED store
      <3>1. ops' = ops
        BY <2>1 DEF store
      <3>2. \A r \in Refs : About(r)' = About(r)
        BY <3>1 DEF About
      <3>3. \A i \in DOMAIN ops : ops[i].ref \in Refs
        BY DEF TInv, TypeOK, OpEntry
      <3> QED BY <3>1, <3>2, <3>3 DEF DecidedOnLatest
    <2>2. ASSUME NEW c \in Clients, Apply(c) PROVE DecidedOnLatest'
      BY <2>2, DecidedStep
    <2> QED BY <2>1, <2>2, OnlyApplyWrites
  <1> QED BY <1>1, <1>2, FitsAlways, LogAlways, LifeAlways, PTL DEF Spec

\* A generation counts: a ref that moves moves on by exactly one, as long as
\* none is deleted.
THEOREM GenerationsCount ==
  ASSUME Guesses = {}
  PROVE  Spec /\ []NothingDeleted => GenerationAdvances
  <1>1. TInv /\ LogInv /\ LifeInv /\ NothingDeleted' /\ [Next]_vars =>
          [\A r \in Refs : ref[r] # NoRef /\ ref'[r] # NoRef /\ ref'[r] # ref[r]
              => ref'[r].generation = ref[r].generation + 1]_vars
    <2> SUFFICES ASSUME TInv, LogInv, LifeInv, NothingDeleted', [Next]_vars,
                        NEW r \in Refs, ref'[r] # ref[r]
                 PROVE  ref'[r].generation = ref[r].generation + 1
      OBVIOUS
    <2>1. PICK c \in Clients : Apply(c)
      BY OnlyApplyWrites DEF store
    <2>2. ref' = [ref EXCEPT ![asked[c].ref] = NewRef(c)]
      BY <2>1 DEF Apply
    <2>3. NewRef(c).generation = ref[asked[c].ref].generation + 1
      BY <2>1, InformedApply
    <2> QED BY <2>2, <2>3 DEF TInv, TypeOK
  <1> QED BY <1>1, FitsAlways, LogAlways, LifeAlways, PTL DEF Spec, GenerationAdvances

-----------------------------------------------------------------------------
\* The refs as they were promised

\* The log RefLog keeps, as the partition holds it.
Line(i) == [kind |-> ops[i].kind, ref |-> ops[i].ref,
            before |-> ops[i].before, after |-> ops[i].after]

PromisedLog == [i \in 1 .. Cardinality(DOMAIN ops) |-> Line(i)]

LineType == [kind : OpKinds, ref : Refs, before : Targets \cup {NoTarget},
             after : Targets \cup {NoTarget}]

LEMMA LogLength ==
  ASSUME TInv, LogDense
  PROVE  Cardinality(DOMAIN ops) = counter.next - 1
  <1>1. PICK n \in Nat \ {0} : n = counter.next
    BY DEF TInv, TypeOK
  <1>2. IsFiniteSet(1 .. (n - 1)) /\ Cardinality(1 .. (n - 1)) = IF 1 > n - 1 THEN 0 ELSE (n - 1) - 1 + 1
    <2>1. 1 \in Int /\ n - 1 \in Int
      OBVIOUS
    <2> QED BY <2>1, FS_Interval
  <1>3. Cardinality(1 .. (n - 1)) = n - 1
    BY <1>1, <1>2
  <1> QED BY <1>1, <1>3 DEF LogDense

\* A transaction appends one line.
LEMMA LineAppended ==
  ASSUME TInv, LogDense, NEW c \in Clients, Apply(c)
  PROVE  PromisedLog' = Append(PromisedLog, [kind |-> plan[c].kind, ref |-> asked[c].ref,
                                             before |-> cur[c].target,
                                             after |-> asked[c].target])
  <1> DEFINE new == [kind |-> plan[c].kind, ref |-> asked[c].ref,
                     before |-> cur[c].target, after |-> asked[c].target]
  <1>0. PICK n : n = counter.next
    OBVIOUS
  <1>1. /\ n \in Nat \ {0}
        /\ counter'.next = n + 1
        /\ ops'[n] = NewEntry(c)
        /\ \A i \in DOMAIN ops : ops'[i] = ops[i]
    BY <1>0, ApplyAppends
  <1>2. TInv' /\ LogDense'
    BY ApplyFits, DenseStep
  <1>3. Cardinality(DOMAIN ops) = n - 1
    BY <1>0, LogLength
  <1>4. Cardinality(DOMAIN ops') = n
    <2>1. IsFiniteSet(1 .. n) /\ Cardinality(1 .. n) = IF 1 > n THEN 0 ELSE n - 1 + 1
      BY <1>1, FS_Interval
    <2> QED BY <1>1, <1>2, <2>1 DEF LogDense
  <1>5. /\ DOMAIN ops = 1 .. (n - 1)
        /\ DOMAIN ops' = 1 .. n
    BY <1>0, <1>1, <1>2 DEF LogDense
  <1>6. \A i \in DOMAIN ops : Line(i) \in LineType /\ Line(i)' = Line(i)
    BY <1>1 DEF Line, LineType, TInv, TypeOK, OpEntry
  <1>7. Line(n)' = new /\ new \in LineType
    <2>1. Line(n)' = new
      BY <1>1 DEF Line, NewEntry
    <2>2. Line(n)' \in LineType
      <3>1. ops'[n] \in OpEntry
        <4>1. ops' \in [DOMAIN ops' -> OpEntry]
          BY <1>2 DEF TInv, TypeOK
        <4>2. n \in DOMAIN ops'
          BY <1>1, <1>5
        <4> QED BY <4>1, <4>2
      <3> QED BY <3>1 DEF Line, LineType, OpEntry
    <2> QED BY <2>1, <2>2
  <1> HIDE DEF new
  <1>8. PromisedLog = [i \in 1 .. (n - 1) |-> Line(i)]
    BY <1>3 DEF PromisedLog
  <1>9. PromisedLog' = [i \in 1 .. n |-> Line(i)']
    BY <1>4 DEF PromisedLog
  <1>10. /\ PromisedLog \in Seq(LineType) /\ Len(PromisedLog) = n - 1
         /\ PromisedLog' \in Seq(LineType) /\ Len(PromisedLog') = n
    <2>1. PromisedLog \in [1 .. (n - 1) -> LineType]
      BY <1>5, <1>6, <1>8
    <2>2. PromisedLog' \in [1 .. n -> LineType]
      BY <1>1, <1>5, <1>6, <1>7, <1>9
    <2>3. n - 1 \in Nat /\ n \in Nat
      BY <1>1
    <2> QED BY <2>1, <2>2, <2>3
  <1>11. \A i \in 1 .. n : PromisedLog'[i] = Append(PromisedLog, new)[i]
    <2> SUFFICES ASSUME NEW i \in 1 .. n
                 PROVE  PromisedLog'[i] = Append(PromisedLog, new)[i]
      OBVIOUS
    <2>1. CASE i = n
      BY <1>1, <1>7, <1>9, <1>10, <2>1
    <2>2. CASE i # n
      <3>1. i \in 1 .. (n - 1)
        BY <1>1, <2>2
      <3>2. PromisedLog'[i] = Line(i) /\ PromisedLog[i] = Line(i)
        BY <1>5, <1>6, <1>8, <1>9, <3>1
      <3> QED BY <1>1, <1>7, <1>10, <3>1, <3>2
    <2> QED BY <2>1, <2>2
  <1>12. Append(PromisedLog, new) \in Seq(LineType) /\ Len(Append(PromisedLog, new)) = n
    BY <1>1, <1>7, <1>10
  <1>13. PromisedLog' = Append(PromisedLog, new)
    BY <1>10, <1>11, <1>12, SeqEqual
  <1> QED BY <1>13 DEF new

\* A transaction is one mutation of RefLog, at that instant.
LEMMA PromisedStep ==
  ASSUME TInv, LogInv, LifeInv, NEW c \in Clients, Apply(c), NothingDeleted'
  PROVE  Promised!Next
  <1>0. PICK r, t : r = asked[c].ref /\ t = asked[c].target
    OBVIOUS
  <1>1. /\ r \in Refs /\ t \in Targets
        /\ NewRef(c) = [target |-> t, generation |-> ref[r].generation + 1]
        /\ cur[c] = ref[r]
        /\ \/ plan[c].kind = "CreateRef" /\ ref[r] = NoRef
           \/ plan[c].kind \in {"UpdateRef", "Undo"} /\ ref[r] # NoRef
    BY <1>0, InformedApply
  <1>2. ref' = [ref EXCEPT ![r] = NewRef(c)]
    BY <1>0 DEF Apply
  <1>3. PromisedLog' = Append(PromisedLog, [kind |-> plan[c].kind, ref |-> r,
                                            before |-> ref[r].target, after |-> t])
    BY <1>0, <1>1, LineAppended DEF LogInv
  <1>4. CASE plan[c].kind = "CreateRef"
    <2>1. ref[r] = NoRef /\ ref[r].generation + 1 = 1
      BY <1>1, <1>4 DEF NoRef
    <2>2. Promised!Create(r, t)
      BY <1>1, <1>2, <1>3, <1>4, <2>1
         DEF Promised!Create, Promised!Exists, Promised!Gone, Promised!Record, PromisedLog, Line,
             NoRef
    <2> QED BY <1>1, <2>2, SMT DEF Promised!Next
  <1>5. CASE plan[c].kind # "CreateRef"
    <2>1. plan[c].kind \in {"UpdateRef", "Undo"} /\ ref[r] # NoRef
      BY <1>1, <1>5
    <2>2. Promised!Move(r, t)
      BY <1>1, <1>2, <1>3, <2>1
         DEF Promised!Move, Promised!Exists, Promised!Gone, Promised!Record, PromisedLog, Line,
             NoRef
    <2> QED BY <1>1, <2>2, SMT DEF Promised!Next
  <1> QED BY <1>4, <1>5

\* Concurrent callers see refs on which each mutation decides, moves the
\* generation and writes its log entry at one instant, as RefLog describes.
THEOREM RefsAsPromised ==
  ASSUME Guesses = {}
  PROVE  Spec /\ []NothingDeleted => ImplementsRefLog
  <1>1. Init => Promised!Init
    <2> SUFFICES ASSUME Init PROVE Promised!Init
      OBVIOUS
    <2>1. DOMAIN ops = {} /\ Cardinality(DOMAIN ops) = 0
      BY FS_EmptySet DEF Init
    <2>2. [i \in 1 .. Cardinality(DOMAIN ops) |-> [kind |-> ops[i].kind, ref |-> ops[i].ref,
                 before |-> ops[i].before, after |-> ops[i].after]] = <<>>
      BY <2>1
    <2> QED BY <2>2 DEF Init, Promised!Init, Promised!Gone, NoRef
  <1>2. TInv /\ LogInv /\ LifeInv /\ NothingDeleted' /\ [Next]_vars
            => [Promised!Next]_(Promised!vars)
    <2> SUFFICES ASSUME TInv, LogInv, LifeInv, NothingDeleted', [Next]_vars
                 PROVE  Promised!Next \/ UNCHANGED Promised!vars
      OBVIOUS
    <2>1. CASE UNCHANGED store
      BY <2>1 DEF store, Promised!vars
    <2>2. ASSUME NEW c \in Clients, Apply(c) PROVE Promised!Next
      BY <2>2, PromisedStep
    <2> QED BY <2>1, <2>2, OnlyApplyWrites
  <1> QED BY <1>1, <1>2, FitsAlways, LogAlways, LifeAlways, PTL
          DEF Spec, ImplementsRefLog, Promised!Spec

\* Only what is asked for is done.
AskedKinds == \A c \in Clients : asked[c] # NoRequest => asked[c].op \in Kinds

LEMMA AskedKindsStep == TInv /\ AskedKinds /\ [Next]_vars => AskedKinds'
  <1> SUFFICES ASSUME TInv, AskedKinds, [Next]_vars PROVE AskedKinds'
    OBVIOUS
  <1>1. CASE UNCHANGED vars
    BY <1>1 DEF vars, AskedKinds
  <1>2. ASSUME NEW c \in Clients,
               Ask(c) \/ Retry(c) \/ Step(c) \/ Crash(c) \/ \E r \in Refs : Look(c, r)
        PROVE  AskedKinds'
    <2>1. asked'[c] # NoRequest => asked'[c].op \in Kinds
      <3>1. CASE Ask(c) \/ Retry(c)
        <4>1. PICK q \in Request : /\ Begin(c, q, PlanAtStart(q), StepAtStart(q))
                                   /\ q = asked[c] \/ q.op \in Kinds
          BY <3>1, CallBegins
        <4>2. asked'[c] = q /\ q # NoRequest
          BY <4>1 DEF Begin, TInv, TypeOK, Request, NoRequest
        <4> QED BY <4>1, <4>2 DEF AskedKinds
      <3>2. CASE Step(c) \/ Crash(c) \/ \E r \in Refs : Look(c, r)
        <4>1. asked'[c] \in {asked[c], NoRequest}
          BY <3>2, AskedStays
        <4> QED BY <4>1 DEF AskedKinds
      <3> QED BY <1>2, <3>1, <3>2
    <2>2. \A d \in Clients : d # c => asked'[d] = asked[d]
      BY <1>2, OthersStay
    <2> QED BY <2>1, <2>2 DEF AskedKinds
  <1> QED BY <1>1, <1>2 DEF Next

\* Callers who only create and update delete nothing: an environment whose refs
\* are never deleted is one the results above are about.
THEOREM CreatesAndUpdatesDeleteNothing ==
  ASSUME Kinds \subseteq {"create", "update"}
  PROVE  Spec => []NothingDeleted
  <1>1. Init => AskedKinds /\ NothingDeleted
    BY DEF Init, AskedKinds, NothingDeleted
  <1>2. TInv /\ LogInv /\ AskedKinds /\ NothingDeleted /\ [Next]_vars => NothingDeleted'
    <2> SUFFICES ASSUME TInv, LogInv, AskedKinds, NothingDeleted, [Next]_vars
                 PROVE  NothingDeleted'
      OBVIOUS
    <2>1. CASE UNCHANGED store
      BY <2>1 DEF store, NothingDeleted
    <2>2. ASSUME NEW c \in Clients, Apply(c) PROVE NothingDeleted'
      <3>1. phase[c] \in Planned
        BY <2>2 DEF Apply, Planned, Phases
      <3>2. /\ asked[c] \in Request
            /\ (plan[c].kind = "DeleteRef") <=> (asked[c].target = NoTarget)
        BY <3>1, PlannedFits
      <3>3. asked[c].op \in {"create", "update"}
        BY <3>2 DEF AskedKinds, Request, NoRequest
      <3>4. asked[c].target # NoTarget
        BY <3>2, <3>3, RefStoreAssumption DEF Request
      <3>5. NewEntry(c).kind # "DeleteRef"
        BY <3>2, <3>4 DEF NewEntry
      <3>6. /\ DOMAIN ops' = DOMAIN ops \cup {counter.next}
            /\ ops'[counter.next] = NewEntry(c)
            /\ \A i \in DOMAIN ops : ops'[i] = ops[i]
        BY <2>2, ApplyAppends DEF LogInv
      <3> QED BY <3>5, <3>6 DEF NothingDeleted
    <2> QED BY <2>1, <2>2, OnlyApplyWrites
  <1> QED BY <1>1, <1>2, AskedKindsStep, FitsAlways, LogAlways, PTL DEF Spec

\* For callers who create and update, on what they have read, there is nothing
\* to assume of the behaviour.
THEOREM CreatesAndUpdatesAreSerial ==
  ASSUME Kinds \subseteq {"create", "update"}, Guesses = {}
  PROVE  Spec => []DecidedOnLatest /\ ImplementsRefLog
  BY CreatesAndUpdatesDeleteNothing, NoUpdateIsLost, RefsAsPromised, PTL

-----------------------------------------------------------------------------
\* Retries

\* What a request is fingerprinted as, when its plan does not depend on the
\* state the call finds.
PrintFor(q) == [op |-> PlanAtStart(q).kind, ref |-> q.ref, target |-> q.target,
                expected |-> PlanAtStart(q).expected]

\* A record tells the request it answers, and the ref it was made on is there.
RecordFits(k) ==
    LET record == idem[k]
        q      == record.asked
    IN  record # NoRecord =>
          /\ q.key = k
          /\ q.op \in {"create", "update"}
          /\ record.print = PrintFor(q)
          /\ ref[q.ref] # NoRef
          /\ q.op = "update" => q.ref \notin Tags

CallRepeats(c) ==
    /\ phase[c] # "undo"
    /\ phase[c] \in Planned => plan[c] = PlanAtStart(asked[c])
    /\ phase[c] = "read" => asked[c].op # "create"
    /\ phase[c] # "idle" => asked[c].op # "undo"

RetryInv ==
    /\ \A k \in Keys : RecordFits(k)
    /\ \A c \in Clients : CallRepeats(c)

LEMMA RetryFinish ==
  ASSUME TInv, NEW c \in Clients, NEW outcome, NEW seq, Finish(c, outcome, seq)
  PROVE  CallRepeats(c)'
  BY DEF Finish, CallRepeats, Planned, Phases, TInv, TypeOK

LEMMA RetryGoto ==
  ASSUME TInv, NEW c \in Clients, CallRepeats(c), phase[c] \in Planned,
         NEW step \in Planned \ {"read"}, Goto(c, step), UNCHANGED plan
  PROVE  CallRepeats(c)'
  BY DEF Goto, CallRepeats, Planned, Phases, TInv, TypeOK

LEMMA CallRepeatsStep ==
  ASSUME TInv, NEW c \in Clients, CallRepeats(c), Step(c) \/ Crash(c)
  PROVE  CallRepeats(c)'
  <1>1. CASE Crash(c) \/ Apply(c) \/ Reread(c)
    BY <1>1, RetryFinish DEF Crash, Apply, Reread
  <1>2. CASE Undo(c)
    BY <1>2 DEF Undo, CallRepeats
  <1>3. CASE ReadRef(c)
    <2>1. phase[c] \in Planned /\ {"replay", "counter"} \subseteq Planned \ {"read"}
      BY <1>3 DEF ReadRef, Planned, Phases
    <2>2. FirstStep(asked[c]) \in {"replay", "counter"}
      BY DEF FirstStep
    <2> QED BY <1>3, <2>1, <2>2, RetryFinish, RetryGoto DEF ReadRef
  <1>4. CASE Replay(c) \/ Recheck(c)
    <2>1. phase[c] \in Planned /\ {"reread", "counter"} \subseteq Planned \ {"read"}
      BY <1>4 DEF Replay, Recheck, Planned, Phases
    <2> QED BY <1>4, <2>1, RetryFinish, RetryGoto DEF Replay, Recheck, Answer
  <1>5. CASE ReadCounter(c) \/ ReadChange(c)
    <2>1. phase[c] \in Planned /\ {"commit", "change"} \subseteq Planned \ {"read"}
      BY <1>5 DEF ReadCounter, ReadChange, Planned, Phases
    <2> QED BY <1>5, <2>1, RetryGoto DEF ReadCounter, ReadChange
  <1>6. CASE CounterMoved(c) \/ Refused(c)
    <2>1. phase[c] \in Planned /\ {"recheck", "counter"} \subseteq Planned \ {"read"}
      BY <1>6 DEF CounterMoved, Refused, Planned, Phases
    <2> QED BY <1>6, <2>1, RetryFinish, RetryGoto DEF CounterMoved, Refused
  <1> QED BY <1>1, <1>2, <1>3, <1>4, <1>5, <1>6 DEF Step

LEMMA CallRepeatsBegin ==
  ASSUME TInv, AskedKinds, "undo" \notin Kinds, NEW c \in Clients, Ask(c) \/ Retry(c)
  PROVE  CallRepeats(c)'
  <1>1. PICK q \in Request : /\ Begin(c, q, PlanAtStart(q), StepAtStart(q))
                             /\ q = asked[c] \/ q.op \in Kinds
    BY CallBegins
  <1>2. asked'[c] = q /\ plan'[c] = PlanAtStart(q) /\ phase'[c] = StepAtStart(q)
    BY <1>1 DEF Begin, TInv, TypeOK
  <1>3. q.op # "undo"
    <2>1. q # NoRequest
      BY DEF Request, NoRequest
    <2> QED BY <1>1, <2>1 DEF AskedKinds
  <1>4. /\ StepAtStart(q) # "undo"
        /\ StepAtStart(q) = "read" => q.op # "create"
    BY <1>3 DEF StepAtStart, FirstStep
  <1> QED BY <1>2, <1>3, <1>4 DEF CallRepeats

\* A transaction that is no deletion leaves its ref, and writes a record that
\* tells what was asked.
LEMMA RecordsApply ==
  ASSUME TInv, LogInv, TagInv, RetryInv, NEW c \in Clients, Apply(c), NothingDeleted',
         NEW k \in Keys
  PROVE  RecordFits(k)'
  <1> DEFINE q == asked[c]
  <1>1. phase[c] = "commit" /\ phase[c] \in Planned \ {"read"} /\ phase[c] # "idle"
    BY DEF Apply, Planned, Phases
  <1>2. /\ q \in Request /\ plan[c] \in Plan
        /\ (plan[c].kind = "DeleteRef") <=> (q.target = NoTarget)
    BY <1>1, PlannedFits
  <1>3. plan[c].kind # "DeleteRef"
    <2>1. counter.next \in DOMAIN ops' /\ ops'[counter.next] = NewEntry(c)
      BY ApplyAppends DEF LogInv
    <2> QED BY <2>1 DEF NothingDeleted, NewEntry
  <1>4. plan[c] = PlanAtStart(q) /\ q.op # "undo"
    BY <1>1 DEF RetryInv, CallRepeats
  <1>5. q.op \in {"create", "update"} /\ q.ref \in Refs /\ q.target \in Targets
    BY <1>2, <1>3, <1>4 DEF Request
  <1>6. q.op = "update" => q.ref \notin Tags
    BY <1>1, <1>4 DEF TagInv, PlanAtStart, PlanOf
  <1>7. PrintOf(c) = PrintFor(q)
    BY <1>4 DEF PrintOf, PrintFor
  <1>8. ref' = [ref EXCEPT ![q.ref] = NewRef(c)] /\ NewRef(c) # NoRef
    BY <1>3, <1>5, RefStoreAssumption DEF Apply, NewRef, NoRef
  <1>9. \A r \in Refs : ref[r] # NoRef => ref'[r] # NoRef
    BY <1>5, <1>8 DEF TInv, TypeOK
  <1>10. CASE q.key = k
    <2>1. k # NoKey
      BY RefStoreAssumption
    <2>2. idem'[k].print = PrintOf(c) /\ idem'[k].asked = q
      BY <1>10, <2>1 DEF Apply, TInv, TypeOK
    <2>3. ref'[q.ref] # NoRef
      BY <1>5, <1>8 DEF TInv, TypeOK
    <2> QED BY <1>5, <1>6, <1>7, <1>10, <2>2, <2>3 DEF RecordFits
  <1>11. CASE q.key # k
    <2>1. idem'[k] = idem[k] /\ RecordFits(k)
      BY <1>11 DEF Apply, TInv, TypeOK, RetryInv
    <2>2. idem[k] # NoRecord => idem[k].asked.ref \in Refs
      BY DEF TInv, TypeOK, Recorded, Request
    <2> QED BY <1>9, <2>1, <2>2 DEF RecordFits
  <1> QED BY <1>10, <1>11

LEMMA RetryStep ==
  ASSUME "undo" \notin Kinds
  PROVE  TInv /\ LogInv /\ TagInv /\ AskedKinds /\ RetryInv /\ NothingDeleted' /\ [Next]_vars
            => RetryInv'
  <1> SUFFICES ASSUME TInv, LogInv, TagInv, AskedKinds, RetryInv, NothingDeleted', [Next]_vars
               PROVE  RetryInv'
    OBVIOUS
  <1>1. CASE UNCHANGED vars
    BY <1>1 DEF vars, store, RetryInv, RecordFits, CallRepeats
  <1>2. ASSUME NEW c \in Clients,
               Ask(c) \/ Retry(c) \/ Step(c) \/ Crash(c) \/ \E r \in Refs : Look(c, r)
        PROVE  RetryInv'
    <2>1. ASSUME NEW k \in Keys PROVE RecordFits(k)'
      <3>1. CASE UNCHANGED store
        BY <3>1 DEF store, RetryInv, RecordFits
      <3>2. ASSUME NEW d \in Clients, Apply(d) PROVE RecordFits(k)'
        BY <3>2, RecordsApply
      <3> QED BY <3>1, <3>2, OnlyApplyWrites
    <2>2. CallRepeats(c)'
      <3>1. CASE \E r \in Refs : Look(c, r)
        BY <3>1 DEF Look, RetryInv, CallRepeats
      <3> QED BY <1>2, <3>1, CallRepeatsStep, CallRepeatsBegin DEF RetryInv
    <2>3. ASSUME NEW d \in Clients, d # c PROVE CallRepeats(d)'
      <3>1. asked'[d] = asked[d] /\ phase'[d] = phase[d] /\ plan'[d] = plan[d]
        BY <1>2, <2>3, OthersStay
      <3> QED BY <3>1 DEF RetryInv, CallRepeats
    <2> QED BY <2>1, <2>2, <2>3 DEF RetryInv
  <1> QED BY <1>1, <1>2 DEF Next

\* A call whose request is on record under its key is never refused.
LEMMA NeverRefused ==
  ASSUME TInv, RetryInv, [Next]_vars, NEW c \in Clients,
         phase[c] # "idle", phase'[c] = "idle",
         result'[c].outcome \in {"conflict", "mismatch", "notfound"},
         asked[c].key # NoKey, idem[asked[c].key] # NoRecord,
         idem[asked[c].key].asked = asked[c]
  PROVE  FALSE
  <1> DEFINE q == asked[c]
  <1>1. q \in Request /\ q.key \in Keys
    BY DEF TInv, CallFits, Request
  <1>2. /\ q.op \in {"create", "update"}
        /\ idem[q.key].print = PrintFor(q)
        /\ ref[q.ref] # NoRef
        /\ q.op = "update" => q.ref \notin Tags
    BY <1>1 DEF RetryInv, RecordFits
  <1>3. CallRepeats(c)
    BY DEF RetryInv
  <1>4. phase[c] \in Planned => PrintOf(c) = idem[q.key].print
    BY <1>2, <1>3 DEF CallRepeats, PrintOf, PrintFor
  <1>5. ASSUME NEW outcome, NEW seq, Finish(c, outcome, seq),
               outcome \notin {"conflict", "mismatch", "notfound"}
        PROVE  FALSE
    BY <1>5 DEF Finish, TInv, TypeOK
  <1>6. ASSUME NEW step, step # "idle", Goto(c, step) PROVE FALSE
    BY <1>6 DEF Goto, TInv, TypeOK
  <1>7. PICK d \in Clients :
             Ask(d) \/ Retry(d) \/ Step(d) \/ Crash(d) \/ \E r \in Refs : Look(d, r)
    BY DEF Next, vars
  <1>8. d = c
    BY <1>7, OthersStay
  <1>9. CASE \E r \in Refs : Look(c, r)
    BY <1>9 DEF Look
  <1>10. CASE Ask(c) \/ Retry(c)
    BY <1>10, CallBegins DEF Begin
  <1>11. CASE Crash(c) \/ Apply(c)
    BY <1>5, <1>11 DEF Crash, Apply
  <1>12. CASE Undo(c)
    BY <1>3, <1>12 DEF Undo, CallRepeats
  <1>13. CASE ReadRef(c)
    <2>1. phase[c] = "read" /\ phase[c] \in Planned
      BY <1>13 DEF ReadRef, Planned, Phases
    <2>2. q.op = "update"
      BY <1>2, <1>3, <2>1 DEF CallRepeats
    <2>3. FirstStep(q) # "idle"
      BY DEF FirstStep
    <2> QED BY <1>2, <1>6, <1>13, <2>2, <2>3 DEF ReadRef
  <1>14. CASE Answer(c) /\ phase[c] \in Planned
    BY <1>4, <1>5, <1>6, <1>14 DEF Answer
  <1>15. CASE Replay(c) \/ Recheck(c)
    BY <1>6, <1>14, <1>15 DEF Replay, Recheck, Planned, Phases
  <1>16. CASE Reread(c)
    BY <1>2, <1>5, <1>16 DEF Reread
  <1>17. CASE ReadCounter(c) \/ ReadChange(c)
    BY <1>6, <1>17 DEF ReadCounter, ReadChange
  <1>18. CASE CounterMoved(c) \/ Refused(c)
    BY <1>5, <1>6, <1>18 DEF CounterMoved, Refused
  <1> QED BY <1>7, <1>8, <1>9, <1>10, <1>11, <1>12, <1>13, <1>15, <1>16, <1>17, <1>18 DEF Step

\* The retry of an update or a creation that has been applied is answered with
\* what happened, and never refused, even if the ref has moved on since, another
\* retry is under way, or a call died after its transaction.
THEOREM RetriesAreReplayed ==
  ASSUME "undo" \notin Kinds
  PROVE  Spec /\ []NothingDeleted => RetriesReplay
  <1>1. Init => RetryInv /\ TagInv /\ AskedKinds
    BY DEF Init, RetryInv, RecordFits, CallRepeats, TagInv, AskedKinds, Planned, Phases
  <1>2. TInv /\ RetryInv /\ [Next]_vars =>
          [\A c \in Clients :
              /\ phase[c] # "idle" /\ phase'[c] = "idle"
              /\ result'[c].outcome \in {"conflict", "mismatch", "notfound"}
              /\ asked[c].key # NoKey
              => idem[asked[c].key] = NoRecord \/ idem[asked[c].key].asked # asked[c]]_vars
    BY NeverRefused
  <1> QED BY <1>1, <1>2, RetryStep, TagStep, AskedKindsStep, FitsAlways, LogAlways, PTL
          DEF Spec, RetriesReplay

\* In particular for callers who create and update.
THEOREM CreatesAndUpdatesReplay ==
  ASSUME Kinds \subseteq {"create", "update"}
  PROVE  Spec => RetriesReplay
  <1>1. "undo" \notin Kinds
    OBVIOUS
  <1>2. Spec /\ []NothingDeleted => RetriesReplay
    BY <1>1, RetriesAreReplayed
  <1>3. Spec => []NothingDeleted
    BY CreatesAndUpdatesDeleteNothing
  <1> QED BY <1>2, <1>3, PTL
=============================================================================
