------------------------------ MODULE RefStore ------------------------------
(***************************************************************************)
(* The ref mutations of one environment (src/src/meta/repository.py) over  *)
(* the transactional item store (src/src/meta/store.py).                   *)
(*                                                                         *)
(* An environment is one partition.  A mutation reads the partition several*)
(* times, each read a statement of its own, and then submits ONE           *)
(* conditioned transaction: move the ref, advance the operation counter,   *)
(* append the log entry, extend the change record, emit the event, record  *)
(* the idempotency key.  Every interleaving of the reads and transactions  *)
(* of concurrent callers is a behaviour of this module.                    *)
(*                                                                         *)
(* Abstracted: lifecycle and expiry of a ref, principals, timestamps, the  *)
(* details a conflict carries, the 24 h life of an idempotency record (no  *)
(* code removes one).                                                      *)
(***************************************************************************)
EXTENDS Integers, FiniteSets, Sequences

CONSTANTS
    Clients,         \* concurrent callers: request threads, workers, operators
    Refs,            \* ref names
    Tags,            \* the refs whose name is a tag's
    Targets,         \* commit names
    Keys,            \* idempotency keys callers use
    Changes,         \* change ids
    NoTarget, NoKey, NoChange,
    Kinds,           \* the operations callers ask for
    Guesses,         \* generations a caller may expect without having read one
    CounterRetries,  \* _COUNTER_RETRIES
    MaxCalls         \* bound: calls made in a behaviour

ASSUME RefStoreAssumption ==
    /\ Tags \subseteq Refs
    /\ NoTarget \notin Targets /\ NoKey \notin Keys /\ NoChange \notin Changes
    /\ Kinds \subseteq {"create", "update", "delete", "undo"}
    /\ Guesses \subseteq Nat
    /\ CounterRetries \in Nat \ {0}
    /\ MaxCalls \in Nat

VARIABLES
    \* the partition
    ref,      \* ref items
    counter,  \* the seq item: the next operation number, and the item's version
    ops,      \* op items, by operation number
    change,   \* change items: commits, newest first
    idem,     \* idempotency items
    outbox,   \* events emitted, in the order of the outbox's own sequence
    \* the callers
    seen,     \* what a caller last read of a ref, before it asks
    asked,    \* the request a caller is making, or made under a key
    phase,    \* what its call does next
    plan,     \* the mutation the call has settled on
    cur,      \* the ref as the call read it
    slot,     \* the counter as the call read it
    commits,  \* the change record the call will write
    tries,    \* counter conflicts so far
    result,   \* how the last call ended
    calls     \* calls made so far

store == <<ref, counter, ops, change, idem, outbox>>
vars == <<store, seen, asked, phase, plan, cur, slot, commits, tries, result, calls>>

-----------------------------------------------------------------------------
\* Values

NoRef == [target |-> NoTarget, generation |-> 0]
RefItem == [target : Targets, generation : Nat \ {0}] \cup {NoRef}

OpKinds == {"CreateRef", "UpdateRef", "Undo", "DeleteRef"}

\* An operation-log entry.  key, change and saw are history: the idempotency
\* key and change id of the call that wrote it, and the entry that had put
\* the ref in the state its caller decided on (0: none).
OpEntry == [kind : OpKinds, ref : Refs, before : Targets \cup {NoTarget},
            after : Targets \cup {NoTarget}, key : Keys \cup {NoKey},
            change : Changes \cup {NoChange}, saw : Nat]

\* What the caller of this key asked for, as _fingerprint digests it.
Fingerprint == [op : OpKinds, ref : Refs, target : Targets \cup {NoTarget}, expected : Nat]

NoRequest == [op |-> "none"]
Request ==
    [op : {"create", "update"}, ref : Refs, target : Targets, expected : Nat,
     key : Keys \cup {NoKey}, change : Changes \cup {NoChange}, undoes : {0}, saw : Nat]
    \cup
    [op : {"delete"}, ref : Refs, target : {NoTarget}, expected : Nat,
     key : Keys \cup {NoKey}, change : {NoChange}, undoes : {0}, saw : Nat]
    \cup
    [op : {"undo"}, ref : Refs, target : Targets \cup {NoTarget}, expected : {0},
     key : Keys \cup {NoKey}, change : {NoChange}, undoes : Nat, saw : {0}]

NoRecord == [seq |-> 0]
Recorded == [print : Fingerprint, seq : Nat \ {0}, asked : Request]

NoSight == [generation |-> 0]
Sight == [ref : Refs, generation : Nat \ {0}, at : Nat]

NoPlan == [kind |-> "none"]
Plan == [kind : OpKinds, expected : Nat, saw : Nat]

Phases == {"idle", "undo", "read", "replay", "counter", "change", "commit", "recheck", "reread"}

Outcomes == {"none", "applied", "replayed", "conflict", "contended", "notfound", "mismatch"}

-----------------------------------------------------------------------------
\* The operation log, read

About(r) == {i \in DOMAIN ops : ops[i].ref = r}

\* The latest of a set of operation numbers, 0 when there is none.
IsLatest(i, S) == i \in S /\ \A j \in S : j <= i
Latest(S) == IF \E i \in S : IsLatest(i, S) THEN CHOOSE i \in S : IsLatest(i, S) ELSE 0

Init ==
    /\ ref = [r \in Refs |-> NoRef]
    /\ counter = [next |-> 1, version |-> 1]
    /\ ops = [i \in {} |-> NoRequest]
    /\ change = [x \in Changes |-> <<>>]
    /\ idem = [k \in Keys |-> NoRecord]
    /\ outbox = <<>>
    /\ seen = [c \in Clients |-> NoSight]
    /\ asked = [c \in Clients |-> NoRequest]
    /\ phase = [c \in Clients |-> "idle"]
    /\ plan = [c \in Clients |-> NoPlan]
    /\ cur = [c \in Clients |-> NoRef]
    /\ slot = [c \in Clients |-> [next |-> 0, version |-> 0]]
    /\ commits = [c \in Clients |-> <<>>]
    /\ tries = [c \in Clients |-> 0]
    /\ result = [c \in Clients |-> [outcome |-> "none", seq |-> 0]]
    /\ calls = 0

-----------------------------------------------------------------------------
\* The callers

\* A caller reads a ref, as anyone about to move one does.
Look(c, r) ==
    /\ phase[c] = "idle"
    /\ seen[c] = NoSight
    /\ ref[r] # NoRef
    /\ seen' = [seen EXCEPT ![c] = [ref |-> r, generation |-> ref[r].generation,
                                    at |-> Latest(About(r))]]
    /\ UNCHANGED <<store, asked, phase, plan, cur, slot, commits, tries, result, calls>>

\* The call c starts, with request q: the handler's first step is step.
Begin(c, q, p, step) ==
    /\ phase[c] = "idle"
    /\ calls < MaxCalls
    /\ calls' = calls + 1
    /\ asked' = [asked EXCEPT ![c] = q]
    /\ plan' = [plan EXCEPT ![c] = p]
    /\ phase' = [phase EXCEPT ![c] = step]
    /\ seen' = [seen EXCEPT ![c] = NoSight]
    /\ result' = [result EXCEPT ![c] = [outcome |-> "none", seq |-> 0]]
    /\ UNCHANGED <<store, cur, slot, commits, tries>>

\* _commit_with_counter looks its key up first, when it has one.
FirstStep(q) == IF q.key = NoKey THEN "counter" ELSE "replay"

PlanOf(kind, q) == [kind |-> kind, expected |-> q.expected, saw |-> q.saw]

\* create_ref reads nothing: its condition is that the ref be absent.
AskCreate(c, r, t, k, x) ==
    LET q == [op |-> "create", ref |-> r, target |-> t, expected |-> 0, key |-> k,
              change |-> x, undoes |-> 0, saw |-> 0]
    IN  /\ "create" \in Kinds
        /\ Begin(c, q, PlanOf("CreateRef", q), FirstStep(q))

\* update_ref, expecting a generation the caller has read, or one it guesses.
AskUpdate(c, r, t, k, x) ==
    \E s \in {seen[c]} \cup [ref : Refs, generation : Guesses, at : {0}] :
        /\ s # NoSight
        /\ s.ref = r
        /\ LET q == [op |-> "update", ref |-> r, target |-> t, expected |-> s.generation,
                     key |-> k, change |-> x, undoes |-> 0, saw |-> s.at]
           IN  /\ "update" \in Kinds
               /\ Begin(c, q, PlanOf("UpdateRef", q), "read")

\* delete_ref, likewise.
AskDelete(c, r, k) ==
    \E s \in {seen[c]} \cup [ref : Refs, generation : Guesses, at : {0}] :
        /\ s # NoSight
        /\ s.ref = r
        /\ LET q == [op |-> "delete", ref |-> r, target |-> NoTarget,
                     expected |-> s.generation, key |-> k, change |-> NoChange,
                     undoes |-> 0, saw |-> s.at]
           IN  /\ "delete" \in Kinds
               /\ Begin(c, q, PlanOf("DeleteRef", q), "read")

\* undo: _get_op returns an entry that never changes, so the request already
\* names the ref and the target to restore.
AskUndo(c, i, k) ==
    LET q == [op |-> "undo", ref |-> ops[i].ref, target |-> ops[i].before, expected |-> 0,
              key |-> k, change |-> NoChange, undoes |-> i, saw |-> 0]
    IN  /\ "undo" \in Kinds
        /\ Begin(c, q, NoPlan, "undo")

\* A caller that lost the answer repeats the very same request under its key.
Retry(c) ==
    LET q == asked[c]
    IN  /\ q # NoRequest
        /\ \/ q.op = "create" /\ Begin(c, q, PlanOf("CreateRef", q), FirstStep(q))
           \/ q.op = "update" /\ Begin(c, q, PlanOf("UpdateRef", q), "read")
           \/ q.op = "delete" /\ Begin(c, q, PlanOf("DeleteRef", q), "read")
           \/ q.op = "undo" /\ Begin(c, q, NoPlan, "undo")

\* The call is over; only a request made under a key is kept, to be retried.
Finish(c, outcome, seq) ==
    /\ phase' = [phase EXCEPT ![c] = "idle"]
    /\ result' = [result EXCEPT ![c] = [outcome |-> outcome, seq |-> seq]]
    /\ asked' = [asked EXCEPT ![c] = IF @.key = NoKey THEN NoRequest ELSE @]
    /\ plan' = [plan EXCEPT ![c] = NoPlan]
    /\ cur' = [cur EXCEPT ![c] = NoRef]
    /\ slot' = [slot EXCEPT ![c] = [next |-> 0, version |-> 0]]
    /\ commits' = [commits EXCEPT ![c] = <<>>]
    /\ tries' = [tries EXCEPT ![c] = 0]
    /\ UNCHANGED <<seen, calls>>

\* The process serving the call dies, or its caller stops listening.
Crash(c) ==
    /\ phase[c] # "idle"
    /\ Finish(c, "none", 0)
    /\ UNCHANGED store

-----------------------------------------------------------------------------
\* Reads

Goto(c, step) ==
    /\ phase' = [phase EXCEPT ![c] = step]
    /\ UNCHANGED <<store, seen, asked, result, calls>>

\* undo reads the ref as it is now and expects exactly that generation; a
\* creation is undone by a delete, a deletion by a create.
UndoPlan(c) ==
    LET q   == asked[c]
        now == ref[q.ref]
    IN  [kind |-> IF q.target = NoTarget THEN "DeleteRef"
                  ELSE IF now = NoRef THEN "CreateRef" ELSE "Undo",
         expected |-> now.generation,
         saw |-> Latest(About(q.ref))]

Undo(c) ==
    /\ phase[c] = "undo"
    /\ IF asked[c].target = NoTarget /\ ref[asked[c].ref] = NoRef
       THEN Finish(c, "notfound", 0) /\ UNCHANGED store
       ELSE /\ plan' = [plan EXCEPT ![c] = UndoPlan(c)]
            /\ Goto(c, IF UndoPlan(c).kind = "CreateRef" THEN FirstStep(asked[c]) ELSE "read")
            /\ UNCHANGED <<cur, slot, commits, tries>>

\* Faulty variant: nothing keeps an existing tag where it is.
ReadRefUnfrozen(c) ==
    LET now == ref[asked[c].ref]
    IN  /\ phase[c] = "read"
        /\ \/ now = NoRef /\ Finish(c, "notfound", 0) /\ UNCHANGED store
           \/ /\ now # NoRef
              /\ cur' = [cur EXCEPT ![c] = now]
              /\ Goto(c, FirstStep(asked[c]))
              /\ UNCHANGED <<plan, slot, commits, tries>>

\* update_ref and delete_ref read the ref they are about to change.  The
\* generation to write and the log entry's before come from THIS read.
ReadRef(c) ==
    LET now    == ref[asked[c].ref]
        frozen == asked[c].ref \in Tags /\ plan[c].kind # "DeleteRef"
    IN  /\ phase[c] = "read"
        /\ \/ now = NoRef /\ Finish(c, "notfound", 0) /\ UNCHANGED store
           \/ now # NoRef /\ frozen /\ Finish(c, "conflict", 0) /\ UNCHANGED store
           \/ /\ now # NoRef /\ ~frozen
              /\ cur' = [cur EXCEPT ![c] = now]
              /\ Goto(c, FirstStep(asked[c]))
              /\ UNCHANGED <<plan, slot, commits, tries>>

\* Faulty variant: the fingerprint leaves the ref out.
PrintWithoutRef(c) == [op |-> plan[c].kind, ref |-> CHOOSE r \in Refs : TRUE,
                       target |-> asked[c].target, expected |-> plan[c].expected]

PrintOf(c) == [op |-> plan[c].kind, ref |-> asked[c].ref,
               target |-> asked[c].target, expected |-> plan[c].expected]

\* The operation number a call answers with, of operation n: undoing a creation
\* drops what delete_ref returned and gives the number of the entry undone.
Reported(c, n) ==
    IF asked[c].op = "undo" /\ asked[c].target = NoTarget THEN asked[c].undoes ELSE n

\* _replay: the key's record answers the call, or refuses it, or is not there.
Answer(c) ==
    LET record == idem[asked[c].key]
    IN  /\ record # NoRecord
        /\ IF record.print = PrintOf(c)
           THEN \* delete_ref returns the sequence; the others re-read the ref
                IF plan[c].kind = "DeleteRef"
                THEN Finish(c, "replayed", Reported(c, record.seq)) /\ UNCHANGED store
                ELSE Goto(c, "reread") /\ UNCHANGED <<plan, cur, slot, commits, tries>>
           ELSE Finish(c, "mismatch", 0) /\ UNCHANGED store

Replay(c) ==
    /\ phase[c] = "replay"
    /\ \/ Answer(c)
       \/ /\ idem[asked[c].key] = NoRecord
          /\ Goto(c, "counter")
          /\ UNCHANGED <<plan, cur, slot, commits, tries>>

\* The retry of a request that has been applied reports the ref as it is now.
Reread(c) ==
    /\ phase[c] = "reread"
    /\ IF ref[asked[c].ref] = NoRef
       THEN Finish(c, "notfound", 0)
       ELSE Finish(c, "replayed", idem[asked[c].key].seq)
    /\ UNCHANGED store

\* Faulty variant: every attempt takes a number further on.
ReadCounterFurther(c) ==
    /\ phase[c] = "counter"
    /\ slot' = [slot EXCEPT ![c] = [counter EXCEPT !.next = @ + tries[c]]]
    /\ Goto(c, IF asked[c].change = NoChange THEN "commit" ELSE "change")
    /\ UNCHANGED <<plan, cur, commits, tries>>

\* Faulty variant: a retry keeps the change record it read the first time.
ReadCounterOnly(c) ==
    /\ phase[c] = "counter"
    /\ slot' = [slot EXCEPT ![c] = counter]
    /\ Goto(c, IF asked[c].change = NoChange \/ commits[c] # <<>> THEN "commit" ELSE "change")
    /\ UNCHANGED <<plan, cur, commits, tries>>

ReadCounter(c) ==
    /\ phase[c] = "counter"
    /\ slot' = [slot EXCEPT ![c] = counter]
    /\ Goto(c, IF asked[c].change = NoChange THEN "commit" ELSE "change")
    /\ UNCHANGED <<plan, cur, commits, tries>>

\* _change_write reads the change record AFTER the counter, so the counter's
\* version condition guards the record as well.
ReadChange(c) ==
    /\ phase[c] = "change"
    /\ commits' = [commits EXCEPT ![c] = <<asked[c].target>> \o change[asked[c].change]]
    /\ Goto(c, "commit")
    /\ UNCHANGED <<plan, cur, slot, tries>>

-----------------------------------------------------------------------------
\* The transaction

\* Faulty variants: an update is put under no condition, or compares the
\* target instead of the generation.
RefHoldsAnyway(c) ==
    plan[c].kind = "CreateRef" => ref[asked[c].ref] = NoRef

RefHoldsByTarget(c) ==
    LET now == ref[asked[c].ref]
    IN  IF plan[c].kind = "CreateRef" THEN now = NoRef
        ELSE now # NoRef /\ now.target = cur[c].target

\* The conditions of its writes, in the order the store evaluates them.
RefHolds(c) ==
    LET now == ref[asked[c].ref]
    IN  IF plan[c].kind = "CreateRef" THEN now = NoRef
        ELSE now # NoRef /\ now.generation = plan[c].expected

CounterHolds(c) == counter.version = slot[c].version

EntryHolds(c) == slot[c].next \notin DOMAIN ops

\* Faulty variant: the record of the key is written under no condition.
KeyUnguarded(c) == TRUE

KeyHolds(c) == asked[c].key # NoKey => idem[asked[c].key] = NoRecord

\* Faulty variants: the deletion an undo asks for is logged but not made, and
\* an update leaves the generation as it was.
NewRefUndoKept(c) ==
    IF plan[c].kind # "DeleteRef"
    THEN [target |-> asked[c].target, generation |-> cur[c].generation + 1]
    ELSE IF asked[c].op = "undo" THEN cur[c] ELSE NoRef

NewRefSameGeneration(c) ==
    IF plan[c].kind = "DeleteRef" THEN NoRef
    ELSE [target |-> asked[c].target,
          generation |-> IF cur[c] = NoRef THEN 1 ELSE cur[c].generation]

NewRef(c) == IF plan[c].kind = "DeleteRef" THEN NoRef
             ELSE [target |-> asked[c].target, generation |-> cur[c].generation + 1]

NewEntry(c) == [kind |-> plan[c].kind, ref |-> asked[c].ref, before |-> cur[c].target,
                after |-> asked[c].target, key |-> asked[c].key,
                change |-> asked[c].change, saw |-> plan[c].saw]

\* Faulty variant: only a call to delete_ref emits a deletion.
NewEventByRequest(c) ==
    [type |-> IF asked[c].op = "delete" THEN "ref.deleted" ELSE "ref.updated",
     ref |-> asked[c].ref, op_sequence |-> slot[c].next]

NewEvent(c) ==
    [type |-> IF plan[c].kind = "DeleteRef" THEN "ref.deleted" ELSE "ref.updated",
     ref |-> asked[c].ref, op_sequence |-> slot[c].next]

Apply(c) ==
    LET q == asked[c]
        n == slot[c].next
    IN  /\ phase[c] = "commit"
        /\ RefHolds(c) /\ CounterHolds(c) /\ EntryHolds(c) /\ KeyHolds(c)
        /\ ref' = [ref EXCEPT ![q.ref] = NewRef(c)]
        /\ counter' = [next |-> n + 1, version |-> counter.version + 1]
        /\ ops' = [i \in DOMAIN ops \cup {n} |-> IF i = n THEN NewEntry(c) ELSE ops[i]]
        /\ change' = IF q.change = NoChange THEN change
                     ELSE [change EXCEPT ![q.change] = commits[c]]
        /\ outbox' = Append(outbox, NewEvent(c))
        /\ idem' = IF q.key = NoKey THEN idem
                   ELSE [idem EXCEPT ![q.key] = [print |-> PrintOf(c), seq |-> n, asked |-> q]]
        /\ Finish(c, "applied", Reported(c, n))

\* Faulty variant: one attempt too many.
CounterMovedOnceMore(c) ==
    /\ phase[c] = "commit"
    /\ RefHolds(c) /\ ~CounterHolds(c)
    /\ IF tries[c] < CounterRetries
       THEN /\ tries' = [tries EXCEPT ![c] = @ + 1]
            /\ Goto(c, "counter")
            /\ UNCHANGED <<plan, cur, slot, commits>>
       ELSE Finish(c, "contended", 0) /\ UNCHANGED store

\* Counter contention is not a real conflict: read the counter again, a
\* bounded number of times.
CounterMoved(c) ==
    /\ phase[c] = "commit"
    /\ RefHolds(c) /\ ~CounterHolds(c)
    /\ IF tries[c] + 1 < CounterRetries
       THEN /\ tries' = [tries EXCEPT ![c] = @ + 1]
            /\ Goto(c, "counter")
            /\ UNCHANGED <<plan, cur, slot, commits>>
       ELSE Finish(c, "contended", 0) /\ UNCHANGED store

\* Faulty variants: a refusal that forgets the key, and one that takes every
\* conflict for contention.
RefusedOutright(c) ==
    /\ phase[c] = "commit"
    /\ ~RefHolds(c) \/ (CounterHolds(c) /\ ~(EntryHolds(c) /\ KeyHolds(c)))
    /\ Finish(c, "conflict", 0)
    /\ UNCHANGED store

RefusedAsContention(c) ==
    /\ phase[c] = "commit"
    /\ ~RefHolds(c) \/ (CounterHolds(c) /\ ~(EntryHolds(c) /\ KeyHolds(c)))
    /\ Goto(c, "counter")
    /\ UNCHANGED <<plan, cur, slot, commits, tries>>

\* Any other condition that fails ends the call, unless its key shows that a
\* retry of the same request is what won.
Refused(c) ==
    /\ phase[c] = "commit"
    /\ ~RefHolds(c) \/ (CounterHolds(c) /\ ~(EntryHolds(c) /\ KeyHolds(c)))
    /\ IF asked[c].key = NoKey
       THEN Finish(c, "conflict", 0) /\ UNCHANGED store
       ELSE Goto(c, "recheck") /\ UNCHANGED <<plan, cur, slot, commits, tries>>

Recheck(c) ==
    /\ phase[c] = "recheck"
    /\ \/ Answer(c)
       \/ /\ idem[asked[c].key] = NoRecord
          /\ Finish(c, "conflict", 0)
          /\ UNCHANGED store

-----------------------------------------------------------------------------

Ask(c) ==
    \E k \in Keys \cup {NoKey} :
        \/ \E r \in Refs : AskDelete(c, r, k)
        \/ \E r \in Refs, t \in Targets, x \in Changes \cup {NoChange} :
              AskCreate(c, r, t, k, x) \/ AskUpdate(c, r, t, k, x)
        \/ \E i \in DOMAIN ops : AskUndo(c, i, k)

\* What the code does for a call, once asked.
Step(c) ==
    \/ Undo(c) \/ ReadRef(c) \/ Replay(c) \/ Reread(c) \/ ReadCounter(c) \/ ReadChange(c)
    \/ Apply(c) \/ CounterMoved(c) \/ Refused(c) \/ Recheck(c)

Next ==
    \E c \in Clients :
        \/ \E r \in Refs : Look(c, r)
        \/ Ask(c) \/ Retry(c) \/ Step(c) \/ Crash(c)

Spec == Init /\ [][Next]_vars

\* A thread serving a call is scheduled; that a caller asks, and that nothing
\* dies, is not assumed.
FairSpec == Spec /\ \A c \in Clients : WF_vars(Step(c))

-----------------------------------------------------------------------------
\* Properties

\* The shape of every item of the partition and of every call in progress.
TypeOK ==
    /\ ref \in [Refs -> RefItem]
    /\ counter \in [next : Nat \ {0}, version : Nat]
    /\ DOMAIN ops \subseteq Nat \ {0}
    /\ ops \in [DOMAIN ops -> OpEntry]
    /\ change \in [Changes -> Seq(Targets)]
    /\ idem \in [Keys -> Recorded \cup {NoRecord}]
    /\ outbox \in Seq([type : {"ref.updated", "ref.deleted"}, ref : Refs, op_sequence : Nat])
    /\ seen \in [Clients -> Sight \cup {NoSight}]
    /\ asked \in [Clients -> Request \cup {NoRequest}]
    /\ phase \in [Clients -> Phases]
    /\ plan \in [Clients -> Plan \cup {NoPlan}]
    /\ cur \in [Clients -> RefItem]
    /\ slot \in [Clients -> [next : Nat, version : Nat]]
    /\ commits \in [Clients -> Seq(Targets)]
    /\ tries \in [Clients -> 0 .. (CounterRetries - 1)]
    /\ result \in [Clients -> [outcome : Outcomes, seq : Nat]]
    /\ calls \in 0 .. MaxCalls

\* The operation log is dense: entries 1 to next-1, none missing and none
\* beyond, whatever callers raced for the counter.
LogDense == DOMAIN ops = 1 .. (counter.next - 1)

\* Every operation has exactly one event, in the order of the log, that
\* names its ref and says whether the ref is gone.
OneEventPerOperation ==
    /\ Len(outbox) = Cardinality(DOMAIN ops)
    /\ \A i \in DOMAIN outbox :
          /\ outbox[i].op_sequence = i
          /\ i \in DOMAIN ops
          /\ outbox[i].ref = ops[i].ref
          /\ (outbox[i].type = "ref.deleted") <=> (ops[i].after = NoTarget)

\* The log and the refs cannot disagree: the last entry about a ref names the
\* target the ref has, and a ref no entry is about does not exist.
LogAgrees ==
    \A r \in Refs :
        /\ About(r) = {} => ref[r] = NoRef
        /\ \A i \in About(r) : IsLatest(i, About(r)) => ref[r].target = ops[i].after

\* However many callers repeat a request under one key, before, during and
\* after each other, the log holds one operation for it.
AppliedOnce ==
    \A i, j \in DOMAIN ops :
        ops[i].key = ops[j].key /\ ops[i].key # NoKey => i = j

\* Whoever is told that a keyed request succeeded, at once or on a repetition:
\* the log has the operation, made under that key, on the ref it asked for, with
\* the target it asked for, and the number in the answer is that operation's;
\* undoing a creation is answered with the number of the creation instead.
AnsweredTruly ==
    \A c \in Clients :
        LET q == asked[c]
        IN  result[c].outcome \in {"applied", "replayed"} /\ q # NoRequest =>
                \E i \in DOMAIN ops :
                    /\ ops[i].key = q.key /\ ops[i].ref = q.ref /\ ops[i].after = q.target
                    /\ result[c].seq = IF q.op = "undo" /\ q.target = NoTarget
                                       THEN q.undoes ELSE i

\* What one would expect of it, and does not hold of undone creations: the
\* number in an answer is that of an operation made under the caller's key.
AnsweredWithOwn ==
    \A c \in Clients :
        result[c].outcome \in {"applied", "replayed"} /\ asked[c] # NoRequest
        => /\ result[c].seq \in DOMAIN ops
           /\ ops[result[c].seq].key = asked[c].key

\* A change record lists every commit made under the change, newest first:
\* no two writers of one change lose each other's commit.
ChangeComplete ==
    \A x \in Changes :
        LET made == {i \in DOMAIN ops : ops[i].change = x}
        IN  /\ Len(change[x]) = Cardinality(made)
            /\ \A i \in made : change[x][Cardinality({j \in made : j >= i})] = ops[i].after

\* No lost update: the state of the ref on which the author of an operation
\* decided is the state that operation replaced.
DecidedOnLatest ==
    \A i \in DOMAIN ops :
        ops[i].kind # "CreateRef" =>
            ops[i].saw = Latest({j \in About(ops[i].ref) : j < i})

\* A ref's generation counts its updates: each one moves it on by one.
GenerationAdvances ==
    [][\A r \in Refs :
          ref[r] # NoRef /\ ref'[r] # NoRef /\ ref'[r] # ref[r]
          => ref'[r].generation = ref[r].generation + 1]_vars

\* Each entry's before is where the entry preceding it left the ref.
LogChains ==
    \A i \in DOMAIN ops :
        LET p == Latest({j \in About(ops[i].ref) : j < i})
        IN  ops[i].before = IF p = 0 THEN NoTarget ELSE ops[p].after

\* A tag is written once: while it exists its target and generation stay.
TagsFrozen ==
    [][\A r \in Tags : ref[r] # NoRef /\ ref'[r] # NoRef => ref'[r] = ref[r]]_vars

\* A request whose key is on record for that same request is answered with
\* the recorded outcome, never with a refusal.
RetriesReplay ==
    [][\A c \in Clients :
          /\ phase[c] # "idle" /\ phase'[c] = "idle"
          /\ result'[c].outcome \in {"conflict", "mismatch", "notfound"}
          /\ asked[c].key # NoKey
          => idem[asked[c].key] = NoRecord \/ idem[asked[c].key].asked # asked[c]]_vars

\* Every call is answered: contention is retried a bounded number of times.
CallsReturn == \A c \in Clients : phase[c] # "idle" ~> phase[c] = "idle"

\* The refs and the log as the callers were promised them.
Promised == INSTANCE RefLog WITH
    refs <- ref,
    log  <- [i \in 1 .. Cardinality(DOMAIN ops) |->
                [kind |-> ops[i].kind, ref |-> ops[i].ref,
                 before |-> ops[i].before, after |-> ops[i].after]]

\* Concurrent callers see the refs RefLog describes: each mutation takes
\* effect at the instant of its transaction.
ImplementsRefLog == Promised!Spec
=============================================================================
