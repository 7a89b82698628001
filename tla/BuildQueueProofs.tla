-------------------------- MODULE BuildQueueProofs ---------------------------
(***************************************************************************)
(* Theorems about BuildQueue, for every set of environments, commits and   *)
(* workers, every retry bound and every number of deliveries, reruns,      *)
(* deaths and outages.                                                     *)
(***************************************************************************)
EXTENDS BuildQueue, FiniteSetTheorems, TLAPS

-----------------------------------------------------------------------------
\* Type correctness

WorkerState == [step : Steps, todo : Seq(Entry), work : Entry \cup {NoEntry},
                version : Nat, cached : BOOLEAN]

Searching == {"idle", "pick", "take"}

\* What a worker has in hand, by step.
WorkerFits(w) ==
    /\ worker[w].step \in {"pick", "take"} => worker[w].todo # <<>>
    /\ worker[w].step \in Searching => worker[w].work = NoEntry
    /\ worker[w].step \notin Searching => worker[w].work \in Entry

WorkersFit ==
    /\ worker \in [Workers -> WorkerState]
    /\ \A w \in Workers : WorkerFits(w)

RerunFits ==
    /\ rerun \in [step : {"idle", "newest", "forget", "put"}, env : Envs \cup {Absence},
                  commit : Tips \cup {Absence}, op : Nat, rebuild : BOOLEAN]
    /\ rerun.step # "idle" => rerun.env \in Envs /\ rerun.commit \in Tips

QueueFits ==
    /\ queue \subseteq Entry
    /\ IsFiniteSet(queue)
    /\ \A x, y \in queue : x.env = y.env /\ x.op = y.op => x = y
    /\ arrivals \in Nat
    /\ enqueued \subseteq Envs \X Tips

SpentType == [deliveries : Nat, reruns : Nat, crashes : Nat, faults : Nat]

StoreFits ==
    /\ published \in [Envs -> Seq(Tips)]
    /\ lease \in [Envs -> LeaseItem \cup {NoLease}]
    /\ results \in [Tips -> Result]
    /\ notes \subseteq Envs \X Tips
    /\ failures \in [Tips -> Nat]
    /\ spent \in SpentType

Fits == WorkersFit /\ RerunFits /\ QueueFits /\ StoreFits

LEMMA FitsTypes == Fits => QueueTypeOK
  BY DEF Fits, WorkersFit, WorkerState, RerunFits, QueueFits, StoreFits, QueueTypeOK

LEMMA WorkerFields ==
  ASSUME WorkersFit, NEW w \in Workers
  PROVE  /\ worker[w].step \in Steps /\ worker[w].todo \in Seq(Entry)
         /\ worker[w].work \in Entry \cup {NoEntry}
         /\ worker[w].version \in Nat /\ worker[w].cached \in BOOLEAN
  BY DEF WorkersFit, WorkerState

LEMMA RestingFits == Resting \in WorkerState /\ NoEntry \notin Entry
  <1>1. <<>> \in Seq(Entry) /\ "idle" \in Steps
    BY DEF Steps
  <1>2. NoEntry \notin Entry
    BY BuildQueueAssumption DEF NoEntry, Entry
  <1> QED BY <1>1, <1>2 DEF Resting, WorkerState

\* One worker moves.
LEMMA MoveFits ==
  ASSUME WorkersFit, NEW w \in Workers, NEW x \in WorkerState,
         worker' = [worker EXCEPT ![w] = x],
         x.step \in {"pick", "take"} => x.todo # <<>>,
         x.step \in Searching => x.work = NoEntry,
         x.step \notin Searching => x.work \in Entry
  PROVE  /\ WorkersFit' /\ worker'[w] = x
         /\ \A v \in Workers : v # w => worker'[v] = worker[v]
  <1>1. worker'[w] = x /\ \A v \in Workers : v # w => worker'[v] = worker[v]
    BY DEF WorkersFit
  <1>2. worker' \in [Workers -> WorkerState]
    BY DEF WorkersFit
  <1> QED BY <1>1, <1>2 DEF WorkersFit, WorkerFits

LEMMA RestFits ==
  ASSUME WorkersFit, NEW w \in Workers, Rest(w)
  PROVE  /\ WorkersFit' /\ worker'[w] = Resting
         /\ \A v \in Workers : v # w => worker'[v] = worker[v]
  <1>1. /\ worker' = [worker EXCEPT ![w] = Resting]
        /\ Resting.step = "idle" /\ Resting.work = NoEntry
    BY DEF Rest, Resting
  <1> QED BY <1>1, RestingFits, MoveFits DEF Searching

LEMMA ProceedFits ==
  ASSUME WorkersFit, NEW w \in Workers, NEW step \in Steps \ Searching, Proceed(w, step),
         worker[w].step \notin Searching
  PROVE  /\ WorkersFit' /\ worker'[w] = [worker[w] EXCEPT !.step = step]
         /\ \A v \in Workers : v # w => worker'[v] = worker[v]
  <1> DEFINE x == [worker[w] EXCEPT !.step = step]
  <1>1. worker' = [worker EXCEPT ![w] = x]
    BY DEF Proceed, WorkersFit
  <1>2. worker[w] \in WorkerState /\ worker[w].work \in Entry
    BY DEF WorkersFit, WorkerFits
  <1>3. x \in WorkerState /\ x.step = step /\ x.work \in Entry
    BY <1>2 DEF WorkerState
  <1> HIDE DEF x
  <1>4. /\ WorkersFit' /\ worker'[w] = x
        /\ \A v \in Workers : v # w => worker'[v] = worker[v]
    BY <1>1, <1>3, MoveFits DEF Searching
  <1> QED BY <1>4 DEF x

\* A scan finds the entries it will try, in the order of their arrival.
LEMMA ScanFinds ==
  ASSUME QueueFits, Oldest # {}, NEW s \in [1 .. Cardinality(Oldest) -> Oldest]
  PROVE  /\ s \in Seq(Entry) /\ s # <<>>
         /\ \A i \in 1 .. Len(s) : s[i] \in queue
  <1>1. Oldest \subseteq queue
    BY DEF Oldest
  <1>2. IsFiniteSet(Oldest)
    BY <1>1, FS_Subset DEF QueueFits
  <1>3. Cardinality(Oldest) \in Nat /\ Cardinality(Oldest) # 0
    BY <1>2, FS_CardinalityType, FS_EmptySet
  <1>4. PICK n \in Nat : n = Cardinality(Oldest) /\ n # 0
    BY <1>3
  <1>5. s \in [1 .. n -> Entry] /\ \A i \in 1 .. n : s[i] \in queue
    BY <1>1, <1>4 DEF QueueFits
  <1>6. s \in Seq(Entry) /\ Len(s) = n
    BY <1>5
  <1> QED BY <1>4, <1>5, <1>6

LEMMA TailElements ==
  ASSUME NEW S, NEW s \in Seq(S), s # <<>>, Len(s) # 1
  PROVE  /\ Tail(s) \in Seq(S) /\ Tail(s) # <<>>
         /\ \A i \in 1 .. Len(Tail(s)) : i + 1 \in 1 .. Len(s) /\ Tail(s)[i] = s[i + 1]
  <1>1. Len(s) \in Nat /\ Len(s) # 0
    OBVIOUS
  <1>2. Tail(s) \in Seq(S) /\ Len(Tail(s)) = Len(s) - 1
    BY <1>1
  <1>3. Tail(s) # <<>>
    <2>1. Len(Tail(s)) # 0
      BY <1>1, <1>2
    <2>2. Len(<<>>) = 0
      OBVIOUS
    <2> QED BY <2>1, <2>2
  <1>4. \A i \in 1 .. Len(Tail(s)) : i + 1 \in 1 .. Len(s) /\ Tail(s)[i] = s[i + 1]
    BY <1>1, <1>2
  <1> QED BY <1>2, <1>3, <1>4

\* Giving up on an entry leaves the rest of the scan, or the worker at rest.
LEMMA SkipFits ==
  ASSUME WorkersFit, NEW w \in Workers, Skip(w), worker[w].step \in {"pick", "take"}
  PROVE  /\ WorkersFit'
         /\ worker'[w].step \in {"idle", "pick"} /\ worker'[w].work = NoEntry
         /\ \A i \in 1 .. Len(worker'[w].todo) :
               \E j \in 1 .. Len(worker[w].todo) : worker'[w].todo[i] = worker[w].todo[j]
         /\ \A v \in Workers : v # w => worker'[v] = worker[v]
  <1> DEFINE t == worker[w].todo
             x == [worker[w] EXCEPT !.step = "pick", !.todo = Tail(t)]
  <1>1. t \in Seq(Entry) /\ t # <<>> /\ worker[w] \in WorkerState /\ worker[w].work = NoEntry
    BY DEF WorkersFit, WorkerFits, WorkerState, Searching
  <1>2. CASE Len(t) = 1
    <2>1. Rest(w)
      BY <1>2 DEF Skip
    <2>2. Resting.step = "idle" /\ Resting.work = NoEntry /\ Len(Resting.todo) = 0
      BY DEF Resting
    <2> QED BY <2>1, <2>2, RestFits
  <1>3. CASE Len(t) # 1
    <2>1. worker' = [worker EXCEPT ![w] = x]
      BY <1>3 DEF Skip, WorkersFit
    <2>2. /\ Tail(t) \in Seq(Entry) /\ Tail(t) # <<>>
          /\ \A i \in 1 .. Len(Tail(t)) : i + 1 \in 1 .. Len(t) /\ Tail(t)[i] = t[i + 1]
      BY <1>1, <1>3, TailElements
    <2>3. x \in WorkerState /\ x.step = "pick" /\ x.todo = Tail(t) /\ x.work = NoEntry
      BY <1>1, <2>2 DEF WorkerState, Steps
    <2> HIDE DEF x, t
    <2>4. /\ WorkersFit' /\ worker'[w] = x
          /\ \A v \in Workers : v # w => worker'[v] = worker[v]
      BY <2>1, <2>2, <2>3, MoveFits DEF Searching
    <2> QED BY <2>2, <2>3, <2>4 DEF t
  <1> QED BY <1>2, <1>3

\* One worker has moved, and the others have not.
Moved(w) ==
    /\ WorkersFit'
    /\ \A v \in Workers : v # w => worker'[v] = worker[v]

\* What a step of run_once does to its worker.
LEMMA WorkerStepFits ==
  ASSUME Fits, NEW w \in Workers, RunOnce(w) \/ CrashWorker(w)
  PROVE  Moved(w)
  <1>0. WorkersFit /\ QueueFits /\ StoreFits
    BY DEF Fits
  <1>1. ASSUME Rest(w) PROVE Moved(w)
    BY <1>0, <1>1, RestFits DEF Moved
  <1>2. ASSUME worker[w].step \notin Searching, NEW step \in Steps \ Searching, Proceed(w, step)
        PROVE  Moved(w)
    BY <1>0, <1>2, ProceedFits DEF Moved
  <1>3. ASSUME worker[w].step \in {"pick", "take"}, Skip(w) PROVE Moved(w)
    BY <1>0, <1>3, SkipFits DEF Moved
  <1>4. CASE ScanQueue(w)
    <2>1. PICK s \in [1 .. Cardinality(Oldest) -> Oldest] :
              worker' = [worker EXCEPT ![w] = [Resting EXCEPT !.step = "pick", !.todo = s]]
      BY <1>4 DEF ScanQueue
    <2>2. s \in Seq(Entry) /\ s # <<>>
      BY <1>0, <1>4, ScanFinds DEF ScanQueue
    <2> DEFINE x == [Resting EXCEPT !.step = "pick", !.todo = s]
    <2>3. x \in WorkerState /\ x.step = "pick" /\ x.todo = s /\ x.work = NoEntry
      BY <2>2 DEF Resting, WorkerState, Steps
    <2> HIDE DEF x
    <2>4. Moved(w)
      <3>1. worker' = [worker EXCEPT ![w] = x]
        BY <2>1 DEF x
      <3> QED BY <1>0, <2>2, <2>3, <3>1, MoveFits DEF Searching, Moved
    <2> QED BY <2>4
  <1>5. CASE ReadLease(w)
    <2> DEFINE l == lease[Head(worker[w].todo).env]
               x == [worker[w] EXCEPT !.step = "take", !.version = l.version]
    <2>1. worker[w].step = "pick"
      BY <1>5 DEF ReadLease
    <2>2. worker[w] \in WorkerState /\ worker[w].todo \in Seq(Entry) /\ worker[w].todo # <<>>
          /\ worker[w].work = NoEntry
      BY <1>0, <2>1 DEF WorkersFit, WorkerFits, WorkerState, Searching
    <2>3. CASE Skip(w)
      BY <1>3, <2>1, <2>3
    <2>4. CASE worker' = [worker EXCEPT ![w].step = "take", ![w].version = l.version]
      <3>1. l.version \in Nat
        <4>1. Head(worker[w].todo) \in Entry
          BY <2>2
        <4>2. l \in LeaseItem \cup {NoLease}
          BY <1>0, <4>1 DEF StoreFits, Entry
        <4> QED BY <4>2 DEF LeaseItem, NoLease
      <3> HIDE DEF l
      <3>2. worker' = [worker EXCEPT ![w] = x]
        BY <1>0, <2>4 DEF WorkersFit
      <3>3. x \in WorkerState /\ x.step = "take" /\ x.todo = worker[w].todo /\ x.work = NoEntry
        BY <2>2, <3>1 DEF WorkerState, Steps
      <3> HIDE DEF x
      <3>4. Moved(w)
        BY <1>0, <2>2, <3>2, <3>3, MoveFits DEF Searching, Moved
      <3> QED BY <3>4
    <2> QED BY <1>5, <2>3, <2>4 DEF ReadLease
  <1>6. CASE TakeLease(w)
    <2> DEFINE h == Head(worker[w].todo)
               x == [Resting EXCEPT !.step = "check", !.work = h,
                                    !.version = worker[w].version + 1]
    <2>1. worker[w].step = "take"
      BY <1>6 DEF TakeLease
    <2>2. worker[w].version \in Nat /\ worker[w].todo \in Seq(Entry) /\ worker[w].todo # <<>>
      BY <1>0, <2>1 DEF WorkersFit, WorkerFits, WorkerState
    <2>3. CASE Skip(w)
      BY <1>3, <2>1, <2>3
    <2>4. CASE worker' = [worker EXCEPT ![w] = x]
      <3>1. h \in Entry
        BY <2>2
      <3> HIDE DEF h
      <3>2. x \in WorkerState /\ x.step = "check" /\ x.work = h
        <4>1. worker[w].version + 1 \in Nat /\ "check" \in Steps
          BY <2>2 DEF Steps
        <4> QED BY <3>1, <4>1, RestingFits DEF WorkerState
      <3> HIDE DEF x
      <3>3. Moved(w)
        BY <1>0, <2>4, <3>1, <3>2, MoveFits DEF Searching, Moved
      <3> QED BY <3>3
    <2> QED BY <1>6, <2>3, <2>4 DEF TakeLease
  <1>7. CASE LookAtResult(w)
    <2>1. worker[w].step \notin Searching
      BY <1>7 DEF LookAtResult, Searching
    <2>2. CASE \E step \in {"build", "release", "takeover"} : Proceed(w, step)
      BY <1>2, <2>1, <2>2 DEF Steps, Searching
    <2>3. CASE worker' = [worker EXCEPT ![w].cached = TRUE,
                    ![w].step = IF results[worker[w].work.commit].status = "succeeded"
                                THEN "sync" ELSE "close"]
      <3> DEFINE x == [worker[w] EXCEPT !.cached = TRUE,
                          !.step = IF results[worker[w].work.commit].status = "succeeded"
                                   THEN "sync" ELSE "close"]
      <3>1. worker' = [worker EXCEPT ![w] = x]
        BY <1>0, <2>3 DEF WorkersFit
      <3>2. worker[w] \in WorkerState /\ worker[w].work \in Entry
        BY <1>0, <2>1 DEF WorkersFit, WorkerFits
      <3>3. x \in WorkerState /\ x.step \in {"sync", "close"} /\ x.work \in Entry
        BY <3>2 DEF WorkerState, Steps
      <3> HIDE DEF x
      <3>4. Moved(w)
        BY <1>0, <3>1, <3>3, MoveFits DEF Searching, Moved
      <3> QED BY <3>4
    <2> QED BY <1>7, <2>2, <2>3 DEF LookAtResult
  <1>8. CASE ClaimResult(w) \/ TakeOver(w) \/ Build(w) \/ RecordResult(w)
    BY <1>1, <1>2, <1>8 DEF ClaimResult, TakeOver, Build, RecordResult, Steps, Searching
  <1>9. CASE Sync(w) \/ Complete(w)
    BY <1>1, <1>2, <1>9 DEF Sync, Complete, Steps, Searching
  <1>10. CASE Fail(w) \/ FailRecord(w) \/ Unclaim(w) \/ DropResult(w) \/ Release(w)
    BY <1>1, <1>2, <1>10 DEF Fail, FailRecord, Unclaim, DropResult, Release, Steps, Searching
  <1>11. CASE CrashWorker(w)
    BY <1>1, <1>11 DEF CrashWorker
  <1> QED BY <1>4, <1>5, <1>6, <1>7, <1>8, <1>9, <1>10, <1>11 DEF RunOnce
-----------------------------------------------------------------------------
\* The queue and the store

LEMMA PutEntryFits ==
  ASSUME QueueFits, NEW e \in Envs, NEW n \in Nat, NEW c \in Tips, PutEntry(e, n, c)
  PROVE  QueueFits'
  <1> DEFINE y == [env |-> e, op |-> n, commit |-> c, attempts |-> 0, at |-> arrivals]
  <1>1. CASE \E x \in queue : x.env = e /\ x.op = n
    BY <1>1 DEF PutEntry, QueueFits
  <1>2. CASE ~\E x \in queue : x.env = e /\ x.op = n
    <2>1. /\ queue' = queue \cup {y} /\ arrivals' = arrivals + 1
          /\ enqueued' = enqueued \cup {<<e, c>>}
      BY <1>2 DEF PutEntry
    <2>2. y \in Entry /\ y.env = e /\ y.op = n
      BY DEF Entry, QueueFits
    <2> HIDE DEF y
    <2>3. IsFiniteSet(queue')
      BY <2>1, FS_AddElement DEF QueueFits
    <2>4. \A a, b \in queue' : a.env = b.env /\ a.op = b.op => a = b
      BY <1>2, <2>1, <2>2 DEF QueueFits
    <2>5. arrivals' \in Nat
      BY <2>1 DEF QueueFits
    <2>6. queue' \subseteq Entry /\ enqueued' \subseteq Envs \X Tips
      BY <2>1, <2>2 DEF QueueFits
    <2> QED BY <2>3, <2>4, <2>5, <2>6 DEF QueueFits
  <1> QED BY <1>1, <1>2

\* An entry leaves, or comes back with one attempt more.
LEMMA WithoutEntryFits ==
  ASSUME QueueFits, NEW x \in Entry, UNCHANGED <<arrivals, enqueued>>,
         NEW y \in Entry, y.env = x.env, y.op = x.op,
         \/ queue' = WithoutEntry(x)
         \/ queue' = WithoutEntry(x) \cup {y}
  PROVE  QueueFits'
  <1>1. WithoutEntry(x) \subseteq queue
    BY DEF WithoutEntry
  <1>2. IsFiniteSet(WithoutEntry(x)) /\ IsFiniteSet(WithoutEntry(x) \cup {y})
    BY <1>1, FS_Subset, FS_AddElement DEF QueueFits
  <1>3. \A a, b \in queue' : a.env = b.env /\ a.op = b.op => a = b
    BY DEF WithoutEntry, QueueFits
  <1>4. queue' \subseteq Entry
    BY <1>1 DEF QueueFits
  <1>5. IsFiniteSet(queue')
    BY <1>2
  <1> QED BY <1>3, <1>4, <1>5 DEF QueueFits

\* A worker past its search has an entry of the queue in hand.
LEMMA InHand ==
  ASSUME WorkersFit, NEW w \in Workers, worker[w].step \notin Searching
  PROVE  /\ worker[w].work \in Entry /\ worker[w].work.env \in Envs
         /\ worker[w].work.commit \in Tips
  BY DEF WorkersFit, WorkerFits, Entry

LEMMA ShapesOfResults ==
  /\ NoResult \in Result /\ Running \in Result
  /\ Terminated("succeeded") \in Result /\ Terminated("failed") \in Result
  BY DEF NoResult, Result, Running, Terminated

LEMMA Counted ==
  ASSUME spent \in SpentType,
         \/ spent' = [spent EXCEPT !.deliveries = @ + 1]
         \/ spent' = [spent EXCEPT !.reruns = @ + 1]
         \/ spent' = [spent EXCEPT !.crashes = @ + 1]
         \/ spent' = [spent EXCEPT !.faults = @ + 1]
  PROVE  spent' \in SpentType
  <1>1. CASE spent' = [spent EXCEPT !.deliveries = @ + 1]
    BY <1>1 DEF SpentType
  <1>2. CASE spent' = [spent EXCEPT !.reruns = @ + 1]
    BY <1>2 DEF SpentType
  <1>3. CASE spent' = [spent EXCEPT !.crashes = @ + 1]
    BY <1>3 DEF SpentType
  <1>4. CASE spent' = [spent EXCEPT !.faults = @ + 1]
    BY <1>4 DEF SpentType
  <1> QED BY <1>1, <1>2, <1>3, <1>4

LEMMA WorkerStoreFits ==
  ASSUME Fits, NEW w \in Workers, RunOnce(w) \/ CrashWorker(w)
  PROVE  StoreFits' /\ QueueFits' /\ RerunFits'
  <1>0. WorkersFit /\ QueueFits /\ StoreFits /\ RerunFits
    BY DEF Fits
  <1>a. RerunFits'
    BY <1>0 DEF RunOnce, ScanQueue, ReadLease, TakeLease, ClaimResult, LookAtResult, TakeOver,
       Build, RecordResult, Sync, Complete, Fail, FailRecord, Unclaim, DropResult, Release,
       CrashWorker, RerunFits
  <1>1. CASE ScanQueue(w) \/ ReadLease(w) \/ LookAtResult(w) \/ Unclaim(w)
    BY <1>0, <1>a, <1>1 DEF ScanQueue, ReadLease, LookAtResult, Unclaim, data, history,
       StoreFits, QueueFits
  <1>2. CASE TakeLease(w)
    <2>1. QueueFits' /\ UNCHANGED <<published, results, notes, failures, spent>>
      BY <1>0, <1>2 DEF TakeLease, history, QueueFits
    <2>2. worker[w].version + 1 \in Nat \ {0}
      <3>1. worker[w].version \in Nat
        BY <1>0, WorkerFields
      <3> QED BY <3>1
    <2> DEFINE l == [version |-> worker[w].version + 1, live |-> TRUE, by |-> w]
    <2>3. l \in LeaseItem
      BY <2>2 DEF LeaseItem
    <2>4. lease' = lease \/ \E e : lease' = [lease EXCEPT ![e] = l]
      BY <1>2 DEF TakeLease
    <2>5. lease' \in [Envs -> LeaseItem \cup {NoLease}]
      BY <1>0, <2>3, <2>4 DEF StoreFits
    <2> QED BY <1>0, <1>a, <2>1, <2>5 DEF StoreFits
  <1>3. CASE ClaimResult(w) \/ TakeOver(w) \/ RecordResult(w) \/ FailRecord(w) \/ DropResult(w)
    <2>1. QueueFits' /\ UNCHANGED <<published, lease, notes, failures, spent>>
      BY <1>0, <1>3 DEF ClaimResult, TakeOver, RecordResult, FailRecord, DropResult, history,
         QueueFits
    <2>2. results' = results \/ \E c, r : r \in Result /\ results' = [results EXCEPT ![c] = r]
      BY <1>3, ShapesOfResults
      DEF ClaimResult, TakeOver, RecordResult, FailRecord, DropResult
    <2>3. results' \in [Tips -> Result]
      BY <1>0, <2>2 DEF StoreFits
    <2> QED BY <1>0, <1>a, <2>1, <2>3 DEF StoreFits
  <1>4. CASE Build(w) \/ Sync(w)
    <2>1. QueueFits' /\ UNCHANGED <<published, lease, results, notes>>
      BY <1>0, <1>4 DEF Build, Sync, data, QueueFits
    <2>2. spent' = spent \/ spent' = [spent EXCEPT !.faults = @ + 1]
      BY <1>4 DEF Build, Sync, Fault
    <2>3. spent' \in SpentType
      BY <1>0, <2>2, Counted DEF StoreFits
    <2>4. failures' = failures \/ \E c : failures' = [failures EXCEPT ![c] = @ + 1]
      BY <1>4 DEF Build, Sync
    <2>5. failures' \in [Tips -> Nat]
      BY <1>0, <2>4 DEF StoreFits
    <2> QED BY <1>0, <1>a, <2>1, <2>3, <2>5 DEF StoreFits
  <1>5. CASE Complete(w) \/ Fail(w) \/ Release(w)
    <2> DEFINE x == worker[w].work
               y == [x EXCEPT !.attempts = @ + 1]
    <2>1. worker[w].step \notin Searching
      BY <1>5 DEF Complete, Fail, Release, Searching
    <2>2. x \in Entry /\ x.env \in Envs /\ x.commit \in Tips
      BY <1>0, <2>1, InHand
    <2>3. y \in Entry /\ y.env = x.env /\ y.op = x.op
      BY <2>2 DEF Entry
    <2>4. /\ UNCHANGED <<published, arrivals, enqueued, results, failures, spent>>
          /\ lease' = lease \/ lease' = Freed(w)
          /\ notes' = notes \/ notes' = notes \cup {<<x.env, x.commit>>}
      BY <1>5 DEF Complete, Fail, Release, history
    <2>5. QueueFits'
      <3>1. queue' = queue \/ queue' = WithoutEntry(x) \/ queue' = WithoutEntry(x) \cup {y}
        BY <1>5 DEF Complete, Fail, Release
      <3> HIDE DEF x, y
      <3>2. CASE queue' = queue
        BY <1>0, <2>4, <3>2 DEF QueueFits
      <3> QED BY <1>0, <2>2, <2>3, <2>4, <3>1, <3>2, WithoutEntryFits
    <2>6. lease' \in [Envs -> LeaseItem \cup {NoLease}]
      BY <1>0, <2>4 DEF StoreFits, Freed
    <2>7. notes' \subseteq Envs \X Tips
      BY <1>0, <2>2, <2>4 DEF StoreFits
    <2> QED BY <1>0, <1>a, <2>4, <2>5, <2>6, <2>7 DEF StoreFits
  <1>6. CASE CrashWorker(w)
    <2>1. spent' = [spent EXCEPT !.crashes = @ + 1]
      BY <1>6 DEF CrashWorker
    <2>2. spent' \in SpentType
      BY <1>0, <2>1, Counted DEF StoreFits
    <2> QED BY <1>0, <1>a, <1>6, <2>2 DEF CrashWorker, data, history, StoreFits, QueueFits
  <1> QED BY <1>1, <1>2, <1>3, <1>4, <1>5, <1>6, <1>a DEF RunOnce

\* Everybody else: the refs, the dispatcher, the trigger and the clock.
Others ==
    \/ \E e \in Envs, c \in Tips : Publish(e, c)
    \/ \E x \in Published : Deliver(x[1], x[2])
    \/ \E e \in Envs, b \in BOOLEAN : Trigger(e, b)
    \/ TriggerNewest \/ TriggerForget \/ TriggerPut
    \/ \E e \in Envs : ExpireLease(e)
    \/ \E c \in Tips : Abandon(c)

LEMMA OthersLeaveWorkers == Others => worker' = worker
  BY DEF Others, Publish, Deliver, Trigger, TriggerNewest, TriggerForget, TriggerPut,
     ExpireLease, Abandon

LEMMA OthersFit ==
  ASSUME Fits, Others
  PROVE  StoreFits' /\ QueueFits' /\ RerunFits'
  <1>0. WorkersFit /\ QueueFits /\ StoreFits /\ RerunFits
    BY DEF Fits
  <1>1. ASSUME NEW e \in Envs, NEW c \in Tips, Publish(e, c)
        PROVE  StoreFits' /\ QueueFits' /\ RerunFits'
    <2>1. published' \in [Envs -> Seq(Tips)]
      BY <1>0, <1>1 DEF Publish, StoreFits
    <2> QED BY <1>0, <1>1, <2>1 DEF Publish, StoreFits, QueueFits, RerunFits, history
  <1>2. ASSUME NEW x \in Published, Deliver(x[1], x[2])
        PROVE  StoreFits' /\ QueueFits' /\ RerunFits'
    <2>1. x[1] \in Envs /\ x[2] \in Nat /\ published[x[1]][x[2]] \in Tips
      <3>1. x \in Envs \X (1 .. MaxOps) /\ x[2] \in DOMAIN published[x[1]]
        BY DEF Published
      <3>2. x[1] \in Envs /\ x[2] \in Nat
        BY <3>1, BuildQueueAssumption
      <3>3. published[x[1]] \in Seq(Tips)
        BY <1>0, <3>2 DEF StoreFits
      <3> QED BY <3>1, <3>2, <3>3
    <2>2. QueueFits'
      BY <1>0, <1>2, <2>1, PutEntryFits DEF Deliver
    <2>3. spent' \in SpentType
      <3>1. spent' = [spent EXCEPT !.deliveries = @ + 1]
        BY <1>2 DEF Deliver
      <3> QED BY <1>0, <3>1, Counted DEF StoreFits
    <2>4. UNCHANGED <<published, lease, results, notes, failures, rerun>>
      BY <1>2 DEF Deliver
    <2> QED BY <1>0, <2>2, <2>3, <2>4 DEF StoreFits, RerunFits
  <1>3. ASSUME NEW e \in Envs, NEW b \in BOOLEAN, Trigger(e, b)
        PROVE  StoreFits' /\ QueueFits' /\ RerunFits'
    <2>1. Last(published[e]) \in Tips
      BY <1>0, <1>3 DEF Trigger, StoreFits, Last
    <2>2. spent' \in SpentType
      <3>1. spent' = [spent EXCEPT !.reruns = @ + 1]
        BY <1>3 DEF Trigger
      <3> QED BY <1>0, <3>1, Counted DEF StoreFits
    <2>3. RerunFits'
      BY <1>3, <2>1 DEF Trigger, RerunFits
    <2>4. StoreFits' /\ QueueFits'
      BY <1>0, <1>3, <2>2 DEF Trigger, StoreFits, QueueFits, data, history
    <2> QED BY <2>3, <2>4
  <1>4. CASE TriggerNewest
    <2>1. Len(published[rerun.env]) \in Nat
      BY <1>0, <1>4 DEF TriggerNewest, StoreFits, RerunFits
    <2> QED BY <1>0, <1>4, <2>1 DEF TriggerNewest, StoreFits, QueueFits, RerunFits, data, history
  <1>5. CASE TriggerForget
    BY <1>0, <1>5, ShapesOfResults
    DEF TriggerForget, StoreFits, QueueFits, RerunFits, history
  <1>6. CASE TriggerPut
    <2>1. rerun.env \in Envs /\ rerun.op \in Nat /\ rerun.commit \in Tips
      BY <1>0, <1>6 DEF TriggerPut, RerunFits
    <2>2. QueueFits'
      BY <1>0, <1>6, <2>1, PutEntryFits DEF TriggerPut
    <2> QED BY <1>0, <1>6, <2>2 DEF TriggerPut, StoreFits, RerunFits, NoRerun
  <1>7. ASSUME NEW e \in Envs, ExpireLease(e)
        PROVE  StoreFits' /\ QueueFits' /\ RerunFits'
    <2>1. lease[e] \in LeaseItem
      BY <1>0, <1>7 DEF ExpireLease, StoreFits, NoLease
    <2>2. [lease[e] EXCEPT !.live = FALSE] \in LeaseItem
      BY <2>1 DEF LeaseItem
    <2>3. lease' = [lease EXCEPT ![e] = [lease[e] EXCEPT !.live = FALSE]]
      BY <1>0, <1>7 DEF ExpireLease, StoreFits
    <2>4. lease' \in [Envs -> LeaseItem \cup {NoLease}]
      BY <1>0, <2>2, <2>3 DEF StoreFits
    <2> QED BY <1>0, <1>7, <2>4 DEF ExpireLease, StoreFits, QueueFits, RerunFits, history
  <1>8. ASSUME NEW c \in Tips, Abandon(c)
        PROVE  StoreFits' /\ QueueFits' /\ RerunFits'
    <2>1. results' \in [Tips -> Result]
      BY <1>0, <1>8 DEF Abandon, StoreFits, Result
    <2> QED BY <1>0, <1>8, <2>1 DEF Abandon, StoreFits, QueueFits, RerunFits, history
  <1> QED BY <1>1, <1>2, <1>3, <1>4, <1>5, <1>6, <1>7, <1>8 DEF Others

LEMMA NextCases ==
  QueueNext <=> Others \/ \E w \in Workers : RunOnce(w) \/ CrashWorker(w)
  BY DEF QueueNext, Others

LEMMA FitsInit == QueueInit => Fits
  <1> SUFFICES ASSUME QueueInit PROVE Fits
    OBVIOUS
  <1>1. WorkersFit
    BY RestingFits DEF QueueInit, WorkersFit, WorkerFits, Searching, Resting
  <1>2. RerunFits
    BY DEF QueueInit, RerunFits, NoRerun
  <1>3. QueueFits
    BY FS_EmptySet DEF QueueInit, QueueFits
  <1>4. StoreFits
    BY ShapesOfResults DEF QueueInit, StoreFits, SpentType
  <1> QED BY <1>1, <1>2, <1>3, <1>4 DEF Fits

LEMMA FitsStep == Fits /\ [QueueNext]_queueVars => Fits'
  <1> SUFFICES ASSUME Fits, [QueueNext]_queueVars PROVE Fits'
    OBVIOUS
  <1>1. ASSUME NEW w \in Workers, RunOnce(w) \/ CrashWorker(w) PROVE Fits'
    BY <1>1, WorkerStepFits, WorkerStoreFits DEF Moved, Fits
  <1>2. CASE Others
    BY <1>2, OthersFit, OthersLeaveWorkers DEF Fits, WorkersFit, WorkerFits
  <1>3. CASE UNCHANGED queueVars
    BY <1>3 DEF queueVars, data, history, Fits, WorkersFit, WorkerFits, RerunFits, QueueFits,
       StoreFits
  <1> QED BY <1>1, <1>2, <1>3, NextCases

\* The shapes of the queue, the leases, the results and the workers hold
\* through every step of the trigger, the dispatcher and run_once
\* (build/pipeline.py), and enqueue leaves one entry for an operation.
THEOREM QueueKeepsItsShape == QueueSpec => []QueueTypeOK
  <1>1. QueueInit => Fits
    BY FitsInit
  <1>2. Fits /\ [QueueNext]_queueVars => Fits'
    BY FitsStep
  <1>3. Fits => QueueTypeOK
    BY FitsTypes
  <1> QED BY <1>1, <1>2, <1>3, PTL DEF QueueSpec
-----------------------------------------------------------------------------
\* What the results and the notes say is earned

\* The attempts an entry has used up are failures of its commit.
Backed(x) == x.attempts <= failures[x.commit]

\* What a worker is about to write has been earned before it writes it.
VerdictFits(w) ==
    /\ \A i \in 1 .. Len(worker[w].todo) : Backed(worker[w].todo[i])
    /\ worker[w].step \notin Searching => Backed(worker[w].work)
    /\ worker[w].step = "fail" =>
          worker[w].work.attempts + 1 <= failures[worker[w].work.commit]
    /\ worker[w].step = "fail_record" => failures[worker[w].work.commit] >= MaxAttempts
    /\ worker[w].step = "complete" => <<worker[w].work.env, worker[w].work.commit>> \in platform

QueueBacked == \A x \in queue : Backed(x)

VerdictInv == Fits /\ QueueBacked /\ (\A w \in Workers : VerdictFits(w)) /\ VerdictsEarned

\* Failures and the platform's versions only accumulate.
Accumulated ==
    /\ \A c \in Tips : failures[c] \in Nat /\ failures'[c] \in Nat /\ failures[c] <= failures'[c]
    /\ platform \subseteq platform'

LEMMA FailuresAccumulate ==
  ASSUME Fits, QueueNext
  PROVE  Accumulated
  <1>0. failures \in [Tips -> Nat]
    BY DEF Fits, StoreFits
  <1>1. platform \subseteq platform'
    <2>1. ASSUME NEW w \in Workers, RunOnce(w) \/ CrashWorker(w)
          PROVE  platform \subseteq platform'
      BY <2>1 DEF RunOnce, ScanQueue, ReadLease, TakeLease, ClaimResult, LookAtResult, TakeOver,
         Build, RecordResult, Sync, Complete, Fail, FailRecord, Unclaim, DropResult, Release,
         CrashWorker, data
    <2>2. CASE Others
      BY <2>2 DEF Others, Publish, Deliver, Trigger, TriggerNewest, TriggerForget, TriggerPut,
         ExpireLease, Abandon, data
    <2> QED BY <2>1, <2>2, NextCases
  <1>2. failures' = failures \/ \E c : failures' = [failures EXCEPT ![c] = @ + 1]
    <2>1. ASSUME NEW w \in Workers, RunOnce(w) \/ CrashWorker(w)
          PROVE  failures' = failures \/ \E c : failures' = [failures EXCEPT ![c] = @ + 1]
      BY <2>1 DEF RunOnce, ScanQueue, ReadLease, TakeLease, ClaimResult, LookAtResult, TakeOver,
         Build, RecordResult, Sync, Complete, Fail, FailRecord, Unclaim, DropResult, Release,
         CrashWorker, history
    <2>2. CASE Others
      BY <2>2 DEF Others, Publish, Deliver, Trigger, TriggerNewest, TriggerForget, TriggerPut,
         ExpireLease, Abandon, history
    <2> QED BY <2>1, <2>2, NextCases
  <1> QED BY <1>0, <1>1, <1>2 DEF Accumulated

LEMMA BackedStays ==
  ASSUME Accumulated, NEW x \in Entry, Backed(x)
  PROVE  x.attempts <= failures'[x.commit]
  <1>1. x.attempts \in Nat /\ x.commit \in Tips
    BY DEF Entry
  <1>2. PICK n, f, g \in Nat : n = x.attempts /\ f = failures[x.commit] /\ g = failures'[x.commit]
                                /\ f <= g
    BY <1>1 DEF Accumulated
  <1> QED BY <1>2 DEF Backed

\* What the others hold stays earned.
LEMMA VerdictFitsStays ==
  ASSUME Fits, Accumulated, NEW v \in Workers, worker'[v] = worker[v], VerdictFits(v)
  PROVE  VerdictFits(v)'
  <1>1. worker[v].todo \in Seq(Entry) /\ worker[v].step \in Steps
    BY WorkerFields DEF Fits
  <1>2. \A i \in 1 .. Len(worker[v].todo) :
            worker[v].todo[i].attempts <= failures'[worker[v].todo[i].commit]
    BY <1>1, BackedStays DEF VerdictFits
  <1>3. CASE worker[v].step \in Searching
    BY <1>2, <1>3 DEF VerdictFits, Backed, Searching
  <1>4. CASE worker[v].step \notin Searching
    <2>1. worker[v].work \in Entry /\ worker[v].work.commit \in Tips
          /\ worker[v].work.attempts \in Nat
      BY <1>4 DEF Fits, WorkersFit, WorkerFits, Entry
    <2>2. worker[v].work.attempts <= failures'[worker[v].work.commit]
      BY <1>4, <2>1, BackedStays DEF VerdictFits
    <2>3. PICK n, f, g \in Nat : /\ n = worker[v].work.attempts
                                 /\ f = failures[worker[v].work.commit]
                                 /\ g = failures'[worker[v].work.commit] /\ f <= g
      BY <2>1 DEF Accumulated
    <2>4. worker[v].step = "fail" => n + 1 <= g
      BY <2>3 DEF VerdictFits
    <2>5. worker[v].step = "fail_record" => g >= MaxAttempts
      BY <2>3, BuildQueueAssumption DEF VerdictFits
    <2>6. worker[v].step = "complete" =>
            <<worker[v].work.env, worker[v].work.commit>> \in platform'
      BY DEF VerdictFits, Accumulated
    <2> QED BY <1>2, <2>2, <2>3, <2>4, <2>5, <2>6 DEF VerdictFits, Backed
  <1> QED BY <1>3, <1>4

\* A worker that moved on with nothing new to write.
LEMMA VerdictMoves ==
  ASSUME Fits, WorkersFit', Accumulated, NEW w \in Workers, VerdictFits(w),
         \A i \in 1 .. Len(worker'[w].todo) : Backed(worker'[w].todo[i])
                                              /\ worker'[w].todo[i] \in Entry,
         worker'[w].step \notin Searching => Backed(worker'[w].work) /\ worker'[w].work \in Entry,
         worker'[w].step \notin {"fail", "fail_record", "complete"}
  PROVE  VerdictFits(w)'
  <1>1. \A i \in 1 .. Len(worker'[w].todo) :
            worker'[w].todo[i].attempts <= failures'[worker'[w].todo[i].commit]
    BY BackedStays
  <1>2. worker'[w].step \notin Searching =>
            worker'[w].work.attempts <= failures'[worker'[w].work.commit]
    BY BackedStays
  <1> QED BY <1>1, <1>2 DEF VerdictFits, Backed

\* The worker that acts.  A step that goes on with the same entry keeps its
\* todo and its work, and one that ends leaves nothing in hand.
LEMMA OnHand ==
  ASSUME Fits, NEW w \in Workers, NEW step \in Steps \ Searching,
         worker[w].step \notin Searching, Proceed(w, step)
  PROVE  /\ worker'[w].step = step /\ worker'[w].todo = worker[w].todo
         /\ worker'[w].work = worker[w].work /\ worker'[w].version = worker[w].version
         /\ worker'[w].cached = worker[w].cached
  <1>1. worker'[w] = [worker[w] EXCEPT !.step = step] /\ worker[w] \in WorkerState
    BY ProceedFits DEF Fits, WorkersFit
  <1> QED BY <1>1 DEF WorkerState

LEMMA OffHand ==
  ASSUME Fits, NEW w \in Workers, Rest(w)
  PROVE  /\ worker'[w].step = "idle" /\ worker'[w].todo = <<>> /\ worker'[w].work = NoEntry
         /\ worker'[w].version = 0
  BY RestFits DEF Fits, Resting

LEMMA VerdictOfWorker ==
  ASSUME VerdictInv, NEW w \in Workers, RunOnce(w) \/ CrashWorker(w)
  PROVE  VerdictFits(w)'
  <1>0. Fits /\ VerdictFits(w) /\ Accumulated /\ Fits' /\ WorkersFit /\ WorkersFit'
    <2>1. QueueNext
      BY NextCases
    <2>2. Fits /\ VerdictFits(w)
      BY DEF VerdictInv
    <2> QED BY <2>1, <2>2, FailuresAccumulate, FitsStep DEF Fits
  <1>t. worker[w].todo \in Seq(Entry)
    BY <1>0, WorkerFields
  <1>b. /\ \A i \in 1 .. Len(worker[w].todo) :
              Backed(worker[w].todo[i]) /\ worker[w].todo[i] \in Entry
        /\ worker[w].step \notin Searching => Backed(worker[w].work)
    BY <1>0, <1>t DEF VerdictFits
  <1>1. ASSUME Rest(w) PROVE VerdictFits(w)'
    BY <1>0, <1>1, OffHand, VerdictMoves DEF Searching
  <1>2. ASSUME worker[w].step \notin Searching,
               NEW step \in Steps \ (Searching \cup {"fail", "fail_record", "complete"}),
               Proceed(w, step)
        PROVE  VerdictFits(w)'
    <2>1. worker'[w].step = step /\ worker'[w].todo = worker[w].todo
          /\ worker'[w].work = worker[w].work
      BY <1>0, <1>2, OnHand
    <2>2. worker[w].work \in Entry
      BY <1>0, <1>2, InHand
    <2> QED BY <1>0, <1>2, <1>b, <2>1, <2>2, VerdictMoves
  <1>3. ASSUME worker[w].step \in {"pick", "take"}, Skip(w) PROVE VerdictFits(w)'
    <2>1. /\ worker'[w].step \in {"idle", "pick"}
          /\ \A i \in 1 .. Len(worker'[w].todo) :
                \E j \in 1 .. Len(worker[w].todo) : worker'[w].todo[i] = worker[w].todo[j]
      BY <1>0, <1>3, SkipFits
    <2> QED BY <1>0, <1>b, <2>1, VerdictMoves DEF Searching
  <1>4. CASE ScanQueue(w)
    <2>1. PICK s \in [1 .. Cardinality(Oldest) -> Oldest] :
              worker' = [worker EXCEPT ![w] = [Resting EXCEPT !.step = "pick", !.todo = s]]
      BY <1>4 DEF ScanQueue
    <2>2. s \in Seq(Entry) /\ \A i \in 1 .. Len(s) : s[i] \in queue
      BY <1>0, <1>4, ScanFinds DEF ScanQueue, Fits
    <2>3. worker'[w].step = "pick" /\ worker'[w].todo = s
      <3>1. worker'[w] = [Resting EXCEPT !.step = "pick", !.todo = s]
        BY <1>0, <2>1 DEF WorkersFit
      <3> QED BY <3>1 DEF Resting
    <2>4. \A i \in 1 .. Len(s) : Backed(s[i]) /\ s[i] \in Entry
      BY <1>0, <2>2 DEF VerdictInv, QueueBacked, Fits, QueueFits
    <2> QED BY <1>0, <2>3, <2>4, VerdictMoves DEF Searching
  <1>5. CASE ReadLease(w)
    <2>1. worker[w].step = "pick"
      BY <1>5 DEF ReadLease
    <2>2. CASE Skip(w)
      BY <1>3, <2>1, <2>2
    <2>3. CASE ~Skip(w)
      <3>1. worker'[w].step = "take" /\ worker'[w].todo = worker[w].todo
        <4>1. worker[w] \in WorkerState /\ worker \in [Workers -> WorkerState]
          BY <1>0 DEF WorkersFit
        <4>2. \E k : worker' = [worker EXCEPT ![w].step = "take", ![w].version = k]
          BY <1>5, <2>3 DEF ReadLease
        <4> QED BY <4>1, <4>2 DEF WorkerState
      <3> QED BY <1>0, <1>b, <3>1, VerdictMoves DEF Searching
    <2> QED BY <2>2, <2>3
  <1>6. CASE TakeLease(w)
    <2>1. worker[w].step = "take"
      BY <1>6 DEF TakeLease
    <2>2. CASE Skip(w)
      BY <1>3, <2>1, <2>2
    <2>3. CASE ~Skip(w)
      <3>1. worker'[w].step = "check" /\ worker'[w].todo = <<>>
            /\ worker'[w].work = Head(worker[w].todo)
        <4>1. worker \in [Workers -> WorkerState]
          BY <1>0 DEF WorkersFit
        <4>2. \E k : worker' = [worker EXCEPT ![w] =
                         [Resting EXCEPT !.step = "check", !.work = Head(worker[w].todo),
                                         !.version = k]]
          BY <1>6, <2>3 DEF TakeLease
        <4>3. \E k : worker'[w] = [Resting EXCEPT !.step = "check",
                                        !.work = Head(worker[w].todo), !.version = k]
          BY <4>1, <4>2
        <4> QED BY <4>3 DEF Resting
      <3>2. worker[w].todo # <<>>
        BY <1>0, <2>1 DEF WorkersFit, WorkerFits
      <3>3. Head(worker[w].todo) \in Entry /\ Backed(Head(worker[w].todo))
        <4>1. Head(worker[w].todo) = worker[w].todo[1] /\ 1 \in 1 .. Len(worker[w].todo)
          BY <1>t, <3>2
        <4> QED BY <1>0, <1>t, <4>1 DEF VerdictFits
      <3> QED BY <1>0, <3>1, <3>3, VerdictMoves DEF Searching
    <2> QED BY <2>2, <2>3
  <1>7. CASE LookAtResult(w)
    <2>1. worker[w].step \notin Searching
      BY <1>7 DEF LookAtResult, Searching
    <2>2. CASE \E step \in {"build", "release", "takeover"} : Proceed(w, step)
      BY <1>2, <2>1, <2>2 DEF Steps, Searching
    <2>3. CASE worker' = [worker EXCEPT ![w].cached = TRUE,
                    ![w].step = IF results[worker[w].work.commit].status = "succeeded"
                                THEN "sync" ELSE "close"]
      <3>1. worker'[w].step \in {"sync", "close"} /\ worker'[w].todo = worker[w].todo
            /\ worker'[w].work = worker[w].work
        BY <1>0, <2>3 DEF WorkersFit, WorkerState
      <3>2. worker[w].work \in Entry
        BY <1>0, <2>1, InHand
      <3> QED BY <1>0, <1>b, <2>1, <3>1, <3>2, VerdictMoves DEF Searching
    <2> QED BY <1>7, <2>2, <2>3 DEF LookAtResult
  <1>8. CASE ClaimResult(w) \/ TakeOver(w) \/ RecordResult(w) \/ Complete(w)
    BY <1>1, <1>2, <1>8 DEF ClaimResult, TakeOver, RecordResult, Complete, Steps, Searching
  <1>9. CASE FailRecord(w) \/ Unclaim(w) \/ DropResult(w) \/ Release(w) \/ CrashWorker(w)
    BY <1>1, <1>2, <1>9 DEF FailRecord, Unclaim, DropResult, Release, CrashWorker,
       Steps, Searching
  <1>f. ASSUME worker[w].step \notin Searching, Proceed(w, "fail"),
               failures' = [failures EXCEPT ![worker[w].work.commit] = @ + 1]
        PROVE  VerdictFits(w)'
    <2>1. worker'[w].step = "fail" /\ worker'[w].todo = worker[w].todo
          /\ worker'[w].work = worker[w].work
      BY <1>0, <1>f, OnHand DEF Steps, Searching
    <2>2. worker[w].work \in Entry /\ Backed(worker[w].work)
      BY <1>0, <1>f, InHand DEF VerdictFits
    <2>3. worker[w].work.attempts + 1 <= failures'[worker[w].work.commit]
      <3>1. worker[w].work.attempts \in Nat /\ worker[w].work.commit \in Tips
        BY <2>2 DEF Entry
      <3>2. failures'[worker[w].work.commit] = failures[worker[w].work.commit] + 1
            /\ failures[worker[w].work.commit] \in Nat
        BY <1>0, <1>f, <3>1 DEF Fits, StoreFits
      <3>3. PICK n, f \in Nat : /\ n = worker[w].work.attempts
                                /\ f = failures[worker[w].work.commit] /\ n <= f
        BY <2>2, <3>1, <3>2 DEF Backed
      <3> QED BY <3>2, <3>3
    <2>4. \A i \in 1 .. Len(worker[w].todo) :
            worker[w].todo[i].attempts <= failures'[worker[w].todo[i].commit]
      BY <1>0, <1>t, BackedStays DEF VerdictFits
    <2>5. worker[w].work.attempts <= failures'[worker[w].work.commit]
      BY <1>0, <2>2, BackedStays
    <2> QED BY <2>1, <2>3, <2>4, <2>5 DEF VerdictFits, Backed
  <1>10. CASE Build(w)
    <2>1. worker[w].step \notin Searching
      BY <1>10 DEF Build, Searching
    <2> QED BY <1>2, <1>f, <1>10, <2>1 DEF Build, Steps, Searching
  <1>11. CASE Sync(w)
    <2>1. worker[w].step \notin Searching
      BY <1>11 DEF Sync, Searching
    <2>2. CASE Proceed(w, "complete")
               /\ platform' = platform \cup {<<worker[w].work.env, worker[w].work.commit>>}
      <3>1. worker'[w].step = "complete" /\ worker'[w].todo = worker[w].todo
            /\ worker'[w].work = worker[w].work
        BY <1>0, <2>1, <2>2, OnHand DEF Steps, Searching
      <3>2. worker[w].work \in Entry /\ Backed(worker[w].work)
        BY <1>0, <2>1, InHand DEF VerdictFits
      <3>3. \A i \in 1 .. Len(worker[w].todo) :
              worker[w].todo[i].attempts <= failures'[worker[w].todo[i].commit]
        BY <1>0, <1>t, BackedStays DEF VerdictFits
      <3>4. worker[w].work.attempts <= failures'[worker[w].work.commit]
        BY <1>0, <3>2, BackedStays
      <3> QED BY <2>2, <3>1, <3>3, <3>4 DEF VerdictFits, Backed
    <2> QED BY <1>1, <1>f, <1>11, <2>1, <2>2 DEF Sync
  <1>12. CASE Fail(w)
    <2>1. worker[w].step \notin Searching /\ worker[w].step = "fail"
      BY <1>12 DEF Fail, Searching
    <2>2. CASE Proceed(w, "fail_record") /\ Exhausted(worker[w].work.attempts + 1)
      <3>1. worker'[w].step = "fail_record" /\ worker'[w].todo = worker[w].todo
            /\ worker'[w].work = worker[w].work
        BY <1>0, <2>1, <2>2, OnHand DEF Steps, Searching
      <3>2. worker[w].work \in Entry /\ Backed(worker[w].work)
        BY <1>0, <2>1, InHand DEF VerdictFits
      <3>3. \A i \in 1 .. Len(worker[w].todo) :
              worker[w].todo[i].attempts <= failures'[worker[w].todo[i].commit]
        BY <1>0, <1>t, BackedStays DEF VerdictFits
      <3>4. worker[w].work.attempts <= failures'[worker[w].work.commit]
        BY <1>0, <3>2, BackedStays
      <3>5. failures'[worker[w].work.commit] >= MaxAttempts
        <4>1. PICK n, f, g \in Nat : /\ n = worker[w].work.attempts
                                     /\ f = failures[worker[w].work.commit]
                                     /\ g = failures'[worker[w].work.commit] /\ f <= g
          BY <1>0, <3>2 DEF Entry, Accumulated
        <4>2. n + 1 <= f /\ n + 1 >= MaxAttempts /\ MaxAttempts \in Nat
          BY <1>0, <2>1, <2>2, <4>1, BuildQueueAssumption DEF VerdictFits, Exhausted
        <4> QED BY <4>1, <4>2
      <3> QED BY <3>1, <3>3, <3>4, <3>5 DEF VerdictFits, Backed
    <2>3. CASE Proceed(w, "unclaim")
      BY <1>2, <2>1, <2>3 DEF Steps, Searching
    <2>4. [worker[w].work EXCEPT !.attempts = @ + 1].attempts = worker[w].work.attempts + 1
      <3>1. worker[w].work \in Entry
        BY <1>0, <2>1, InHand
      <3> QED BY <3>1 DEF Entry
    <2> QED BY <1>1, <1>12, <2>2, <2>3, <2>4 DEF Fail
  <1> QED BY <1>4, <1>5, <1>6, <1>7, <1>8, <1>9, <1>10, <1>11, <1>12 DEF RunOnce

\* The queue, the results and the notes under a worker's step.
LEMMA VerdictOfStore ==
  ASSUME VerdictInv, NEW w \in Workers, RunOnce(w) \/ CrashWorker(w)
  PROVE  QueueBacked' /\ VerdictsEarned'
  <1>0. Fits /\ VerdictFits(w) /\ Accumulated /\ WorkersFit /\ QueueBacked /\ VerdictsEarned
    <2>1. QueueNext
      BY NextCases
    <2> QED BY <2>1, FailuresAccumulate DEF VerdictInv, Fits
  <1>q. queue \subseteq Entry /\ results \in [Tips -> Result] /\ MaxAttempts \in Nat
    BY <1>0, BuildQueueAssumption DEF Fits, QueueFits, StoreFits
  <1>1. ASSUME queue' \subseteq queue PROVE QueueBacked'
    <2>1. \A x \in queue : x.attempts <= failures'[x.commit]
      BY <1>0, <1>q, BackedStays DEF QueueBacked
    <2> QED BY <1>1, <2>1 DEF QueueBacked, Backed
  <1>2. ASSUME \A c \in Tips : results'[c].status = "failed" =>
                  results[c].status = "failed" \/ failures'[c] >= MaxAttempts
        PROVE  FailedAfterRetries'
    <2> SUFFICES ASSUME NEW c \in Tips, results'[c].status = "failed"
                 PROVE  failures'[c] >= MaxAttempts
      BY DEF FailedAfterRetries
    <2>1. CASE results[c].status = "failed"
      <3>1. PICK f, g \in Nat : f = failures[c] /\ g = failures'[c] /\ f <= g
        BY <1>0 DEF Accumulated
      <3>2. f >= MaxAttempts
        BY <1>0, <2>1, <3>1 DEF VerdictsEarned, FailedAfterRetries
      <3> QED BY <1>q, <3>1, <3>2
    <2> QED BY <1>2, <2>1
  <1>3. FailedAfterRetries'
    <2>1. CASE results' = results \/ \E c, r : r.status # "failed"
                                            /\ results' = [results EXCEPT ![c] = r]
      BY <1>2, <1>q, <2>1
    <2>2. CASE FailRecord(w)
      <3>1. worker[w].step = "fail_record" /\ worker[w].step \notin Searching
        BY <2>2 DEF FailRecord, Searching
      <3>2. worker[w].work.commit \in Tips /\ failures[worker[w].work.commit] >= MaxAttempts
            /\ failures' = failures
        BY <1>0, <2>2, <3>1, InHand DEF VerdictFits, FailRecord, history
      <3>3. results' = [results EXCEPT ![worker[w].work.commit] = Terminated("failed")]
        BY <2>2 DEF FailRecord
      <3>4. \A c \in Tips : results'[c].status = "failed" =>
                  results[c].status = "failed" \/ failures'[c] >= MaxAttempts
        BY <1>q, <3>2, <3>3
      <3> QED BY <1>2, <3>4
    <2>3. CASE ClaimResult(w) \/ TakeOver(w) \/ RecordResult(w) \/ DropResult(w)
      <3>1. /\ Running.status # "failed" /\ Terminated("succeeded").status # "failed"
            /\ NoResult.status # "failed"
        BY DEF Running, Terminated, NoResult
      <3>2. results' = results \/ \E c, r : r.status # "failed"
                                            /\ results' = [results EXCEPT ![c] = r]
        BY <2>3, <3>1 DEF ClaimResult, TakeOver, RecordResult, DropResult
      <3> QED BY <2>1, <3>2
    <2>4. CASE ScanQueue(w) \/ ReadLease(w) \/ TakeLease(w) \/ LookAtResult(w) \/ Build(w)
               \/ Sync(w) \/ Complete(w) \/ Fail(w) \/ Unclaim(w) \/ Release(w) \/ CrashWorker(w)
      <3>1. results' = results
        BY <2>4 DEF ScanQueue, ReadLease, TakeLease, LookAtResult, Build, Sync, Complete, Fail,
           Unclaim, Release, CrashWorker, data
      <3> QED BY <2>1, <3>1
    <2> QED BY <2>2, <2>3, <2>4 DEF RunOnce
  <1>4. NotedIsSynced'
    <2>1. CASE notes' = notes
      BY <1>0, <2>1 DEF VerdictsEarned, NotedIsSynced, Accumulated
    <2>2. CASE Complete(w)
      <3>1. \/ notes' = notes
            \/ /\ notes' = notes \cup {<<worker[w].work.env, worker[w].work.commit>>}
               /\ worker[w].step = "complete"
        BY <2>2 DEF Complete
      <3> QED BY <1>0, <2>1, <3>1 DEF VerdictsEarned, NotedIsSynced, Accumulated, VerdictFits
    <2>3. CASE ~Complete(w)
      <3>1. notes' = notes
        BY <2>3 DEF RunOnce, ScanQueue, ReadLease, TakeLease, ClaimResult, LookAtResult,
           TakeOver, Build, RecordResult, Sync, Fail, FailRecord, Unclaim, DropResult,
           Release, CrashWorker, data
      <3> QED BY <2>1, <3>1
    <2> QED BY <2>2, <2>3
  <1>5. QueueBacked'
    <2>1. CASE Fail(w)
      <3> DEFINE x == worker[w].work
                 y == [x EXCEPT !.attempts = @ + 1]
      <3>1. worker[w].step = "fail" /\ worker[w].step \notin Searching
        BY <2>1 DEF Fail, Searching
      <3>2. x \in Entry /\ failures' = failures /\ x.attempts + 1 <= failures[x.commit]
        BY <1>0, <2>1, <3>1, InHand DEF VerdictFits, Fail, history
      <3>3. y.attempts = x.attempts + 1 /\ y.commit = x.commit
        BY <3>2 DEF Entry
      <3>4. queue' = queue \/ queue' = WithoutEntry(x) \/ queue' = WithoutEntry(x) \cup {y}
        BY <2>1 DEF Fail
      <3>5. WithoutEntry(x) \subseteq queue
        BY DEF WithoutEntry
      <3> HIDE DEF x, y
      <3>6. CASE queue' = WithoutEntry(x) \cup {y}
        <4>1. \A z \in WithoutEntry(x) : z.attempts <= failures'[z.commit]
          BY <1>0, <1>q, <3>5, BackedStays DEF QueueBacked
        <4>2. y.attempts <= failures'[y.commit]
          BY <3>2, <3>3 DEF x, y
        <4> QED BY <3>6, <4>1, <4>2 DEF QueueBacked, Backed
      <3> QED BY <1>1, <3>4, <3>5, <3>6
    <2>2. CASE ~Fail(w)
      <3>1. queue' \subseteq queue
        BY <2>2 DEF RunOnce, ScanQueue, ReadLease, TakeLease, ClaimResult, LookAtResult,
           TakeOver, Build, RecordResult, Sync, Complete, FailRecord, Unclaim, DropResult,
           Release, CrashWorker, data, WithoutEntry
      <3> QED BY <1>1, <3>1
    <2> QED BY <2>1, <2>2
  <1> QED BY <1>3, <1>4, <1>5 DEF VerdictsEarned

LEMMA VerdictOfOthers ==
  ASSUME VerdictInv, Others
  PROVE  QueueBacked' /\ VerdictsEarned'
  <1>0. Fits /\ QueueBacked /\ VerdictsEarned /\ failures \in [Tips -> Nat] /\ queue \subseteq Entry
    BY DEF VerdictInv, Fits, StoreFits, QueueFits
  <1>1. UNCHANGED <<failures, notes, platform>>
    BY DEF Others, Publish, Deliver, Trigger, TriggerNewest, TriggerForget, TriggerPut,
       ExpireLease, Abandon, data, history
  <1>2. \A c \in Tips : results'[c].status = "failed" => results[c].status = "failed"
    <2>1. results \in [Tips -> Result]
      BY <1>0 DEF Fits, StoreFits
    <2>2. CASE UNCHANGED results
      BY <2>2
    <2>3. CASE TriggerForget
      <3>1. NoResult.status # "failed"
        BY DEF NoResult
      <3> QED BY <2>1, <2>3, <3>1 DEF TriggerForget
    <2>4. ASSUME NEW c \in Tips, Abandon(c)
          PROVE  \A d \in Tips : results'[d].status = "failed" => results[d].status = "failed"
      BY <2>1, <2>4 DEF Abandon, Result
    <2> QED BY <2>2, <2>3, <2>4 DEF Others, Publish, Deliver, Trigger, TriggerNewest,
       TriggerPut, ExpireLease, data
  <1>3. QueueBacked'
    <2>1. ASSUME NEW e, NEW n, NEW c \in Tips, PutEntry(e, n, c)
          PROVE  QueueBacked'
      <3> DEFINE y == [env |-> e, op |-> n, commit |-> c, attempts |-> 0, at |-> arrivals]
      <3>1. queue' = queue \/ queue' = queue \cup {y}
        BY <2>1 DEF PutEntry
      <3>2. y.attempts = 0 /\ y.commit = c /\ 0 <= failures'[c]
        BY <1>0, <1>1
      <3> HIDE DEF y
      <3> QED BY <1>0, <1>1, <3>1, <3>2 DEF QueueBacked, Backed
    <2>2. CASE UNCHANGED queue
      BY <1>0, <1>1, <2>2 DEF QueueBacked, Backed
    <2>3. ASSUME NEW x \in Published, Deliver(x[1], x[2])
          PROVE  QueueBacked'
      <3>1. published[x[1]][x[2]] \in Tips
        <4>1. x \in Envs \X (1 .. MaxOps) /\ x[2] \in DOMAIN published[x[1]]
          BY DEF Published
        <4>2. published[x[1]] \in Seq(Tips)
          BY <1>0, <4>1 DEF Fits, StoreFits
        <4> QED BY <4>1, <4>2
      <3> QED BY <2>1, <2>3, <3>1 DEF Deliver
    <2>4. CASE TriggerPut
      <3>1. rerun.commit \in Tips
        BY <1>0, <2>4 DEF TriggerPut, Fits, RerunFits
      <3> QED BY <2>1, <2>4, <3>1 DEF TriggerPut
    <2> QED BY <2>2, <2>3, <2>4 DEF Others, Publish, Trigger, TriggerNewest, TriggerForget,
         ExpireLease, Abandon, data
  <1> QED BY <1>0, <1>1, <1>2, <1>3 DEF VerdictsEarned, FailedAfterRetries, NotedIsSynced

LEMMA VerdictStep == VerdictInv /\ [QueueNext]_queueVars => VerdictInv'
  <1> SUFFICES ASSUME VerdictInv, [QueueNext]_queueVars PROVE VerdictInv'
    OBVIOUS
  <1>0. Fits /\ Fits' /\ \A w \in Workers : VerdictFits(w)
    BY FitsStep DEF VerdictInv
  <1>1. ASSUME NEW w \in Workers, RunOnce(w) \/ CrashWorker(w) PROVE VerdictInv'
    <2>1. Accumulated
      <3>1. QueueNext
        BY <1>1, NextCases
      <3> QED BY <1>0, <3>1, FailuresAccumulate
    <2>2. \A v \in Workers : v # w => worker'[v] = worker[v]
      BY <1>0, <1>1, WorkerStepFits DEF Moved
    <2>3. \A v \in Workers : VerdictFits(v)'
      BY <1>0, <1>1, <2>1, <2>2, VerdictFitsStays, VerdictOfWorker
    <2>4. QueueBacked' /\ VerdictsEarned'
      BY <1>1, VerdictOfStore
    <2> QED BY <1>0, <2>3, <2>4 DEF VerdictInv
  <1>2. CASE Others
    <2>1. Accumulated
      <3>1. QueueNext
        BY <1>2, NextCases
      <3> QED BY <1>0, <3>1, FailuresAccumulate
    <2>2. \A v \in Workers : VerdictFits(v)'
      BY <1>0, <1>2, <2>1, OthersLeaveWorkers, VerdictFitsStays
    <2>3. QueueBacked' /\ VerdictsEarned'
      BY <1>2, VerdictOfOthers
    <2> QED BY <1>0, <2>2, <2>3 DEF VerdictInv
  <1>3. CASE UNCHANGED queueVars
    BY <1>0, <1>3 DEF queueVars, data, history, VerdictInv, VerdictFits, QueueBacked, Backed,
       VerdictsEarned, FailedAfterRetries, NotedIsSynced
  <1> QED BY <1>1, <1>2, <1>3, NextCases

\* A commit is reported failed (queue.fail, pipeline._give_up) only when
\* MaxAttempts of its builds or syncs have failed, and a sync is noted
\* (queue.complete) only when the platform took the version: through any
\* interleaving, any deaths, outages, repeated deliveries and rebuilds.
THEOREM VerdictsAreEarned == QueueSpec => []VerdictsEarned
  <1>1. QueueInit => VerdictInv
    <2> SUFFICES ASSUME QueueInit PROVE VerdictInv
      OBVIOUS
    <2>1. Fits
      BY FitsInit
    <2>2. \A w \in Workers : VerdictFits(w)
      BY DEF QueueInit, VerdictFits, Resting, Searching
    <2>3. QueueBacked /\ VerdictsEarned
      BY DEF QueueInit, QueueBacked, VerdictsEarned, FailedAfterRetries, NotedIsSynced, NoResult
    <2> QED BY <2>1, <2>2, <2>3 DEF VerdictInv
  <1>2. VerdictInv /\ [QueueNext]_queueVars => VerdictInv'
    BY VerdictStep
  <1>3. VerdictInv => VerdictsEarned
    BY DEF VerdictInv
  <1> QED BY <1>1, <1>2, <1>3, PTL DEF QueueSpec
-----------------------------------------------------------------------------
\* One owner at a time

\* A worker that owns an environment holds its lease, live, in its own name and
\* at the version it was claimed at, unless one was taken by mistake.
HasLease(w) ==
    LET e == worker[w].work.env
    IN  lease[e].live /\ lease[e].by = w /\ lease[e].version = worker[w].version

After == {"fail_record", "unclaim", "drop"}

OwnerFits(w) ==
    worker[w].step \notin Searching \cup After /\ worker[w].work.env \notin mistaken
    => HasLease(w)

OwnerInv == Fits /\ \A w \in Workers : OwnerFits(w)

LEMMA OwnersAreApart == OwnerInv => OneOwner
  <1> SUFFICES ASSUME OwnerInv, NEW e \in Envs \ mistaken, NEW v \in Workers, NEW w \in Workers,
                      Owns(v, e), Owns(w, e)
               PROVE  v = w
    BY DEF OneOwner
  <1>1. ASSUME NEW u \in Workers, Owns(u, e)
        PROVE  lease[e].by = u
    <2>1. worker[u].work.env = e /\ worker[u].work # NoEntry
      BY <1>1, BuildQueueAssumption DEF Owns, Working, NoEntry
    <2>2. worker[u].step \notin Searching
      BY <2>1 DEF OwnerInv, Fits, WorkersFit, WorkerFits
    <2> QED BY <1>1, <2>1, <2>2 DEF Owns, Working, OwnerInv, OwnerFits, HasLease, After
  <1> QED BY <1>1

\* What was taken by mistake stays on record.
LEMMA MistakesStay ==
  ASSUME NEW w \in Workers, RunOnce(w) \/ CrashWorker(w) PROVE mistaken \subseteq mistaken'
  <1>1. CASE TakeLease(w) \/ TakeOver(w)
    BY <1>1 DEF TakeLease, TakeOver, Mistaken
  <1>2. CASE ScanQueue(w) \/ ReadLease(w) \/ ClaimResult(w) \/ LookAtResult(w)
    BY <1>2 DEF ScanQueue, ReadLease, ClaimResult, LookAtResult, history
  <1>3. CASE Build(w) \/ RecordResult(w) \/ Sync(w) \/ Complete(w) \/ Fail(w)
    BY <1>3 DEF Build, RecordResult, Sync, Complete, Fail, history
  <1>4. CASE FailRecord(w) \/ Unclaim(w) \/ DropResult(w) \/ Release(w) \/ CrashWorker(w)
    BY <1>4 DEF FailRecord, Unclaim, DropResult, Release, CrashWorker, history
  <1> QED BY <1>1, <1>2, <1>3, <1>4 DEF RunOnce

\* The lease of one environment changes, and another worker's stays.
LEMMA OwnerFitsStays ==
  ASSUME NEW v \in Workers, OwnerFits(v), worker'[v] = worker[v], mistaken \subseteq mistaken',
         worker[v].step \notin Searching \cup After /\ worker[v].work.env \notin mistaken' =>
            lease'[worker[v].work.env] = lease[worker[v].work.env]
  PROVE  OwnerFits(v)'
  BY DEF OwnerFits, HasLease

LEMMA OwnerOfWorker ==
  ASSUME OwnerInv, NEW w \in Workers, RunOnce(w) \/ CrashWorker(w)
  PROVE  \A v \in Workers : OwnerFits(v)'
  <1>0. /\ Fits /\ OwnerFits(w) /\ WorkersFit /\ lease \in [Envs -> LeaseItem \cup {NoLease}]
        /\ mistaken \subseteq mistaken'
    BY MistakesStay DEF OwnerInv, Fits, StoreFits
  <1>o. \A v \in Workers : v # w => worker'[v] = worker[v]
    BY <1>0, WorkerStepFits DEF Moved
  <1>1. ASSUME lease' = lease, OwnerFits(w)' PROVE \A v \in Workers : OwnerFits(v)'
    BY <1>0, <1>1, <1>o, OwnerFitsStays DEF OwnerInv
  <1>2. ASSUME Rest(w) PROVE OwnerFits(w)'
    BY <1>0, <1>2, OffHand DEF OwnerFits, Searching
  <1>3. ASSUME worker[w].step \notin Searching \cup After,
               lease' = lease, NEW step \in Steps \ Searching, Proceed(w, step)
        PROVE  OwnerFits(w)'
    <2>1. worker'[w].step = step /\ worker'[w].work = worker[w].work
          /\ worker'[w].version = worker[w].version
      BY <1>0, <1>3, OnHand
    <2> QED BY <1>0, <1>3, <2>1 DEF OwnerFits, HasLease, Searching
  <1>4. ASSUME NEW step \in After, Proceed(w, step), worker[w].step \notin Searching
        PROVE  OwnerFits(w)'
    <2>1. worker'[w].step = step
      BY <1>0, <1>4, OnHand DEF Steps, Searching, After
    <2> QED BY <2>1 DEF OwnerFits
  <1>5. ASSUME Skip(w), worker[w].step \in {"pick", "take"} PROVE OwnerFits(w)'
    <2>1. worker'[w].step \in {"idle", "pick"}
      BY <1>0, <1>5, SkipFits
    <2> QED BY <2>1 DEF OwnerFits, Searching
  <1>6. ASSUME worker[w].step \notin Searching \cup After, HoldsLease(w), lease' = Freed(w)
        PROVE  \A v \in Workers : v # w => OwnerFits(v)'
    <2> SUFFICES ASSUME NEW v \in Workers, v # w PROVE OwnerFits(v)'
      OBVIOUS
    <2> DEFINE e == worker[v].work.env
    <2>1. worker[w].work.env \notin mistaken => lease[worker[w].work.env].by = w
      BY <1>0, <1>6 DEF OwnerFits, HasLease
    <2>2. worker[v].step \notin Searching \cup After /\ e \notin mistaken => lease[e].by = v
      BY DEF OwnerInv, OwnerFits, HasLease
    <2>3. worker[v].step \notin Searching \cup After /\ e \notin mistaken
          => e # worker[w].work.env
      BY <2>1, <2>2
    <2>4. worker[v].step \notin Searching => e \in Envs
      BY <1>0, InHand
    <2>5. worker[v].step \notin Searching \cup After /\ e \notin mistaken'
          => lease'[e] = lease[e]
      BY <1>0, <1>6, <2>3, <2>4 DEF Freed
    <2> QED BY <1>0, <1>o, <2>5, OwnerFitsStays DEF OwnerInv
  <1>7. CASE ScanQueue(w)
    <2>1. worker'[w].step = "pick"
      <3>1. \E s : worker' = [worker EXCEPT ![w] = [Resting EXCEPT !.step = "pick", !.todo = s]]
        BY <1>7 DEF ScanQueue
      <3>2. \E s : worker'[w] = [Resting EXCEPT !.step = "pick", !.todo = s]
        BY <1>0, <3>1 DEF WorkersFit
      <3> QED BY <3>2 DEF Resting
    <2>2. lease' = lease
      BY <1>7 DEF ScanQueue, data
    <2> QED BY <1>1, <2>1, <2>2 DEF OwnerFits, Searching
  <1>8. CASE ReadLease(w)
    <2>1. lease' = lease /\ worker[w].step = "pick"
      BY <1>8 DEF ReadLease, data
    <2>2. CASE Skip(w)
      BY <1>1, <1>5, <2>1, <2>2
    <2>3. CASE ~Skip(w)
      <3>1. worker'[w].step = "take"
        <4>1. \E n : worker' = [worker EXCEPT ![w].step = "take", ![w].version = n]
          BY <1>8, <2>3 DEF ReadLease
        <4> QED BY <1>0, <4>1 DEF WorkersFit, WorkerState
      <3> QED BY <1>1, <2>1, <3>1 DEF OwnerFits, Searching
    <2> QED BY <2>2, <2>3
  <1>9. CASE TakeLease(w)
    <2> DEFINE h == Head(worker[w].todo)
               n == worker[w].version + 1
    <2>1. worker[w].step = "take"
      BY <1>9 DEF TakeLease
    <2>2. CASE lease' = lease /\ Skip(w)
      BY <1>1, <1>5, <2>1, <2>2
    <2>3. CASE ~(lease' = lease /\ Skip(w))
      <3>1. /\ lease[h.env].version = worker[w].version
            /\ lease' = [lease EXCEPT ![h.env] = [version |-> n, live |-> TRUE, by |-> w]]
            /\ worker' = [worker EXCEPT ![w] =
                            [Resting EXCEPT !.step = "check", !.work = h, !.version = n]]
            /\ mistaken' = Mistaken(w)
        BY <1>9, <2>3 DEF TakeLease
      <3>2. h.env \in Envs
        <4>1. worker[w].todo \in Seq(Entry) /\ worker[w].todo # <<>>
          BY <1>0, <2>1 DEF WorkersFit, WorkerFits, WorkerState
        <4>2. h \in Entry
          BY <4>1
        <4> HIDE DEF h
        <4> QED BY <4>2 DEF Entry
      <3>3. lease[h.env].live => h.env \in mistaken'
        BY <3>1 DEF Mistaken
      <3> HIDE DEF h, n
      <3>4. worker'[w].step = "check" /\ worker'[w].work = h /\ worker'[w].version = n
        <4>1. worker'[w] = [Resting EXCEPT !.step = "check", !.work = h, !.version = n]
          BY <1>0, <3>1 DEF WorkersFit
        <4> QED BY <4>1 DEF Resting
      <3>5. lease'[h.env] = [version |-> n, live |-> TRUE, by |-> w]
        BY <1>0, <3>1, <3>2
      <3>6. OwnerFits(w)'
        BY <3>4, <3>5 DEF OwnerFits, HasLease
      <3>7. ASSUME NEW v \in Workers, v # w PROVE OwnerFits(v)'
        <4> DEFINE e == worker[v].work.env
        <4>1. worker[v].step \notin Searching => e \in Envs
          BY <1>0, InHand
        <4>2. worker[v].step \notin Searching \cup After /\ e \notin mistaken => lease[e].live
          BY DEF OwnerInv, OwnerFits, HasLease
        <4>3. worker[v].step \notin Searching \cup After /\ e \notin mistaken' => e # h.env
          BY <1>0, <3>3, <4>2
        <4>4. worker[v].step \notin Searching \cup After /\ e \notin mistaken'
              => lease'[e] = lease[e]
          BY <1>0, <3>1, <4>1, <4>3
        <4> QED BY <1>0, <1>o, <3>7, <4>4, OwnerFitsStays DEF OwnerInv
      <3> QED BY <3>6, <3>7
    <2> QED BY <2>2, <2>3
  <1>10. CASE LookAtResult(w)
    <2>1. lease' = lease /\ worker[w].step = "look"
      BY <1>10 DEF LookAtResult, data
    <2>2. CASE \E step \in {"build", "release", "takeover"} : Proceed(w, step)
      BY <1>1, <1>3, <2>1, <2>2 DEF Steps, Searching, After
    <2>3. CASE worker' = [worker EXCEPT ![w].cached = TRUE,
                    ![w].step = IF results[worker[w].work.commit].status = "succeeded"
                                THEN "sync" ELSE "close"]
      <3>1. worker'[w].step \in {"sync", "close"} /\ worker'[w].version = worker[w].version
            /\ worker'[w].work = worker[w].work
        BY <1>0, <2>3 DEF WorkersFit, WorkerState
      <3> QED BY <1>0, <1>1, <2>1, <3>1 DEF OwnerFits, HasLease, Searching, After
    <2> QED BY <1>10, <2>2, <2>3 DEF LookAtResult
  <1>11. CASE ClaimResult(w) \/ TakeOver(w) \/ Build(w) \/ RecordResult(w) \/ Sync(w)
    <2>1. lease' = lease
      BY <1>11 DEF ClaimResult, TakeOver, Build, RecordResult, Sync, data
    <2> QED BY <1>1, <1>2, <1>3, <1>11, <2>1
        DEF ClaimResult, TakeOver, Build, RecordResult, Sync, Steps, Searching, After
  <1>12. CASE FailRecord(w) \/ Unclaim(w) \/ DropResult(w) \/ CrashWorker(w)
    <2>1. lease' = lease
      BY <1>12 DEF FailRecord, Unclaim, DropResult, CrashWorker, data
    <2> QED BY <1>1, <1>2, <1>4, <1>12, <2>1
        DEF FailRecord, Unclaim, DropResult, CrashWorker, Searching, After
  <1>13. CASE Complete(w) \/ Fail(w) \/ Release(w)
    <2>1. worker[w].step \notin Searching \cup After
      BY <1>13 DEF Complete, Fail, Release, Searching, After
    <2>2. lease' = lease \/ (HoldsLease(w) /\ lease' = Freed(w))
      <3>1. CASE Complete(w)
        BY <3>1 DEF Complete
      <3>2. CASE Fail(w)
        BY <3>2 DEF Fail
      <3>3. CASE Release(w)
        BY <3>3 DEF Release
      <3> QED BY <1>13, <3>1, <3>2, <3>3
    <2>3. Rest(w) \/ \E step \in {"fail_record", "unclaim"} : Proceed(w, step)
      BY <1>13 DEF Complete, Fail, Release
    <2>4. OwnerFits(w)'
      BY <1>2, <1>4, <2>1, <2>3 DEF After
    <2> QED BY <1>1, <1>6, <2>1, <2>2, <2>4
  <1> QED BY <1>7, <1>8, <1>9, <1>10, <1>11, <1>12, <1>13 DEF RunOnce

LEMMA OwnerStep ==
  ASSUME ~Pauses, OwnerInv, [QueueNext]_queueVars PROVE OwnerInv'
  <1>0. Fits /\ Fits' /\ \A w \in Workers : OwnerFits(w)
    BY FitsStep DEF OwnerInv
  <1>1. ASSUME NEW w \in Workers, RunOnce(w) \/ CrashWorker(w) PROVE OwnerInv'
    BY <1>0, <1>1, OwnerOfWorker DEF OwnerInv
  <1>2. CASE Others
    <2>1. worker' = worker /\ mistaken' = mistaken
      <3>1. mistaken' = mistaken
        BY <1>2 DEF Others, Publish, Deliver, Trigger, TriggerNewest, TriggerForget, TriggerPut,
           ExpireLease, Abandon, history
      <3> QED BY <1>2, <3>1, OthersLeaveWorkers
    <2>2. ASSUME NEW v \in Workers PROVE OwnerFits(v)'
      <3>1. ASSUME NEW e \in Envs, ExpireLease(e) PROVE OwnerFits(v)'
        <4>1. ~Working(v, e) /\ lease' = [lease EXCEPT ![e].live = FALSE]
          BY <3>1 DEF ExpireLease
        <4>2. worker[v].step \notin Searching
              => worker[v].work.env \in Envs /\ worker[v].work.env # e
          BY <1>0, <4>1, InHand DEF Working, Searching, Fits
        <4>3. lease \in [Envs -> LeaseItem \cup {NoLease}]
          BY <1>0 DEF Fits, StoreFits
        <4>4. worker[v].step \notin Searching
              => lease'[worker[v].work.env] = lease[worker[v].work.env]
          BY <4>1, <4>2, <4>3
        <4> QED BY <1>0, <2>1, <4>4, OwnerFitsStays
      <3>2. CASE lease' = lease
        BY <1>0, <2>1, <3>2, OwnerFitsStays
      <3> QED BY <1>2, <3>1, <3>2 DEF Others, Publish, Deliver, Trigger, TriggerNewest,
           TriggerForget, TriggerPut, Abandon, data
    <2> QED BY <1>0, <2>2 DEF OwnerInv
  <1>3. CASE UNCHANGED queueVars
    BY <1>0, <1>3 DEF queueVars, data, history, OwnerInv, OwnerFits, HasLease
  <1> QED BY <1>1, <1>2, <1>3, NextCases

\* As long as no worker is slower than its lease, at most one has an
\* environment, whatever dies, lapses and is taken over, is delivered again,
\* fails or is rebuilt: save where a lease that lapsed was given back and taken
\* anew between a worker's read of it and its put, so that the version it read
\* is there again (_claim, complete, fail and release).
THEOREM OneWorkerPerEnvironment == ~Pauses => (QueueSpec => []OneOwner)
  <1> SUFFICES ASSUME ~Pauses PROVE QueueSpec => []OneOwner
    OBVIOUS
  <1>1. QueueInit => OwnerInv
    BY FitsInit DEF QueueInit, OwnerInv, OwnerFits, Resting, Searching
  <1>2. OwnerInv /\ [QueueNext]_queueVars => OwnerInv'
    BY OwnerStep
  <1>3. OwnerInv => OneOwner
    BY OwnersAreApart
  <1> QED BY <1>1, <1>2, <1>3, PTL DEF QueueSpec
-----------------------------------------------------------------------------
\* One builder at a time, and every build answered

\* No build or sync has failed, and no claim has been abandoned.
NothingFails == \A c \in Tips : failures[c] = 0
NoneAbandoned == \A c \in Tips : results[c].status = "running" => results[c].fresh

\* What a worker knows of its commit's result.
HolderFits(w) ==
    /\ worker[w].step \notin {"takeover", "fail", "fail_record", "drop"}
    /\ worker[w].step \in {"build", "record"} => results[worker[w].work.commit] = Running
    /\ worker[w].step = "look" => results[worker[w].work.commit] # NoResult
    /\ worker[w].step \in {"sync", "complete", "close", "unclaim"} => Terminal(worker[w].work.commit)

\* An entry is of the commit its operation published.
OfItsCommit(x) == x.op \in DOMAIN published[x.env] /\ x.commit = published[x.env][x.op]

EntriesFit ==
    /\ \A x \in queue : OfItsCommit(x)
    /\ \A w \in Workers :
          /\ \A i \in 1 .. Len(worker[w].todo) : OfItsCommit(worker[w].todo[i])
          /\ worker[w].step \notin Searching => OfItsCommit(worker[w].work)

OneHolder ==
    \A v, w \in Workers :
        /\ worker[v].step \in {"build", "record"} /\ worker[w].step \in {"build", "record"}
        /\ worker[v].work.commit = worker[w].work.commit
        => v = w

Answered ==
    \A x \in enqueued : (\E y \in queue : y.env = x[1] /\ y.commit = x[2]) \/ Terminal(x[2])

HolderInv ==
    /\ rerun = NoRerun
    /\ \A w \in Workers : HolderFits(w)
    /\ OneHolder
    /\ EntriesFit
    /\ Answered

BuilderInv == Fits /\ (spent.reruns = 0 => HolderInv)

LEMMA BuildersAreApart == BuilderInv => OneBuilder /\ WorkIsAnswered
  BY DEF BuilderInv, HolderInv, OneHolder, Answered, OneBuilder, Building, WorkIsAnswered

\* What a worker's step does to the results and the queue, while nothing
\* fails and no claim is abandoned: it claims a commit nobody has, writes the
\* success of one it has, or takes off an entry whose commit is answered.
HolderStep(w) ==
    LET c == worker[w].work.commit
        holds == worker[w].step \in {"build", "record"}
    IN  /\ HolderFits(w)'
        /\ \/ /\ results' = results
              /\ worker'[w].step \in {"build", "record"} =>
                    holds /\ worker'[w].work = worker[w].work
           \/ /\ worker[w].step = "check" /\ results[c] = NoResult
              /\ results' = [results EXCEPT ![c] = Running]
              /\ worker'[w].work = worker[w].work
           \/ /\ worker[w].step = "record"
              /\ results' = [results EXCEPT ![c] = Terminated("succeeded")]
              /\ worker'[w].step = "sync"
        /\ \/ queue' = queue
           \/ worker[w].step \notin Searching /\ Terminal(c) /\ queue' = WithoutEntry(worker[w].work)

LEMMA HolderStepTaken ==
  ASSUME Fits, NEW w \in Workers, HolderFits(w), NoneAbandoned, NothingFails',
         RunOnce(w) \/ CrashWorker(w)
  PROVE  HolderStep(w)
  <1> DEFINE c == worker[w].work.commit
  <1>0. WorkersFit /\ results \in [Tips -> Result] /\ failures \in [Tips -> Nat]
    BY DEF Fits, StoreFits
  <1>c. worker[w].step \notin Searching => c \in Tips
    BY <1>0, InHand
  <1>1. ASSUME worker'[w].step \in Searching \cup {"check", "release"},
               results' = results, queue' = queue
        PROVE  HolderStep(w)
    BY <1>1 DEF HolderStep, HolderFits, Searching
  <1>2. ASSUME Rest(w), results' = results,
               \/ queue' = queue
               \/ worker[w].step \notin Searching /\ Terminal(c)
                     /\ queue' = WithoutEntry(worker[w].work)
        PROVE  HolderStep(w)
    <2>1. worker'[w].step = "idle"
      BY <1>2, OffHand
    <2> QED BY <1>2, <2>1 DEF HolderStep, HolderFits, Searching
  <1>3. ASSUME worker[w].step \notin Searching, results' = results, queue' = queue,
               worker'[w].work = worker[w].work, Terminal(c),
               worker'[w].step \in {"sync", "complete", "close", "unclaim"}
        PROVE  HolderStep(w)
    <2>1. Terminal(worker[w].work.commit)'
      BY <1>3 DEF Terminal
    <2>2. HolderFits(w)'
      BY <1>3, <2>1 DEF HolderFits
    <2> QED BY <1>3, <2>2 DEF HolderStep
  <1>4. CASE ScanQueue(w)
    <2>1. worker'[w].step = "pick"
      <3>1. \E s : worker' = [worker EXCEPT ![w] = [Resting EXCEPT !.step = "pick", !.todo = s]]
        BY <1>4 DEF ScanQueue
      <3>2. \E s : worker'[w] = [Resting EXCEPT !.step = "pick", !.todo = s]
        BY <1>0, <3>1 DEF WorkersFit
      <3> QED BY <3>2 DEF Resting
    <2> QED BY <1>1, <1>4, <2>1 DEF ScanQueue, data, Searching
  <1>5. CASE ReadLease(w)
    <2>1. results' = results /\ queue' = queue /\ worker[w].step = "pick"
      BY <1>5 DEF ReadLease, data
    <2>2. CASE Skip(w)
      BY <1>0, <1>1, <2>1, <2>2, SkipFits DEF Searching
    <2>3. CASE ~Skip(w)
      <3>1. \E k : worker' = [worker EXCEPT ![w].step = "take", ![w].version = k]
        BY <1>5, <2>3 DEF ReadLease
      <3>2. worker'[w].step = "take"
        BY <1>0, <3>1 DEF WorkersFit, WorkerState
      <3> QED BY <1>1, <2>1, <3>2 DEF Searching
    <2> QED BY <2>2, <2>3
  <1>6. CASE TakeLease(w)
    <2>1. results' = results /\ queue' = queue /\ worker[w].step = "take"
      BY <1>6 DEF TakeLease
    <2>2. CASE Skip(w)
      BY <1>0, <1>1, <2>1, <2>2, SkipFits DEF Searching
    <2>3. CASE ~Skip(w)
      <3>1. \E h, k : worker' = [worker EXCEPT ![w] =
                         [Resting EXCEPT !.step = "check", !.work = h, !.version = k]]
        BY <1>6, <2>3 DEF TakeLease
      <3>2. \E h, k : worker'[w] = [Resting EXCEPT !.step = "check", !.work = h, !.version = k]
        BY <1>0, <3>1 DEF WorkersFit
      <3>3. worker'[w].step = "check"
        BY <3>2 DEF Resting
      <3> QED BY <1>1, <2>1, <3>3
    <2> QED BY <2>2, <2>3
  <1>7. CASE ClaimResult(w)
    <2>1. worker[w].step = "check" /\ worker[w].step \notin Searching /\ queue' = queue
      BY <1>7 DEF ClaimResult, Searching
    <2>2. CASE results[c] = NoResult
      <3>1. results' = [results EXCEPT ![c] = Running] /\ Proceed(w, "build")
        BY <1>7, <2>2 DEF ClaimResult
      <3>2. worker'[w].step = "build" /\ worker'[w].work = worker[w].work
        BY <2>1, <3>1, OnHand DEF Steps, Searching
      <3>3. results'[worker'[w].work.commit] = Running
        BY <1>0, <1>c, <2>1, <3>1, <3>2
      <3> QED BY <2>1, <2>2, <3>1, <3>2, <3>3 DEF HolderStep, HolderFits
    <2>3. CASE results[c] # NoResult
      <3>1. results' = results /\ Proceed(w, "look")
        BY <1>7, <2>3 DEF ClaimResult
      <3>2. worker'[w].step = "look" /\ worker'[w].work = worker[w].work
        BY <2>1, <3>1, OnHand DEF Steps, Searching
      <3> QED BY <2>1, <2>3, <3>1, <3>2 DEF HolderStep, HolderFits
    <2> QED BY <2>2, <2>3
  <1>8. CASE LookAtResult(w)
    <2>1. /\ worker[w].step = "look" /\ worker[w].step \notin Searching
          /\ results' = results /\ queue' = queue /\ results[c] # NoResult
      BY <1>8 DEF LookAtResult, Searching, data, HolderFits
    <2>2. CASE Proceed(w, "release")
      <3>1. worker'[w].step = "release"
        BY <2>1, <2>2, OnHand DEF Steps, Searching
      <3> QED BY <1>1, <2>1, <3>1
    <2>3. CASE Terminal(c) /\ worker' = [worker EXCEPT ![w].cached = TRUE,
                 ![w].step = IF results[c].status = "succeeded" THEN "sync" ELSE "close"]
      <3>1. worker'[w].step \in {"sync", "close"} /\ worker'[w].work = worker[w].work
        BY <1>0, <2>3 DEF WorkersFit, WorkerState
      <3> QED BY <1>3, <2>1, <2>3, <3>1
    <2>4. ~(results[c].status = "running" /\ ~results[c].fresh)
      BY <1>c, <2>1 DEF NoneAbandoned
    <2> QED BY <1>8, <2>1, <2>2, <2>3, <2>4 DEF LookAtResult
  <1>9. CASE TakeOver(w) \/ Fail(w) \/ FailRecord(w) \/ DropResult(w)
    BY <1>9 DEF TakeOver, Fail, FailRecord, DropResult, HolderFits
  <1>f. ASSUME failures' = [failures EXCEPT ![c] = @ + 1], worker[w].step \notin Searching
        PROVE  FALSE
    BY <1>0, <1>c, <1>f DEF NothingFails
  <1>10. CASE Build(w)
    <2>1. /\ worker[w].step = "build" /\ worker[w].step \notin Searching
          /\ results' = results /\ queue' = queue
      BY <1>10 DEF Build, Searching, data
    <2>2. Proceed(w, "record")
      BY <1>f, <1>10, <2>1 DEF Build
    <2>3. worker'[w].step = "record" /\ worker'[w].work = worker[w].work
      BY <2>1, <2>2, OnHand DEF Steps, Searching
    <2>4. results'[worker'[w].work.commit] = Running
      BY <2>1, <2>3 DEF HolderFits
    <2> QED BY <2>1, <2>3, <2>4 DEF HolderStep, HolderFits
  <1>11. CASE RecordResult(w)
    <2>1. /\ worker[w].step = "record" /\ worker[w].step \notin Searching /\ queue' = queue
          /\ results' = [results EXCEPT ![c] = Terminated("succeeded")] /\ Proceed(w, "sync")
      BY <1>11 DEF RecordResult, Searching
    <2>2. worker'[w].step = "sync" /\ worker'[w].work = worker[w].work
      BY <2>1, OnHand DEF Steps, Searching
    <2>3. results'[worker'[w].work.commit].status = "succeeded"
      BY <1>0, <1>c, <2>1, <2>2 DEF Terminated
    <2>4. HolderFits(w)'
      BY <2>2, <2>3 DEF HolderFits, Terminal
    <2> QED BY <2>1, <2>2, <2>4 DEF HolderStep
  <1>12. CASE Sync(w)
    <2>1. /\ worker[w].step = "sync" /\ worker[w].step \notin Searching
          /\ results' = results /\ queue' = queue /\ Terminal(c)
      BY <1>12 DEF Sync, Searching, HolderFits
    <2>2. CASE Proceed(w, "complete")
      <3>1. worker'[w].step = "complete" /\ worker'[w].work = worker[w].work
        BY <2>1, <2>2, OnHand DEF Steps, Searching
      <3> QED BY <1>3, <2>1, <3>1
    <2>3. CASE Rest(w)
      BY <1>2, <2>1, <2>3
    <2>4. Proceed(w, "complete") \/ Rest(w)
      BY <1>f, <1>12, <2>1 DEF Sync
    <2> QED BY <2>2, <2>3, <2>4
  <1>13. CASE Complete(w)
    <2>1. /\ worker[w].step \notin Searching /\ results' = results /\ Terminal(c)
      BY <1>13 DEF Complete, Searching, HolderFits
    <2>2. CASE Rest(w)
      BY <1>2, <1>13, <2>1, <2>2 DEF Complete
    <2>3. CASE Proceed(w, "unclaim") /\ queue' = queue
      <3>1. worker'[w].step = "unclaim" /\ worker'[w].work = worker[w].work
        BY <2>1, <2>3, OnHand DEF Steps, Searching
      <3> QED BY <1>3, <2>1, <2>3, <3>1
    <2> QED BY <1>13, <2>2, <2>3 DEF Complete
  <1>14. CASE Unclaim(w)
    <2>1. results' = results /\ queue' = queue /\ Terminal(c)
      BY <1>14 DEF Unclaim, data, HolderFits
    <2>2. Rest(w)
      BY <1>14, <2>1 DEF Unclaim, Terminal
    <2> QED BY <1>2, <2>1, <2>2
  <1>15. CASE Release(w) \/ CrashWorker(w)
    BY <1>2, <1>15 DEF Release, CrashWorker, data
  <1> QED BY <1>4, <1>5, <1>6, <1>7, <1>8, <1>9, <1>10, <1>11, <1>12, <1>13, <1>14, <1>15
          DEF RunOnce

\* Everybody's knowledge of the results survives such a step.
LEMMA HoldersStay ==
  ASSUME Fits, HolderInv, NEW w \in Workers, HolderStep(w),
         NEW v \in Workers, v # w, worker'[v] = worker[v]
  PROVE  HolderFits(v)'
  <1> DEFINE c == worker[w].work.commit
             d == worker[v].work.commit
  <1>0. WorkersFit /\ results \in [Tips -> Result] /\ HolderFits(v) /\ HolderFits(w)
    BY DEF Fits, StoreFits, HolderInv
  <1>1. CASE worker[v].step \in Searching
    BY <1>0, <1>1 DEF HolderFits, Searching
  <1>2. CASE worker[v].step \notin Searching
    <2>1. d \in Tips
      BY <1>0, <1>2, InHand
    <2>2. CASE results'[d] = results[d]
      BY <1>0, <2>2 DEF HolderFits, Terminal
    <2>3. CASE results[d] = NoResult
      <3>1. NoResult.status = "none" /\ NoResult # Running
        BY DEF NoResult, Running
      <3>2. worker[v].step \notin {"build", "record", "look", "sync", "complete", "close", "unclaim"}
        BY <1>0, <2>3, <3>1 DEF HolderFits, Terminal
      <3> QED BY <1>0, <3>2 DEF HolderFits
    <2>4. CASE worker[w].step = "record" /\ d = c
               /\ results' = [results EXCEPT ![c] = Terminated("succeeded")]
      <3>1. worker[v].step \notin {"build", "record"}
        BY <2>4 DEF HolderInv, OneHolder
      <3>2. results'[d] = Terminated("succeeded")
        BY <1>0, <2>1, <2>4
      <3>3. results'[d].status = "succeeded" /\ results'[d] # NoResult
        BY <3>2 DEF Terminated, NoResult
      <3> QED BY <1>0, <3>1, <3>3 DEF HolderFits, Terminal
    <2> QED BY <1>0, <2>1, <2>2, <2>3, <2>4 DEF HolderStep
  <1> QED BY <1>1, <1>2

LEMMA HoldersStayApart ==
  ASSUME Fits, HolderInv, NEW w \in Workers, HolderStep(w),
         \A v \in Workers : v # w => worker'[v] = worker[v]
  PROVE  OneHolder'
  <1> DEFINE Holding(v) == worker[v].step \in {"build", "record"}
  <1>1. \A u, v \in Workers :
            Holding(u) /\ Holding(v) /\ worker[u].work.commit = worker[v].work.commit => u = v
    BY DEF HolderInv, OneHolder
  <1>2. ASSUME NEW v \in Workers, v # w, worker'[w].step \in {"build", "record"}, Holding(v),
               worker'[w].work.commit = worker[v].work.commit
        PROVE  FALSE
    <2>1. results[worker[v].work.commit] = Running
      BY <1>2 DEF HolderInv, HolderFits
    <2>2. results[worker[v].work.commit] # NoResult
      BY <2>1 DEF Running, NoResult
    <2>3. Holding(w) /\ worker'[w].work = worker[w].work
      BY <1>2, <2>2 DEF HolderStep
    <2> QED BY <1>1, <1>2, <2>3
  <1> SUFFICES ASSUME NEW u \in Workers, NEW v \in Workers, u # v,
                      worker'[u].step \in {"build", "record"},
                      worker'[v].step \in {"build", "record"},
                      worker'[u].work.commit = worker'[v].work.commit
               PROVE  FALSE
    BY DEF OneHolder
  <1>3. CASE u = w
    BY <1>2, <1>3
  <1>4. CASE v = w
    BY <1>2, <1>4
  <1>5. CASE u # w /\ v # w
    BY <1>1, <1>5
  <1> QED BY <1>3, <1>4, <1>5

LEMMA AnswersStay ==
  ASSUME Fits, HolderInv, NEW w \in Workers, HolderStep(w), UNCHANGED enqueued
  PROVE  Answered'
  <1>0. WorkersFit /\ results \in [Tips -> Result] /\ enqueued \subseteq Envs \X Tips
        /\ HolderFits(w) /\ queue \subseteq Entry
    BY DEF Fits, StoreFits, QueueFits, HolderInv
  <1>1. ASSUME NEW c \in Tips, Terminal(c) PROVE Terminal(c)'
    <2>1. results[c] # NoResult
      BY <1>1 DEF Terminal, NoResult
    <2>2. Terminated("succeeded").status = "succeeded"
      BY DEF Terminated
    <2>3. results'[c] = results[c] \/ results'[c] = Terminated("succeeded")
      BY <1>0, <2>1 DEF HolderStep
    <2> QED BY <1>1, <2>2, <2>3 DEF Terminal
  <1> SUFFICES ASSUME NEW x \in enqueued, ~Terminal(x[2])'
               PROVE  \E y \in queue' : y.env = x[1] /\ y.commit = x[2]
    BY DEF Answered
  <1>2. ~Terminal(x[2])
    BY <1>0, <1>1
  <1>3. PICK y \in queue : y.env = x[1] /\ y.commit = x[2]
    BY <1>2 DEF HolderInv, Answered
  <1>4. CASE queue' = queue
    BY <1>3, <1>4
  <1>5. CASE /\ worker[w].step \notin Searching /\ Terminal(worker[w].work.commit)
             /\ queue' = WithoutEntry(worker[w].work)
    <2>1. OfItsCommit(y) /\ OfItsCommit(worker[w].work)
      BY <1>5 DEF HolderInv, EntriesFit
    <2>2. ~(y.env = worker[w].work.env /\ y.op = worker[w].work.op)
      BY <1>2, <1>3, <1>5, <2>1 DEF OfItsCommit
    <2>3. y \in queue'
      BY <1>5, <2>2 DEF WithoutEntry
    <2> QED BY <1>3, <2>3
  <1> QED BY <1>4, <1>5 DEF HolderStep

\* A worker's entries come from the queue it scanned.
LEMMA EntriesStay ==
  ASSUME Fits, HolderInv, NEW w \in Workers, RunOnce(w) \/ CrashWorker(w), HolderStep(w)
  PROVE  EntriesFit' /\ published' = published /\ enqueued' = enqueued
  <1>0. WorkersFit /\ QueueFits /\ HolderFits(w) /\ worker[w].todo \in Seq(Entry)
    BY WorkerFields DEF Fits, HolderInv
  <1>1. published' = published /\ enqueued' = enqueued
    BY DEF RunOnce, ScanQueue, ReadLease, TakeLease, ClaimResult, LookAtResult, TakeOver,
       Build, RecordResult, Sync, Complete, Fail, FailRecord, Unclaim, DropResult, Release,
       CrashWorker, data, history
  <1>2. queue' \subseteq queue
    BY DEF HolderStep, WithoutEntry
  <1>3. \A v \in Workers : v # w => worker'[v] = worker[v]
    BY WorkerStepFits DEF Moved
  <1>4. /\ \A i \in 1 .. Len(worker[w].todo) : OfItsCommit(worker[w].todo[i])
        /\ worker[w].step \notin Searching => OfItsCommit(worker[w].work)
        /\ \A x \in queue : OfItsCommit(x)
    BY DEF HolderInv, EntriesFit
  <1>5. /\ \A i \in 1 .. Len(worker'[w].todo) : OfItsCommit(worker'[w].todo[i])
        /\ worker'[w].step \notin Searching => OfItsCommit(worker'[w].work)
    <2>1. CASE Rest(w)
      BY <1>0, <2>1, OffHand DEF Searching, Fits
    <2>2. CASE worker[w].step \notin Searching /\ \E step \in Steps \ Searching : Proceed(w, step)
      BY <1>4, <2>2, OnHand
    <2>3. CASE worker[w].step \in {"pick", "take"} /\ Skip(w)
      <3>1. /\ worker'[w].step \in {"idle", "pick"}
            /\ \A i \in 1 .. Len(worker'[w].todo) :
                  \E j \in 1 .. Len(worker[w].todo) : worker'[w].todo[i] = worker[w].todo[j]
        BY <1>0, <2>3, SkipFits
      <3> QED BY <1>4, <3>1 DEF Searching
    <2>4. CASE ScanQueue(w)
      <3>1. PICK s \in [1 .. Cardinality(Oldest) -> Oldest] :
                worker' = [worker EXCEPT ![w] = [Resting EXCEPT !.step = "pick", !.todo = s]]
        BY <2>4 DEF ScanQueue
      <3>2. \A i \in 1 .. Len(s) : s[i] \in queue
        BY <1>0, <2>4, ScanFinds DEF ScanQueue
      <3>3. worker'[w] = [Resting EXCEPT !.step = "pick", !.todo = s]
        BY <1>0, <3>1 DEF WorkersFit
      <3>4. worker'[w].step = "pick" /\ worker'[w].todo = s
        BY <3>3 DEF Resting
      <3> QED BY <1>4, <3>2, <3>4 DEF Searching
    <2>5. CASE ReadLease(w) /\ ~Skip(w)
      <3>1. \E k : worker' = [worker EXCEPT ![w].step = "take", ![w].version = k]
        BY <2>5 DEF ReadLease
      <3>2. worker'[w].step = "take" /\ worker'[w].todo = worker[w].todo
        BY <1>0, <3>1 DEF WorkersFit, WorkerState
      <3> QED BY <1>4, <3>2 DEF Searching
    <2>6. CASE TakeLease(w) /\ ~Skip(w)
      <3>1. \E k : worker' = [worker EXCEPT ![w] =
              [Resting EXCEPT !.step = "check", !.work = Head(worker[w].todo), !.version = k]]
        BY <2>6 DEF TakeLease
      <3>2. \E k : worker'[w] =
              [Resting EXCEPT !.step = "check", !.work = Head(worker[w].todo), !.version = k]
        BY <1>0, <3>1 DEF WorkersFit
      <3>3. worker'[w].todo = <<>> /\ worker'[w].work = Head(worker[w].todo)
        BY <3>2 DEF Resting
      <3>4. worker[w].todo # <<>>
        BY <1>0, <2>6 DEF TakeLease, WorkersFit, WorkerFits
      <3>5. Head(worker[w].todo) = worker[w].todo[1] /\ 1 \in 1 .. Len(worker[w].todo)
        BY <1>0, <3>4
      <3> QED BY <1>4, <3>3, <3>5
    <2>7. CASE LookAtResult(w)
      <3>1. worker[w].step \notin Searching
        BY <2>7 DEF LookAtResult, Searching
      <3>2. CASE \E step : worker' = [worker EXCEPT ![w].cached = TRUE, ![w].step = step]
        <4>1. worker'[w].todo = worker[w].todo /\ worker'[w].work = worker[w].work
          BY <1>0, <3>2 DEF WorkersFit, WorkerState
        <4> QED BY <1>4, <3>1, <4>1
      <3>3. CASE \E step \in {"build", "release", "takeover"} : Proceed(w, step)
        BY <2>2, <3>1, <3>3 DEF Steps, Searching
      <3> QED BY <2>7, <3>2, <3>3 DEF LookAtResult
    <2>8. CASE ReadLease(w) \/ TakeLease(w)
      BY <2>3, <2>5, <2>6, <2>8 DEF ReadLease, TakeLease
    <2>9. CASE ClaimResult(w) \/ TakeOver(w) \/ Build(w) \/ RecordResult(w) \/ Sync(w)
      BY <2>1, <2>2, <2>9 DEF ClaimResult, TakeOver, Build, RecordResult, Sync, Steps, Searching
    <2>10. CASE Complete(w) \/ Fail(w) \/ FailRecord(w) \/ Unclaim(w) \/ DropResult(w)
                \/ Release(w) \/ CrashWorker(w)
      BY <2>1, <2>2, <2>10 DEF Complete, Fail, FailRecord, Unclaim, DropResult, Release,
         CrashWorker, Steps, Searching
    <2> QED BY <2>4, <2>7, <2>8, <2>9, <2>10 DEF RunOnce
  <1>6. \A v \in Workers :
          /\ \A i \in 1 .. Len(worker'[v].todo) : OfItsCommit(worker'[v].todo[i])
          /\ worker'[v].step \notin Searching => OfItsCommit(worker'[v].work)
    <2> SUFFICES ASSUME NEW v \in Workers, v # w
                 PROVE  /\ \A i \in 1 .. Len(worker'[v].todo) : OfItsCommit(worker'[v].todo[i])
                        /\ worker'[v].step \notin Searching => OfItsCommit(worker'[v].work)
      BY <1>5
    <2> QED BY <1>3 DEF HolderInv, EntriesFit
  <1> QED BY <1>1, <1>2, <1>4, <1>6 DEF EntriesFit, OfItsCommit

LEMMA HolderOfWorker ==
  ASSUME Fits, HolderInv, NoneAbandoned, NothingFails', NEW w \in Workers,
         RunOnce(w) \/ CrashWorker(w)
  PROVE  HolderInv'
  <1>1. HolderStep(w)
    BY HolderStepTaken DEF HolderInv
  <1>2. \A v \in Workers : v # w => worker'[v] = worker[v]
    BY WorkerStepFits DEF Moved
  <1>3. \A v \in Workers : HolderFits(v)'
    BY <1>1, <1>2, HoldersStay DEF HolderStep
  <1>4. OneHolder'
    BY <1>1, <1>2, HoldersStayApart
  <1>5. EntriesFit' /\ Answered'
    BY <1>1, EntriesStay, AnswersStay
  <1>6. rerun' = rerun
    BY DEF RunOnce, ScanQueue, ReadLease, TakeLease, ClaimResult, LookAtResult, TakeOver,
       Build, RecordResult, Sync, Complete, Fail, FailRecord, Unclaim, DropResult, Release,
       CrashWorker
  <1> QED BY <1>3, <1>4, <1>5, <1>6 DEF HolderInv

LEMMA HolderOfOthers ==
  ASSUME Fits, HolderInv, NoneAbandoned', spent'.reruns = 0, Others
  PROVE  HolderInv'
  <1>0. /\ queue \subseteq Entry /\ enqueued \subseteq Envs \X Tips
        /\ published \in [Envs -> Seq(Tips)] /\ results \in [Tips -> Result]
        /\ spent \in SpentType /\ WorkersFit
    BY DEF Fits, QueueFits, StoreFits
  <1>1. worker' = worker
    BY OthersLeaveWorkers
  <1>2. rerun.step = "idle"
    BY DEF HolderInv, NoRerun
  <1>3. ASSUME UNCHANGED <<results, queue, enqueued, published, rerun>>
        PROVE  HolderInv'
    BY <1>1, <1>3 DEF HolderInv, HolderFits, Terminal, OneHolder, EntriesFit, OfItsCommit,
       Answered
  <1>4. ASSUME NEW e \in Envs, NEW c \in Tips, Publish(e, c)
        PROVE  HolderInv'
    <2>1. UNCHANGED <<results, queue, enqueued, rerun>>
          /\ published' = [published EXCEPT ![e] = Append(@, c)]
      BY <1>4 DEF Publish, history
    <2>2. ASSUME NEW x \in Entry, OfItsCommit(x)
          PROVE  x.op \in DOMAIN published'[x.env] /\ x.commit = published'[x.env][x.op]
      <3>1. x.env \in Envs /\ published[x.env] \in Seq(Tips)
        BY <1>0 DEF Entry
      <3>2. CASE x.env = e
        <4>1. published'[x.env] = Append(published[x.env], c)
          BY <1>0, <2>1, <3>1, <3>2
        <4> QED BY <2>2, <3>1, <4>1 DEF OfItsCommit
      <3>3. CASE x.env # e
        BY <1>0, <2>1, <2>2, <3>1, <3>3 DEF OfItsCommit
      <3> QED BY <3>2, <3>3
    <2>3. EntriesFit'
      <3>1. ASSUME NEW v \in Workers
            PROVE  /\ \A i \in 1 .. Len(worker[v].todo) :
                        /\ worker[v].todo[i].op \in DOMAIN published'[worker[v].todo[i].env]
                        /\ worker[v].todo[i].commit =
                             published'[worker[v].todo[i].env][worker[v].todo[i].op]
                   /\ worker[v].step \notin Searching =>
                        /\ worker[v].work.op \in DOMAIN published'[worker[v].work.env]
                        /\ worker[v].work.commit =
                             published'[worker[v].work.env][worker[v].work.op]
        <4>1. worker[v].todo \in Seq(Entry)
          BY <1>0, WorkerFields
        <4>2. worker[v].step \notin Searching => worker[v].work \in Entry
          BY <1>0, InHand
        <4> QED BY <2>2, <4>1, <4>2 DEF HolderInv, EntriesFit
      <3>2. \A x \in queue : x.op \in DOMAIN published'[x.env] /\ x.commit = published'[x.env][x.op]
        BY <1>0, <2>2 DEF HolderInv, EntriesFit
      <3> QED BY <1>1, <2>1, <3>1, <3>2 DEF EntriesFit, OfItsCommit
    <2> QED BY <1>1, <2>1, <2>3 DEF HolderInv, HolderFits, Terminal, OneHolder, Answered
  <1>5. ASSUME NEW d \in Published, Deliver(d[1], d[2])
        PROVE  HolderInv'
    <2> DEFINE e == d[1]
               n == d[2]
               c == published[e][n]
               y == [env |-> e, op |-> n, commit |-> c, attempts |-> 0, at |-> arrivals]
    <2>1. e \in Envs /\ n \in DOMAIN published[e]
      BY DEF Published
    <2>2. UNCHANGED <<results, published, rerun>> /\ PutEntry(e, n, c)
      BY <1>5 DEF Deliver
    <2>3. \/ UNCHANGED <<queue, enqueued>>
          \/ queue' = queue \cup {y} /\ enqueued' = enqueued \cup {<<e, c>>}
      BY <2>2 DEF PutEntry
    <2>4. y.env = e /\ y.op = n /\ y.commit = c /\ OfItsCommit(y)
      BY <2>1 DEF OfItsCommit
    <2> HIDE DEF y, c
    <2>5. CASE UNCHANGED <<queue, enqueued>>
      BY <1>3, <2>2, <2>5
    <2>6. CASE queue' = queue \cup {y} /\ enqueued' = enqueued \cup {<<e, c>>}
      <3>1. EntriesFit'
        BY <1>1, <2>2, <2>4, <2>6 DEF HolderInv, EntriesFit, OfItsCommit
      <3>2. Answered'
        BY <2>2, <2>4, <2>6 DEF HolderInv, Answered, Terminal
      <3> QED BY <1>1, <2>2, <3>1, <3>2 DEF HolderInv, HolderFits, Terminal, OneHolder
    <2> QED BY <2>3, <2>5, <2>6
  <1>6. ASSUME NEW e \in Envs, NEW b \in BOOLEAN, Trigger(e, b) PROVE FALSE
    <2>1. spent' = [spent EXCEPT !.reruns = @ + 1]
      BY <1>6 DEF Trigger
    <2>2. PICK n \in Nat : n = spent.reruns
      BY <1>0 DEF SpentType
    <2>3. spent'.reruns = n + 1
      BY <1>0, <2>1, <2>2 DEF SpentType
    <2> QED BY <2>3
  <1>7. ASSUME NEW c \in Tips, Abandon(c) PROVE FALSE
    <2>1. results'[c].status = "running" /\ results'[c].fresh = FALSE
      BY <1>0, <1>7 DEF Abandon, Running
    <2> QED BY <2>1 DEF NoneAbandoned
  <1>8. ASSUME NEW e \in Envs, ExpireLease(e) PROVE HolderInv'
    BY <1>3, <1>8 DEF ExpireLease, history
  <1> QED BY <1>2, <1>4, <1>5, <1>6, <1>7, <1>8
          DEF Others, TriggerNewest, TriggerForget, TriggerPut

LEMMA BuilderStep ==
  /\ BuilderInv /\ NoneAbandoned /\ NoneAbandoned' /\ NothingFails'
  /\ [QueueNext]_queueVars
  => BuilderInv'
  <1> SUFFICES ASSUME BuilderInv, NoneAbandoned, NoneAbandoned', NothingFails',
                      [QueueNext]_queueVars, spent'.reruns = 0
               PROVE  HolderInv'
    BY FitsStep DEF BuilderInv
  <1>0. Fits
    BY DEF BuilderInv
  <1>1. spent.reruns = 0
    <2>1. spent.reruns \in Nat
      BY <1>0 DEF Fits, StoreFits, SpentType
    <2>2. spent'.reruns = spent.reruns \/ spent'.reruns = spent.reruns + 1
      <3>1. \/ spent' = spent
            \/ \E k : spent' = [spent EXCEPT !.faults = k]
            \/ \E k : spent' = [spent EXCEPT !.crashes = k]
            \/ \E k : spent' = [spent EXCEPT !.deliveries = k]
            \/ spent' = [spent EXCEPT !.reruns = @ + 1]
        <4>1. ASSUME NEW w \in Workers, RunOnce(w) \/ CrashWorker(w)
              PROVE  \/ spent' = spent
                     \/ \E k : spent' = [spent EXCEPT !.faults = k]
                     \/ \E k : spent' = [spent EXCEPT !.crashes = k]
          BY <4>1 DEF RunOnce, ScanQueue, ReadLease, TakeLease, ClaimResult, LookAtResult,
             TakeOver, Build, RecordResult, Sync, Complete, Fail, FailRecord, Unclaim,
             DropResult, Release, CrashWorker, Fault
        <4>2. CASE Others
          BY <4>2 DEF Others, Publish, Deliver, Trigger, TriggerNewest, TriggerForget,
             TriggerPut, ExpireLease, Abandon
        <4>3. CASE UNCHANGED queueVars
          BY <4>3 DEF queueVars
        <4> QED BY <4>1, <4>2, <4>3, NextCases
      <3>2. spent \in SpentType
        BY <1>0 DEF Fits, StoreFits
      <3> QED BY <3>1, <3>2 DEF SpentType
    <2> QED BY <2>1, <2>2
  <1>2. HolderInv
    BY <1>1 DEF BuilderInv
  <1>3. ASSUME NEW w \in Workers, RunOnce(w) \/ CrashWorker(w) PROVE HolderInv'
    BY <1>0, <1>2, <1>3, HolderOfWorker
  <1>4. CASE Others
    BY <1>0, <1>2, <1>4, HolderOfOthers
  <1>5. CASE UNCHANGED queueVars
    BY <1>2, <1>5 DEF queueVars, data, history, HolderInv, HolderFits, Terminal, OneHolder,
       EntriesFit, OfItsCommit, Answered
  <1> QED BY <1>3, <1>4, <1>5, NextCases

\* Until a build or a sync fails, a claim is abandoned or a rebuild is asked
\* for, a commit is built by at most one worker (results.claim_global).
THEOREM OneWorkerPerCommit ==
  QueueSpec /\ []NothingFails /\ []NoneAbandoned => []OneBuilder
  <1>1. QueueInit => BuilderInv
    <2> SUFFICES ASSUME QueueInit PROVE BuilderInv
      OBVIOUS
    <2>1. Fits
      BY FitsInit
    <2>2. \A w \in Workers : HolderFits(w)
      BY DEF QueueInit, HolderFits, Resting
    <2>3. OneHolder /\ EntriesFit /\ Answered /\ rerun = NoRerun
      BY DEF QueueInit, OneHolder, EntriesFit, Answered, Resting, Searching
    <2> QED BY <2>1, <2>2, <2>3 DEF BuilderInv, HolderInv
  <1>2. /\ BuilderInv /\ NoneAbandoned /\ NoneAbandoned' /\ NothingFails'
        /\ [QueueNext]_queueVars
        => BuilderInv'
    BY BuilderStep
  <1>3. BuilderInv => OneBuilder
    BY BuildersAreApart
  <1> QED BY <1>1, <1>2, <1>3, PTL DEF QueueSpec

\* Under the same conditions no work leaves the queue unanswered: queue.complete
\* takes an entry off only when its commit has a result, and nothing takes
\* that result away.
THEOREM WorkLeavesAnswered ==
  QueueSpec /\ []NothingFails /\ []NoneAbandoned => []WorkIsAnswered
  <1>1. QueueInit => BuilderInv
    <2> SUFFICES ASSUME QueueInit PROVE BuilderInv
      OBVIOUS
    <2>1. Fits
      BY FitsInit
    <2>2. \A w \in Workers : HolderFits(w)
      BY DEF QueueInit, HolderFits, Resting
    <2>3. OneHolder /\ EntriesFit /\ Answered /\ rerun = NoRerun
      BY DEF QueueInit, OneHolder, EntriesFit, Answered, Resting, Searching
    <2> QED BY <2>1, <2>2, <2>3 DEF BuilderInv, HolderInv
  <1>2. /\ BuilderInv /\ NoneAbandoned /\ NoneAbandoned' /\ NothingFails'
        /\ [QueueNext]_queueVars
        => BuilderInv'
    BY BuilderStep
  <1>3. BuilderInv => WorkIsAnswered
    BY BuildersAreApart
  <1> QED BY <1>1, <1>2, <1>3, PTL DEF QueueSpec

=============================================================================
