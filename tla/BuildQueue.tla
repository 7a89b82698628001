----------------------------- MODULE BuildQueue -----------------------------
(***************************************************************************)
(* The build pipeline past the change stream: the queue and its leases     *)
(* (src/src/build/queue.py), the results shared by commit                  *)
(* (src/src/build/results.py), and the worker and the manual trigger       *)
(* (src/src/build/pipeline.py).                                            *)
(*                                                                         *)
(* Each statement against the store is a step of its own; a transaction of *)
(* one environment's partition is one step.  Time is abstracted to what    *)
(* the code asks of it: whether a lease has expired (live), whether a      *)
(* RUNNING claim is older than ABANDONED_CLAIM_US (fresh).                 *)
(*                                                                         *)
(* Reduced to their effect here: the platform a build is synced into, the  *)
(* runner, and the refs whose updates are the operations delivered.        *)
(***************************************************************************)
EXTENDS Integers, FiniteSets, Sequences, SequencesExt

CONSTANTS
    Envs,             \* environments
    Tips,             \* commit names
    Good,             \* the commits whose build succeeds: a function of the commit
    Workers,          \* build workers
    Absence,          \* "no commit", "no environment"
    MaxAttempts,      \* MAX_ATTEMPTS
    Pauses,           \* whether a worker may be slower than its lease and claim
    MaxOps,           \* bound: ref updates published
    MaxDeliveries,    \* bound: events delivered, repetitions included
    MaxReruns,        \* bound: manual triggers
    MaxWorkerCrashes, \* bound: workers that die
    MaxFaults         \* bound: builds that raise, platform outages

ASSUME BuildQueueAssumption ==
    /\ Good \subseteq Tips
    /\ Absence \notin Tips \cup Envs
    /\ MaxAttempts \in Nat \ {0}
    /\ Pauses \in BOOLEAN
    /\ {MaxOps, MaxDeliveries, MaxReruns, MaxWorkerCrashes, MaxFaults} \subseteq Nat

VARIABLES
    published,  \* per environment, the commit each operation published
    queue,      \* queue entries, at most one per environment and operation
    arrivals,   \* entries enqueued so far: orders enqueued_at_us
    lease,      \* per environment
    results,    \* per commit
    notes,      \* <<environment, commit>> that have a sync note
    platform,   \* <<environment, commit>> the platform has been told about
    synced,     \* history: per environment, the operations synced, in order
    failures,   \* history: per commit, attempts that ended in failure
    delivered,  \* history: <<environment, operation>> the dispatcher enqueued
    enqueued,   \* history: <<environment, commit>> that were ever on the queue
    mistaken,   \* history: environments and commits whose lease or claim was put over a
                \* newer one than the worker had read
    worker,     \* what each worker is doing
    rerun,      \* the manual trigger in progress
    spent       \* what the bounds count

data == <<published, queue, arrivals, lease, results, notes, platform>>
history == <<synced, failures, delivered, enqueued, mistaken>>
queueVars == <<data, history, worker, rerun, spent>>

-----------------------------------------------------------------------------
\* Values

NoEntry == [env |-> Absence, op |-> 0, commit |-> Absence, attempts |-> 0, at |-> 0]
Entry == [env : Envs, op : Nat, commit : Tips, attempts : Nat, at : Nat]

\* A deleted lease item forgets its version: the next one starts at 1 again.
NoLease == [version |-> 0, live |-> FALSE, by |-> Absence]
LeaseItem == [version : Nat \ {0}, live : BOOLEAN, by : Workers]

NoResult == [status |-> "none", fresh |-> FALSE]
Result == [status : {"none", "running", "succeeded", "failed"}, fresh : BOOLEAN]
Running == [status |-> "running", fresh |-> TRUE]
Terminated(status) == [status |-> status, fresh |-> FALSE]
Terminal(c) == results[c].status \in {"succeeded", "failed"}

Steps == {"idle", "pick", "take", "check", "look", "takeover", "build", "record",
          "sync", "complete", "close", "fail", "fail_record", "unclaim", "drop", "release"}

\* todo: the entries still to try; version: the lease version a condition
\* names (0: absent); cached: the result came from the store, not a build.
Resting == [step |-> "idle", todo |-> <<>>, work |-> NoEntry, version |-> 0, cached |-> FALSE]

NoRerun == [step |-> "idle", env |-> Absence, commit |-> Absence, op |-> 0, rebuild |-> FALSE]

QueueInit ==
    /\ published = [e \in Envs |-> <<>>]
    /\ queue = {}
    /\ arrivals = 0
    /\ lease = [e \in Envs |-> NoLease]
    /\ results = [c \in Tips |-> NoResult]
    /\ notes = {}
    /\ platform = {}
    /\ synced = [e \in Envs |-> <<>>]
    /\ failures = [c \in Tips |-> 0]
    /\ delivered = {}
    /\ enqueued = {}
    /\ mistaken = {}
    /\ worker = [w \in Workers |-> Resting]
    /\ rerun = NoRerun
    /\ spent = [deliveries |-> 0, reruns |-> 0, crashes |-> 0, faults |-> 0]

-----------------------------------------------------------------------------
\* Producing

Published == {x \in Envs \X (1 .. MaxOps) : x[2] \in DOMAIN published[x[1]]}

\* A ref update is published; its event waits in the outbox.
Publish(e, c) ==
    /\ Cardinality(Published) < MaxOps
    /\ published' = [published EXCEPT ![e] = Append(@, c)]
    /\ UNCHANGED <<queue, arrivals, lease, results, notes, platform, history,
                   worker, rerun, spent>>

\* Faulty variant: a second arrival of the same event is queued again.
PutAgain(e, n, c) ==
    /\ queue' = queue \cup
         {[env |-> e, op |-> n, commit |-> c, attempts |-> 0, at |-> arrivals]}
    /\ arrivals' = arrivals + 1
    /\ enqueued' = enqueued \cup {<<e, c>>}

\* enqueue: put the entry, on condition that its key is absent.
PutEntry(e, n, c) ==
    IF \E x \in queue : x.env = e /\ x.op = n
    THEN UNCHANGED <<queue, arrivals, enqueued>>
    ELSE /\ queue' = queue \cup
              {[env |-> e, op |-> n, commit |-> c, attempts |-> 0, at |-> arrivals]}
         /\ arrivals' = arrivals + 1
         /\ enqueued' = enqueued \cup {<<e, c>>}

\* The dispatcher delivers an event: in order the first time, and again
\* whenever its checkpoint was lost.
Deliver(e, n) ==
    /\ spent.deliveries < MaxDeliveries
    /\ n = 1 \/ <<e, n - 1>> \in delivered
    /\ PutEntry(e, n, published[e][n])
    /\ delivered' = delivered \cup {<<e, n>>}
    /\ spent' = [spent EXCEPT !.deliveries = @ + 1]
    /\ UNCHANGED <<published, lease, results, notes, platform, synced, failures, mistaken,
                   worker, rerun>>

\* trigger reads the ref, then the newest operation; then forgets the result
\* if asked to, then enqueues the commit under that operation's number.
Trigger(e, rebuild) ==
    /\ rerun = NoRerun
    /\ published[e] # <<>>
    /\ spent.reruns < MaxReruns
    /\ spent' = [spent EXCEPT !.reruns = @ + 1]
    /\ rerun' = [step |-> "newest", env |-> e, commit |-> Last(published[e]), op |-> 0,
                 rebuild |-> rebuild]
    /\ UNCHANGED <<data, history, worker>>

TriggerNewest ==
    /\ rerun.step = "newest"
    /\ rerun' = [rerun EXCEPT !.op = Len(published[rerun.env]),
                              !.step = IF rerun.rebuild THEN "forget" ELSE "put"]
    /\ UNCHANGED <<data, history, worker, spent>>

TriggerForget ==
    /\ rerun.step = "forget"
    /\ results' = [results EXCEPT ![rerun.commit] = NoResult]
    /\ rerun' = [rerun EXCEPT !.step = "put"]
    /\ UNCHANGED <<published, queue, arrivals, lease, notes, platform, history, worker, spent>>

TriggerPut ==
    /\ rerun.step = "put"
    /\ PutEntry(rerun.env, rerun.op, rerun.commit)
    /\ rerun' = NoRerun
    /\ UNCHANGED <<published, lease, results, notes, platform, synced, failures, delivered,
                   mistaken, worker, spent>>

-----------------------------------------------------------------------------
\* Leasing

Proceed(w, step) == worker' = [worker EXCEPT ![w].step = step]
Rest(w) == worker' = [worker EXCEPT ![w] = Resting]

\* The scan: the earliest operation of each environment, longest waiting first.
Oldest == {x \in queue : \A y \in queue : y.env = x.env => x.op <= y.op}

InArrivalOrder(s) == \A i, j \in DOMAIN s : i < j => s[i].at < s[j].at

ScanQueue(w) ==
    /\ worker[w].step = "idle"
    /\ Oldest # {}
    /\ \E s \in [1 .. Cardinality(Oldest) -> Oldest] :
          /\ InArrivalOrder(s)
          /\ worker' = [worker EXCEPT ![w] = [Resting EXCEPT !.step = "pick", !.todo = s]]
    /\ UNCHANGED <<data, history, rerun, spent>>

\* Give up on the first entry of the scan; with none left there is no work.
Skip(w) == IF Len(worker[w].todo) = 1 THEN Rest(w)
           ELSE worker' = [worker EXCEPT ![w].step = "pick", ![w].todo = Tail(@)]

\* _claim reads the lease: a live one is somebody else's.
ReadLease(w) ==
    LET l == lease[Head(worker[w].todo).env]
    IN  /\ worker[w].step = "pick"
        /\ IF l.live THEN Skip(w)
           ELSE worker' = [worker EXCEPT ![w].step = "take", ![w].version = l.version]
        /\ UNCHANGED <<data, history, rerun, spent>>

\* A lease that is freed and taken again starts at version 1 again: one seen
\* expired may be another's by now that has its version.
Mistaken(w) ==
    LET e == Head(worker[w].todo).env
    IN  IF lease[e].live /\ lease[e].version = worker[w].version THEN mistaken \cup {e}
        ELSE mistaken

\* Faulty variant: the lease is put under no condition.
TakeLeaseAnyway(w) ==
    LET x == Head(worker[w].todo)
        v == lease[x.env].version
    IN  /\ worker[w].step = "take"
        /\ lease' = [lease EXCEPT ![x.env] = [version |-> v + 1, live |-> TRUE, by |-> w]]
        /\ worker' = [worker EXCEPT ![w] =
                        [Resting EXCEPT !.step = "check", !.work = x, !.version = v + 1]]
        /\ mistaken' = Mistaken(w)
        /\ UNCHANGED <<published, queue, arrivals, results, notes, platform, synced, failures,
                       delivered, enqueued, rerun, spent>>

\* The conditional put: absent, or the very version that was seen expired.
TakeLease(w) ==
    LET x == Head(worker[w].todo)
        v == worker[w].version
    IN  /\ worker[w].step = "take"
        /\ IF lease[x.env].version = v
           THEN /\ lease' = [lease EXCEPT ![x.env] =
                               [version |-> v + 1, live |-> TRUE, by |-> w]]
                /\ worker' = [worker EXCEPT ![w] =
                               [Resting EXCEPT !.step = "check", !.work = x,
                                               !.version = v + 1]]
                /\ mistaken' = Mistaken(w)
           ELSE UNCHANGED <<lease, mistaken>> /\ Skip(w)
        /\ UNCHANGED <<published, queue, arrivals, results, notes, platform, synced, failures,
                       delivered, enqueued, rerun, spent>>

-----------------------------------------------------------------------------
\* Claiming the commit

\* Faulty variant: the claim is put whatever is there.
ClaimResultAnyway(w) ==
    /\ worker[w].step = "check"
    /\ results' = [results EXCEPT ![worker[w].work.commit] = Running]
    /\ Proceed(w, "build")
    /\ UNCHANGED <<published, queue, arrivals, lease, notes, platform, history, rerun, spent>>

\* claim_global: insert, or leave what is there.
ClaimResult(w) ==
    LET c == worker[w].work.commit
    IN  /\ worker[w].step = "check"
        /\ IF results[c] = NoResult
           THEN results' = [results EXCEPT ![c] = Running] /\ Proceed(w, "build")
           ELSE results' = results /\ Proceed(w, "look")
        /\ UNCHANGED <<published, queue, arrivals, lease, notes, platform, history, rerun, spent>>

\* Faulty variants: a cache hit is noted without telling the platform, and
\* an abandoned claim is waited on for ever.
LookUnsynced(w) ==
    LET c == worker[w].work.commit
    IN  /\ worker[w].step = "look"
        /\ \/ results[c] = NoResult /\ Proceed(w, "build")
           \/ Terminal(c) /\ Proceed(w, "complete")
           \/ results[c].status = "running" /\ results[c].fresh /\ Proceed(w, "release")
           \/ results[c].status = "running" /\ ~results[c].fresh /\ Proceed(w, "takeover")
        /\ UNCHANGED <<data, history, rerun, spent>>

LookWaiting(w) ==
    LET c == worker[w].work.commit
    IN  /\ worker[w].step = "look"
        /\ \/ results[c] = NoResult /\ Proceed(w, "build")
           \/ /\ Terminal(c)
              /\ worker' = [worker EXCEPT ![w].cached = TRUE,
                    ![w].step = IF results[c].status = "succeeded" THEN "sync" ELSE "close"]
           \/ results[c].status = "running" /\ Proceed(w, "release")
        /\ UNCHANGED <<data, history, rerun, spent>>

\* The claim was lost: read who has it.  A claim deleted meanwhile means
\* "build", without one.
LookAtResult(w) ==
    LET c == worker[w].work.commit
    IN  /\ worker[w].step = "look"
        /\ \/ results[c] = NoResult /\ Proceed(w, "build")
           \/ /\ Terminal(c)
              /\ worker' = [worker EXCEPT ![w].cached = TRUE,
                    ![w].step = IF results[c].status = "succeeded" THEN "sync" ELSE "close"]
           \/ results[c].status = "running" /\ results[c].fresh /\ Proceed(w, "release")
           \/ results[c].status = "running" /\ ~results[c].fresh /\ Proceed(w, "takeover")
        /\ UNCHANGED <<data, history, rerun, spent>>

\* The takeover of an abandoned claim is an unconditional put: another's may
\* have come first.
TakeOver(w) ==
    LET c == worker[w].work.commit
    IN  /\ worker[w].step = "takeover"
        /\ results' = [results EXCEPT ![c] = Running]
        /\ mistaken' = IF results[c] = [Running EXCEPT !.fresh = FALSE] THEN mistaken
                       ELSE mistaken \cup {c}
        /\ Proceed(w, "build")
        /\ UNCHANGED <<published, queue, arrivals, lease, notes, platform, synced, failures,
                       delivered, enqueued, rerun, spent>>

-----------------------------------------------------------------------------
\* Building and syncing

Fault == spent.faults < MaxFaults /\ spent' = [spent EXCEPT !.faults = @ + 1]

\* The runner says what the commit deserves, or something raises.
Build(w) ==
    LET c == worker[w].work.commit
    IN  /\ worker[w].step = "build"
        /\ \/ c \in Good /\ Proceed(w, "record") /\ UNCHANGED <<spent, failures>>
           \/ /\ c \notin Good /\ Proceed(w, "fail") /\ UNCHANGED spent
              /\ failures' = [failures EXCEPT ![c] = @ + 1]
           \/ /\ c \in Good /\ Fault /\ Proceed(w, "fail")
              /\ failures' = [failures EXCEPT ![c] = @ + 1]
        /\ UNCHANGED <<data, synced, delivered, enqueued, mistaken, rerun>>

RecordResult(w) ==
    /\ worker[w].step = "record"
    /\ results' = [results EXCEPT ![worker[w].work.commit] = Terminated("succeeded")]
    /\ Proceed(w, "sync")
    /\ UNCHANGED <<published, queue, arrivals, lease, notes, platform, history, rerun, spent>>

\* _finish: the platform takes the version, or is out.  An outage leaves
\* run_once by the exception after a build, and by _give_up after a cache hit.
Sync(w) ==
    LET x == worker[w].work
    IN  /\ worker[w].step = "sync"
        /\ \/ /\ platform' = platform \cup {<<x.env, x.commit>>}
              /\ synced' = [synced EXCEPT ![x.env] = Append(@, x.op)]
              /\ Proceed(w, "complete")
              /\ UNCHANGED <<spent, failures>>
           \/ /\ Fault
              /\ IF worker[w].cached
                 THEN /\ Proceed(w, "fail")
                      /\ failures' = [failures EXCEPT ![x.commit] = @ + 1]
                 ELSE Rest(w) /\ failures' = failures
              /\ UNCHANGED <<platform, synced>>
        /\ UNCHANGED <<published, queue, arrivals, lease, results, notes, delivered, enqueued,
                       mistaken, rerun>>

-----------------------------------------------------------------------------
\* Finishing

HoldsLease(w) == lease[worker[w].work.env].version = worker[w].version

\* Faulty variant: the environment's whole queue goes.
WithoutEnv(x) == {y \in queue : y.env # x.env}

WithoutEntry(x) == {y \in queue : y.env # x.env \/ y.op # x.op}

Freed(w) == [lease EXCEPT ![worker[w].work.env] = NoLease]

\* complete: the entry, the lease and the note in one transaction, on
\* condition that the lease still has the version it was claimed at.  With
\* no sync to note ("close") the entry of a commit known to fail just goes.
Complete(w) ==
    LET x == worker[w].work
    IN  /\ worker[w].step \in {"complete", "close"}
        /\ IF HoldsLease(w)
           THEN /\ queue' = WithoutEntry(x)
                /\ lease' = Freed(w)
                /\ notes' = IF worker[w].step = "close" THEN notes
                            ELSE notes \cup {<<x.env, x.commit>>}
                /\ Rest(w)
           ELSE /\ IF worker[w].cached THEN Proceed(w, "unclaim") ELSE Rest(w)
                /\ UNCHANGED <<queue, lease, notes>>
        /\ UNCHANGED <<published, arrivals, results, platform, history, rerun, spent>>

\* Faulty variant: one attempt short.
ExhaustedEarly(attempts) == attempts + 1 >= MaxAttempts

Exhausted(attempts) == attempts >= MaxAttempts

\* fail: one more attempt on the entry, or the entry dropped, and the lease
\* released, on the same condition.  Its conflict leaves run_once.
Fail(w) ==
    LET x    == worker[w].work
        next == [x EXCEPT !.attempts = @ + 1]
    IN  /\ worker[w].step = "fail"
        /\ \/ ~HoldsLease(w) /\ Rest(w) /\ UNCHANGED <<queue, lease>>
           \/ /\ HoldsLease(w)
              /\ lease' = Freed(w)
              /\ IF Exhausted(next.attempts)
                 THEN queue' = WithoutEntry(x) /\ Proceed(w, "fail_record")
                 ELSE queue' = WithoutEntry(x) \cup {next} /\ Proceed(w, "unclaim")
        /\ UNCHANGED <<published, arrivals, results, notes, platform, history, rerun, spent>>

FailRecord(w) ==
    /\ worker[w].step = "fail_record"
    /\ results' = [results EXCEPT ![worker[w].work.commit] = Terminated("failed")]
    /\ Rest(w)
    /\ UNCHANGED <<published, queue, arrivals, lease, notes, platform, history, rerun, spent>>

\* results.release: read, and then delete whatever is there.
Unclaim(w) ==
    /\ worker[w].step = "unclaim"
    /\ IF results[worker[w].work.commit].status = "running" THEN Proceed(w, "drop") ELSE Rest(w)
    /\ UNCHANGED <<data, history, rerun, spent>>

DropResult(w) ==
    /\ worker[w].step = "drop"
    /\ results' = [results EXCEPT ![worker[w].work.commit] = NoResult]
    /\ Rest(w)
    /\ UNCHANGED <<published, queue, arrivals, lease, notes, platform, history, rerun, spent>>

\* queue.release: the environment goes back, its work stays.
Release(w) ==
    /\ worker[w].step = "release"
    /\ lease' = IF HoldsLease(w) THEN Freed(w) ELSE lease
    /\ Rest(w)
    /\ UNCHANGED <<published, queue, arrivals, results, notes, platform, history, rerun, spent>>

-----------------------------------------------------------------------------
\* Time and failure

Working(w, e) == worker[w].work.env = e /\ worker[w].step # "idle"
Owns(w, e) == Working(w, e) /\ worker[w].step \notin {"fail_record", "unclaim", "drop"}
Building(w, c) == worker[w].work.commit = c /\ worker[w].step = "build"
Claimant(w, c) ==
    /\ worker[w].work.commit = c
    /\ worker[w].step \in {"build", "record", "fail", "fail_record", "unclaim", "drop"}

\* A lease outlives the longest build a manifest may declare, and a claim
\* outlives a lease, so neither ends under a worker that is not paused.
ExpireLease(e) ==
    /\ lease[e].live
    /\ Pauses \/ \A w \in Workers : ~Working(w, e)
    /\ lease' = [lease EXCEPT ![e].live = FALSE]
    /\ UNCHANGED <<published, queue, arrivals, results, notes, platform, history,
                   worker, rerun, spent>>

Abandon(c) ==
    /\ results[c] = Running
    /\ Pauses \/ \A w \in Workers : ~Claimant(w, c)
    /\ results' = [results EXCEPT ![c].fresh = FALSE]
    /\ UNCHANGED <<published, queue, arrivals, lease, notes, platform, history,
                   worker, rerun, spent>>

CrashWorker(w) ==
    /\ worker[w].step # "idle"
    /\ spent.crashes < MaxWorkerCrashes
    /\ spent' = [spent EXCEPT !.crashes = @ + 1]
    /\ Rest(w)
    /\ UNCHANGED <<data, history, rerun>>

RunOnce(w) ==
    \/ ScanQueue(w) \/ ReadLease(w) \/ TakeLease(w)
    \/ ClaimResult(w) \/ LookAtResult(w) \/ TakeOver(w)
    \/ Build(w) \/ RecordResult(w) \/ Sync(w)
    \/ Complete(w) \/ Fail(w) \/ FailRecord(w) \/ Unclaim(w) \/ DropResult(w) \/ Release(w)

QueueNext ==
    \/ \E e \in Envs, c \in Tips : Publish(e, c)
    \/ \E x \in Published : Deliver(x[1], x[2])
    \/ \E e \in Envs, b \in BOOLEAN : Trigger(e, b)
    \/ TriggerNewest \/ TriggerForget \/ TriggerPut
    \/ \E w \in Workers : RunOnce(w) \/ CrashWorker(w)
    \/ \E e \in Envs : ExpireLease(e)
    \/ \E c \in Tips : Abandon(c)

QueueSpec == QueueInit /\ [][QueueNext]_queueVars

\* Workers poll, and time passes over what a dead worker left behind.
FairQueueSpec ==
    /\ QueueSpec
    /\ \A w \in Workers : WF_queueVars(RunOnce(w))
    /\ \A e \in Envs : WF_queueVars(ExpireLease(e))
    /\ \A c \in Tips : WF_queueVars(Abandon(c))

-----------------------------------------------------------------------------
\* Properties

\* The shape of the queue, the leases, the results and the workers; enqueue
\* leaves at most one entry for an operation of an environment.
QueueTypeOK ==
    /\ published \in [Envs -> Seq(Tips)]
    /\ queue \subseteq Entry
    /\ \A x, y \in queue : x.env = y.env /\ x.op = y.op => x = y
    /\ lease \in [Envs -> LeaseItem \cup {NoLease}]
    /\ results \in [Tips -> Result]
    /\ notes \subseteq Envs \X Tips
    /\ \A w \in Workers :
          /\ worker[w].step \in Steps
          /\ worker[w].todo \in Seq(Entry)
          /\ worker[w].work \in Entry \cup {NoEntry}
    /\ rerun.step \in {"idle", "newest", "forget", "put"}

\* At most one worker at a time owns an environment, if none is slower than
\* its lease, through deaths and the takeover of dead workers' leases: save
\* where one was taken by mistake for the lease that was seen expired.
OneOwner ==
    \A e \in Envs \ mistaken : \A v, w \in Workers : Owns(v, e) /\ Owns(w, e) => v = w

\* A commit is reported failed only once the retries have run out.
FailedAfterRetries ==
    \A c \in Tips : results[c].status = "failed" => failures[c] >= MaxAttempts

\* A version the environment notes as synced is one the platform has.
NotedIsSynced == notes \subseteq platform

\* Work leaves the queue answered: until a rebuild is asked for, nothing is
\* queued and dropped without its commit having a result, or a worker about
\* to write it, save where two took over one dead worker's claim.
WorkIsAnswered ==
    spent.reruns = 0 => \A x \in enqueued : x[2] \notin mistaken =>
        \/ \E y \in queue : y.env = x[1] /\ y.commit = x[2]
        \/ Terminal(x[2])
        \/ \E w \in Workers : worker[w].step = "fail_record" /\ worker[w].work.commit = x[2]

\* Every entry leaves the queue in the end, whoever dies while holding it.
Drained == \A e \in Envs : \A n \in 1 .. MaxOps :
    (\E x \in queue : x.env = e /\ x.op = n) ~> ~(\E x \in queue : x.env = e /\ x.op = n)

\* Until a rebuild is asked for, a commit is being built by at most one worker,
\* save where two took over one dead worker's claim.
OneBuilder ==
    spent.reruns = 0 =>
        \A c \in Tips \ mistaken : \A v, w \in Workers : Building(v, c) /\ Building(w, c) => v = w

\* One worker at a time: on an environment through its lease, on a commit
\* through its claim, whatever is delivered again or rebuilt by hand, and when
\* what a dead worker held is taken over; but for the mistakes named above.
QueueInv == QueueTypeOK /\ OneOwner /\ OneBuilder

\* What the results and the notes say is earned: a failure by its retries, a
\* sync by the platform's answer, through deaths and outages.
VerdictsEarned == FailedAfterRetries /\ NotedIsSynced

-----------------------------------------------------------------------------
\* What the documentation says and the code does not keep: TLC refutes each of
\* these once the constants let the case arise (README, "Divergences").

\* "two workers racing to reclaim the same dead lease cannot both win"
\* (queue.py:193-194): one worker owns an environment, without exception.
OneOwnerEver == \A e \in Envs : \A v, w \in Workers : Owns(v, e) /\ Owns(w, e) => v = w

\* Of two workers that want one commit, one builds it (results.py:14-16), also
\* where the claim of a dead one is taken over.
OneBuilderEver ==
    spent.reruns = 0 =>
        \A c \in Tips : \A v, w \in Workers : Building(v, c) /\ Building(w, c) => v = w

\* The platform is told of an environment's versions in publish order.
SyncsForward ==
    \A e \in Envs : \A i, j \in DOMAIN synced[e] : i < j => synced[e][i] <= synced[e][j]

\* Only the worker that holds a lease can end it.
OnlyHolderReleases ==
    [][\A e \in Envs : lease[e] # NoLease /\ lease'[e] = NoLease
          => worker'[lease[e].by] # worker[lease[e].by]]_queueVars

\* A platform outage stalls syncs and leaves the results alone.
SuccessStays ==
    [][\A c \in Tips : results[c].status = "succeeded" => results'[c].status # "failed"]_queueVars

\* A finished result stays until somebody asks for a rebuild: giving back an
\* unfinished claim never takes one away.
ResultsStay ==
    [][\A c \in Tips : Terminal(c) /\ results'[c] = NoResult => rerun.step = "forget"]_queueVars

\* Once the dispatcher has handled an update, its commit has been queued.
NoneSwallowed == \A x \in delivered : <<x[1], published[x[1]][x[2]]>> \in enqueued
=============================================================================
