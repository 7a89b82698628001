---------------------------- MODULE ChangeStream ----------------------------
(***************************************************************************)
(* The change stream: the per-shard outbox that transactions append to     *)
(* (src/src/meta/store.py) and the dispatcher that turns its events into   *)
(* queued builds (src/src/build/pipeline.py).                              *)
(*                                                                         *)
(* A transaction takes its timestamp BEFORE it waits for the shard's write *)
(* lock, so the timestamps of a shard's events need not follow their       *)
(* sequence numbers.  A poll reads the durable cursor, each shard's outbox *)
(* in a statement of its own, sorts the events by timestamp, keeps as many *)
(* as it was asked for, enqueues them one by one and then checkpoints.     *)
(*                                                                         *)
(* The worker is reduced to what it does to the queue (Complete).          *)
(***************************************************************************)
EXTENDS Integers, FiniteSets, Sequences, FiniteSetsExt

CONSTANTS
    Envs,         \* environments, each a partition
    ShardCount,   \* shards are 1 .. ShardCount
    ShardOf,      \* the shard an environment lives in
    Writers,      \* threads committing mutations
    Dispatchers,  \* processes polling under one consumer name
    Limits,       \* how many events a poll may be asked to take
    MaxEvents,    \* bound: events published
    MaxClock,     \* bound: ticks of the wall clock
    MaxCrashes    \* bound: polls that die

Shards == 1 .. ShardCount

ASSUME ChangeStreamAssumption ==
    /\ ShardCount \in Nat \ {0}
    /\ ShardOf \in [Envs -> Shards]
    /\ Limits \subseteq Nat \ {0}
    /\ MaxEvents \in Nat /\ MaxClock \in Nat /\ MaxCrashes \in Nat

VARIABLES
    clock,    \* the wall clock, in units that matter
    writing,  \* a writer's mutation between its timestamp and its commit
    outbox,   \* per shard, in sequence order
    ops,      \* operations committed in each environment
    cursor,   \* the consumer's durable position in each shard
    queue,    \* entries of the build queue: <<environment, operation>>
    queued,   \* history: every entry that was ever put on the queue
    poll,     \* what each dispatcher is doing
    crashes   \* polls that have died

vars == <<clock, writing, outbox, ops, cursor, queue, queued, poll, crashes>>

NoWrite == [at |-> -1]

\* build: whether the event is an update of the environment's build ref.
Event == [env : Envs, op : Nat, at : Nat, build : BOOLEAN]

Idle == [step |-> "idle"]

Published == UNION {{outbox[s][i] : i \in DOMAIN outbox[s]} : s \in Shards}

EntryOf(e) == <<e.env, e.op>>

Init ==
    /\ clock = 0
    /\ writing = [w \in Writers |-> NoWrite]
    /\ outbox = [s \in Shards |-> <<>>]
    /\ ops = [e \in Envs |-> 0]
    /\ cursor = [s \in Shards |-> 0]
    /\ queue = {}
    /\ queued = {}
    /\ poll = [d \in Dispatchers |-> Idle]
    /\ crashes = 0

-----------------------------------------------------------------------------
\* Writers

Tick ==
    /\ clock < MaxClock
    /\ clock' = clock + 1
    /\ UNCHANGED <<writing, outbox, ops, cursor, queue, queued, poll, crashes>>

\* transact_write reads the clock, then waits for BEGIN IMMEDIATE.
Stamp(w, e, build) ==
    /\ writing[w] = NoWrite
    /\ Cardinality(Published) + Cardinality({v \in Writers : writing[v] # NoWrite}) < MaxEvents
    /\ writing' = [writing EXCEPT ![w] = [at |-> clock, env |-> e, build |-> build]]
    /\ UNCHANGED <<clock, outbox, ops, cursor, queue, queued, poll, crashes>>

\* The transaction: the operation gets the environment's next number and its
\* event the shard's next sequence.
Commit(w) ==
    LET m == writing[w]
    IN  /\ m # NoWrite
        /\ ops' = [ops EXCEPT ![m.env] = @ + 1]
        /\ outbox' = [outbox EXCEPT ![ShardOf[m.env]] =
                        Append(@, [env |-> m.env, op |-> ops[m.env] + 1,
                                   at |-> m.at, build |-> m.build])]
        /\ writing' = [writing EXCEPT ![w] = NoWrite]
        /\ UNCHANGED <<clock, cursor, queue, queued, poll, crashes>>

-----------------------------------------------------------------------------
\* The dispatcher

\* poll begins with the durable cursor.
Begin(d, limit) ==
    /\ poll[d] = Idle
    /\ poll' = [poll EXCEPT ![d] = [step |-> "read", shard |-> 1, from |-> cursor,
                                    limit |-> limit, got |-> {}]]
    /\ UNCHANGED <<clock, writing, outbox, ops, cursor, queue, queued, crashes>>

\* Faulty variant: the shard is resumed one event too far.
RowsTooLate(s, from, limit) ==
    {[shard |-> s, seq |-> i, event |-> outbox[s][i]] :
        i \in {j \in DOMAIN outbox[s] : from + 1 < j /\ j <= from + 1 + limit}}

\* What one shard's statement returns: at most so many events past the cursor.
Rows(s, from, limit) ==
    {[shard |-> s, seq |-> i, event |-> outbox[s][i]] :
        i \in {j \in DOMAIN outbox[s] : from < j /\ j <= from + limit}}

\* Faulty variant: the newest of a shard's simultaneous events first.
EarlierNewestFirst(a, b) ==
    \/ a.event.at < b.event.at
    \/ a.event.at = b.event.at /\ a.shard < b.shard
    \/ a.event.at = b.event.at /\ a.shard = b.shard /\ a.seq > b.seq

\* read_events sorts by time, then shard, then sequence.
Earlier(a, b) ==
    \/ a.event.at < b.event.at
    \/ a.event.at = b.event.at /\ a.shard < b.shard
    \/ a.event.at = b.event.at /\ a.shard = b.shard /\ a.seq < b.seq

\* The slice it returns: the earliest of the rows, up to the limit.
FirstOf(rows, limit) ==
    {first \in SUBSET rows :
        /\ Cardinality(first) <= limit
        /\ first = rows \/ Cardinality(first) = limit
        /\ \A a \in first : \A b \in rows \ first : Earlier(a, b)}

\* StreamCursor.advanced: per shard, the furthest event taken.
Advanced(from, batch) ==
    [s \in Shards |-> Max({from[s]} \cup {x.seq : x \in {y \in batch : y.shard = s}})]

\* One statement of read_events; after the last of them the poll knows its
\* batch and where its cursor will be.
ReadShard(d) ==
    /\ poll[d].step = "read"
    /\ LET p   == poll[d]
           got == p.got \cup Rows(p.shard, p.from[p.shard], p.limit)
       IN  \/ /\ p.shard < ShardCount
              /\ poll' = [poll EXCEPT ![d] = [p EXCEPT !.shard = @ + 1, !.got = got]]
           \/ /\ p.shard = ShardCount
              /\ \E batch \in FirstOf(got, p.limit) :
                    poll' = [poll EXCEPT ![d] =
                                IF batch = {} THEN Idle
                                ELSE [step |-> "enqueue", batch |-> batch,
                                      goal |-> Advanced(p.from, batch)]]
    /\ UNCHANGED <<clock, writing, outbox, ops, cursor, queue, queued, crashes>>

\* The next event of the batch: BuildQueue.enqueue puts its entry unless it is
\* there.
Enqueue(d) ==
    /\ poll[d].step = "enqueue"
    /\ \E x \in poll[d].batch :
        /\ \A y \in poll[d].batch \ {x} : Earlier(x, y)
        /\ LET new == IF x.event.build THEN {EntryOf(x.event)} ELSE {}
           IN  /\ queue' = queue \cup new
               /\ queued' = queued \cup new
        /\ poll' = [poll EXCEPT ![d].batch = @ \ {x}]
    /\ UNCHANGED <<clock, writing, outbox, ops, cursor, crashes>>

\* Faulty variant: the cursor moves before the batch is queued.
CheckpointEarly(d) ==
    /\ poll[d].step = "enqueue"
    /\ cursor' = poll[d].goal
    /\ poll' = [poll EXCEPT ![d] = Idle]
    /\ UNCHANGED <<clock, writing, outbox, ops, queue, queued, crashes>>

\* Only when the whole batch is durably queued does the cursor move.
Checkpoint(d) ==
    /\ poll[d].step = "enqueue"
    /\ poll[d].batch = {}
    /\ cursor' = poll[d].goal
    /\ poll' = [poll EXCEPT ![d] = Idle]
    /\ UNCHANGED <<clock, writing, outbox, ops, queue, queued, crashes>>

Crash(d) ==
    /\ poll[d] # Idle
    /\ crashes < MaxCrashes
    /\ crashes' = crashes + 1
    /\ poll' = [poll EXCEPT ![d] = Idle]
    /\ UNCHANGED <<clock, writing, outbox, ops, cursor, queue, queued>>

\* A worker finishes an environment's oldest entry, which leaves the queue.
Complete(x) ==
    /\ x \in queue
    /\ \A y \in queue : y[1] = x[1] => x[2] <= y[2]
    /\ queue' = queue \ {x}
    /\ UNCHANGED <<clock, writing, outbox, ops, cursor, queued, poll, crashes>>

Poll(d) == (\E n \in Limits : Begin(d, n)) \/ ReadShard(d) \/ Enqueue(d) \/ Checkpoint(d)

Next ==
    \/ Tick
    \/ \E w \in Writers : Commit(w) \/ \E e \in Envs, b \in BOOLEAN : Stamp(w, e, b)
    \/ \E d \in Dispatchers : Poll(d) \/ Crash(d)
    \/ \E x \in queue : Complete(x)

Spec == Init /\ [][Next]_vars

\* A dispatcher polls in a loop.
FairSpec == Spec /\ \A d \in Dispatchers : WF_vars(Poll(d))

-----------------------------------------------------------------------------
\* Properties

\* The shape of the stream, the queue and the polls; no cursor is past the
\* end of its shard's outbox, wherever _checkpoint puts it.
TypeOK ==
    /\ clock \in 0 .. MaxClock
    /\ \A w \in Writers : writing[w] = NoWrite
          \/ writing[w] \in [at : Nat, env : Envs, build : BOOLEAN]
    /\ outbox \in [Shards -> Seq(Event)]
    /\ ops \in [Envs -> Nat]
    /\ \A s \in Shards : cursor[s] \in 0 .. Len(outbox[s])
    /\ queue \subseteq queued
    /\ queued \subseteq Envs \X Nat
    /\ \A d \in Dispatchers : poll[d].step \in {"idle", "read", "enqueue"}
    /\ crashes \in 0 .. MaxCrashes

\* No event is lost: whatever the durable cursor has passed has been queued,
\* if it was worth building.
NothingSkipped ==
    \A s \in Shards : \A i \in 1 .. cursor[s] :
        outbox[s][i].build => EntryOf(outbox[s][i]) \in queued

\* Within one partition, a batch is in publish order.
BatchInPublishOrder ==
    \A d \in Dispatchers : poll[d].step = "enqueue" =>
        \A x, y \in poll[d].batch :
            x.event.env = y.event.env /\ Earlier(x, y) => x.event.op < y.event.op

\* Every build event is queued in the end, though polls die and overlap: the
\* dispatchers catch up with the writers again and again.
EveryBuildQueued == []<>({EntryOf(e) : e \in {x \in Published : x.build}} \subseteq queued)

\* What a poll has read is fit to be queued: its cursors are in range and its
\* batch is in the order the environments published it.
StreamInv == TypeOK /\ BatchInPublishOrder

-----------------------------------------------------------------------------
\* What the documentation says and the code does not keep: TLC refutes this
\* once the constants let the case arise (README, "Divergences").

\* An operation is queued once, however often its event is delivered.
QueuedOnce == [][\A x \in queue' \ queue : x \notin queued]_vars
=============================================================================
