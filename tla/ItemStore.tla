----------------------------- MODULE ItemStore ------------------------------
(***************************************************************************)
(* The metadata store as it is built (src/src/meta/store.py,               *)
(* ShardedSqliteMetadataStore): a database per shard, a connection per     *)
(* thread and database (src/src/sqlite_support.py), and transactions that  *)
(* take the shard's write lock before they read anything, apply their      *)
(* writes one by one and commit or roll back.  Readers see what has been   *)
(* committed.                                                              *)
(*                                                                         *)
(* The clients are what meta/repository.py is to the store: they read      *)
(* items, and write on conditions made of what they read.                  *)
(*                                                                         *)
(* Abstracted: bodies (the transaction that wrote one stands for it),      *)
(* timestamps and expiry.  A transaction that was committed is not lost.   *)
(***************************************************************************)
EXTENDS Items, FiniteSets

CONSTANTS
    Wanted,           \* what clients want to write, as Wishes below
    Nobody,           \* holds a lock that is free
    MaxTransactions   \* bound: transactions asked for

\* A wish: for some keys, whether to put or delete and on which kind of
\* condition; and the partitions to publish in.
Wishes == [writes : UNION {[S -> [kind : {"put", "delete"},
                                  on : {"none", "absent", "version", "generation"}]] : S \in SUBSET Keys},
           emits : SUBSET Partitions]

ASSUME ItemStoreAssumption ==
    /\ Nobody \notin Clients
    /\ Wanted \subseteq Wishes
    /\ MaxTransactions \in Nat

VARIABLES
    locks,   \* per shard, who holds the write lock
    work,    \* per client, the transaction it is in
    seen,    \* per client and key, the item as it last read it
    missed,  \* history: per client, the keys deleted since it read them
    asked    \* transactions asked for so far

storeVars == <<locks, work, seen, missed, asked>>
allStoreVars == <<itemVars, storeVars>>

NoWork == [step |-> "idle", t |-> [id |-> 0, writes |-> <<>>, emits |-> {}],
           todo |-> {}, view |-> <<>>, emitted |-> FALSE]

StoreInit ==
    /\ ItemsInit
    /\ locks = [s \in Shards |-> Nobody]
    /\ work = [c \in Clients |-> NoWork]
    /\ seen = [c \in Clients |-> [k \in Keys |-> NoItem]]
    /\ missed = [c \in Clients |-> {}]
    /\ asked = 0

\* _connection_for: the database a transaction goes to.
ShardFor(t) == ShardOf[CHOOSE p \in Partitions : p \in Touched(t)]

Leave(c) == work' = [work EXCEPT ![c] = NoWork]

-----------------------------------------------------------------------------
\* Clients

\* get, a statement of its own.
Get(c, k) ==
    /\ work[c].step = "idle"
    /\ seen' = [seen EXCEPT ![c][k] = items[k]]
    /\ missed' = [missed EXCEPT ![c] = @ \ {k}]
    /\ UNCHANGED <<itemVars, locks, work, asked>>

\* A condition made of what was read: a version or a generation only of an item
\* that was there.
ConditionOn(on, item) ==
    [kind |-> on, is |-> IF on = "version" THEN item.version
                         ELSE IF on = "generation" THEN item.generation ELSE 0]

WriteFor(want, item) ==
    [kind |-> want.kind, condition |-> ConditionOn(want.on, item),
     generation |-> IF item = NoItem THEN 1 ELSE item.generation + 1]

\* transact_write: nothing to write is done at once, and more than one
\* partition is refused.
Ask(c, wish) ==
    LET t == [id |-> asked + 1, emits |-> wish.emits,
              writes |-> [k \in DOMAIN wish.writes |-> WriteFor(wish.writes[k], seen[c][k])]]
    IN  /\ work[c].step = "idle"
        /\ asked < MaxTransactions
        /\ \A k \in DOMAIN wish.writes :
              wish.writes[k].on \in {"version", "generation"} => seen[c][k] # NoItem
        /\ asked' = asked + 1
        /\ IF Touched(t) = {} THEN Answer(c, "done") /\ work' = work
           ELSE IF \E p \in Partitions : Touched(t) = {p}
           THEN /\ work' = [work EXCEPT ![c] = [NoWork EXCEPT !.step = "begin", !.t = t]]
                /\ answer' = answer
           ELSE Answer(c, "refused") /\ work' = work
        /\ UNCHANGED <<items, outbox, locks, seen, missed>>

-----------------------------------------------------------------------------
\* Transactions

\* Faulty variant: BEGIN DEFERRED reads without the lock.
BeginDeferred(c) ==
    LET t == work[c].t
    IN  /\ work[c].step = "begin"
        /\ locks' = [locks EXCEPT ![ShardFor(t)] = c]
        /\ work' = [work EXCEPT ![c].step = "apply", ![c].todo = Written(t),
                                ![c].view = [k \in Written(t) |-> items[k]]]
        /\ UNCHANGED <<itemVars, seen, missed, asked>>

\* BEGIN IMMEDIATE waits for the write lock.
Begin(c) ==
    LET t == work[c].t
    IN  /\ work[c].step = "begin"
        /\ locks[ShardFor(t)] = Nobody
        /\ locks' = [locks EXCEPT ![ShardFor(t)] = c]
        /\ work' = [work EXCEPT ![c].step = "apply", ![c].todo = Written(t),
                                ![c].view = [k \in Written(t) |-> items[k]]]
        /\ UNCHANGED <<itemVars, seen, missed, asked>>

Unlocked(c) == [s \in Shards |-> IF locks[s] = c THEN Nobody ELSE locks[s]]

\* One write: the item as the transaction sees it, its condition, and what
\* becomes of it.
Apply(c, k) ==
    LET q == work[c]
    IN  /\ q.step = "apply" /\ k \in q.todo
        /\ Holds(q.t.writes[k].condition, q.view[k])
        /\ work' = [work EXCEPT ![c] = [q EXCEPT !.todo = @ \ {k}, !.view[k] = After(q.t, k, @)]]
        /\ UNCHANGED <<itemVars, locks, seen, missed, asked>>

\* The event is a row like the others.
EmitRow(c) ==
    /\ work[c].step = "apply"
    /\ work[c].t.emits # {} /\ ~work[c].emitted
    /\ work' = [work EXCEPT ![c].emitted = TRUE]
    /\ UNCHANGED <<itemVars, locks, seen, missed, asked>>

\* ROLLBACK, after a condition that does not hold or any other failure.
Rollback(c) ==
    /\ work[c].step = "apply"
    /\ \/ \E k \in work[c].todo : /\ ~Holds(work[c].t.writes[k].condition, work[c].view[k])
                                  /\ Answer(c, "conflict")
       \/ Answer(c, "failed")
    /\ locks' = Unlocked(c)
    /\ Leave(c)
    /\ UNCHANGED <<items, outbox, seen, missed, asked>>

\* Faulty variant: giving up rolls back what is not one's own.
GiveUpAll(c) ==
    /\ work[c].step = "begin"
    /\ locks[ShardFor(work[c].t)] # Nobody
    /\ Answer(c, "failed")
    /\ Leave(c)
    /\ locks' = [locks EXCEPT ![ShardFor(work[c].t)] = Nobody]
    /\ UNCHANGED <<items, outbox, seen, missed, asked>>

\* The lock is not to be had within the busy timeout.
GiveUp(c) ==
    /\ work[c].step = "begin"
    /\ locks[ShardFor(work[c].t)] # Nobody
    /\ Answer(c, "failed")
    /\ Leave(c)
    /\ UNCHANGED <<items, outbox, locks, seen, missed, asked>>

\* COMMIT: what the transaction wrote is what everybody sees.
Commit(c) ==
    LET q == work[c]
        t == q.t
        gone == {k \in Written(t) : q.view[k] = NoItem}
    IN  /\ q.step = "apply" /\ q.todo = {}
        /\ t.emits # {} => q.emitted
        /\ items' = [k \in Keys |-> IF k \in Written(t) THEN q.view[k] ELSE items[k]]
        /\ outbox' = IF q.emitted THEN [outbox EXCEPT ![ShardFor(t)] = Append(@, t.id)]
                     ELSE outbox
        /\ Answer(c, "done")
        /\ locks' = Unlocked(c)
        /\ Leave(c)
        /\ missed' = [d \in Clients |-> missed[d] \cup gone]
        /\ UNCHANGED <<seen, asked>>

\* The process dies, and its connections with it: what was not committed is
\* gone, and so is what it had read.
LoseProcess(c) ==
    /\ work[c].step # "idle"
    /\ locks' = Unlocked(c)
    /\ Leave(c)
    /\ seen' = [seen EXCEPT ![c] = [k \in Keys |-> NoItem]]
    /\ UNCHANGED <<itemVars, missed, asked>>

StoreNext ==
    \E c \in Clients :
        \/ \E k \in Keys : Get(c, k) \/ Apply(c, k)
        \/ \E wish \in Wanted : Ask(c, wish)
        \/ Begin(c) \/ EmitRow(c) \/ Rollback(c) \/ GiveUp(c) \/ Commit(c) \/ LoseProcess(c)

StoreSpec == StoreInit /\ [][StoreNext]_allStoreVars

-----------------------------------------------------------------------------
\* Properties

\* Every item is of its type, and whoever is inside a transaction alone holds the
\* lock of the transaction's shard: BEGIN IMMEDIATE of transact_write.
StoreInv ==
    /\ items \in [Keys -> Item \cup {NoItem}]
    /\ \A s \in Shards : outbox[s] \in Seq(1 .. asked)
    /\ \A c \in Clients : work[c].step = "apply" => locks[ShardFor(work[c].t)] = c
    /\ \A s \in Shards : locks[s] # Nobody =>
          work[locks[s]].step = "apply" /\ ShardFor(work[locks[s]].t) = s

\* Transactions happen at one instant each, all or nothing and in one partition,
\* whatever the threads do meanwhile, and an event is there exactly when what it
\* tells of is: the contract of MetadataStore.transact_write, as Items states it.
AllAtOnce ==
    [][\E c \in Clients :
          \/ \E p \in Partitions : Succeed(c, work[c].t, p)
          \/ Refuse(c) \/ Nothing(c)]_itemVars

\* A write on the version that was read replaces the item that was read, unless the
\* key was deleted in between: the versions of a key that stays count its
\* writes, so a stale read is always told a conflict.
ReplacesWhatItRead ==
    [][\A c \in Clients, k \in Keys :
          /\ Commit(c) /\ k \in Written(work[c].t)
          /\ work[c].t.writes[k].condition.kind = "version"
          => items[k] = seen[c][k] \/ k \in missed[c]]_allStoreVars
=============================================================================
