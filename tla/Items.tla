------------------------------- MODULE Items -------------------------------
(***************************************************************************)
(* What the metadata store promises whoever writes to it                   *)
(* (src/src/meta/store.py, MetadataStore): a transaction is all or nothing *)
(* and happens at one instant, its conditions judged on the items as they  *)
(* are at that instant and its event published with it; and it stays       *)
(* inside one partition.                                                   *)
(***************************************************************************)
EXTENDS Naturals, Sequences

CONSTANTS
    Clients,      \* threads, each with connections of its own
    Keys,         \* keys of items
    PartitionOf,  \* the partition each key is in
    ShardOf,      \* the shard each partition is in
    NoItem       \* no item

Partitions == DOMAIN ShardOf
Shards == {ShardOf[p] : p \in Partitions}

ASSUME ItemsAssumption ==
    /\ PartitionOf \in [Keys -> Partitions]
    /\ ShardOf = [p \in Partitions |-> ShardOf[p]]

\* An item: the transaction that wrote it stands for its body.
Item == [body : Nat \ {0}, version : Nat \ {0}, generation : Nat]

ASSUME NoItemAssumption == NoItem \notin Item

Condition == [kind : {"none", "absent", "version", "generation"}, is : Nat]
ItemWrite == [kind : {"put", "delete"}, condition : Condition, generation : Nat]

\* A transaction writes a key at most once, and publishes at most one event,
\* as all that src/src writes do.
Transaction ==
    {t \in [id : Nat \ {0}, writes : UNION {[S -> ItemWrite] : S \in SUBSET Keys},
            emits : SUBSET Partitions] : t.emits = {} \/ \E p \in Partitions : t.emits = {p}}

Written(t) == DOMAIN t.writes
Touched(t) == {PartitionOf[k] : k \in Written(t)} \cup t.emits

Holds(condition, item) ==
    \/ condition.kind = "none"
    \/ condition.kind = "absent" /\ item = NoItem
    \/ condition.kind = "version" /\ item # NoItem /\ item.version = condition.is
    \/ condition.kind = "generation" /\ item # NoItem /\ item.generation = condition.is

\* Faulty variant: a put in place of an item counts anew.
AfterAnew(t, k, item) ==
    IF t.writes[k].kind = "delete" THEN NoItem
    ELSE [body |-> t.id, version |-> 1, generation |-> t.writes[k].generation]

\* What a write makes of an item: a put goes on from the version that is there,
\* and counts from one where nothing is.
After(t, k, item) ==
    IF t.writes[k].kind = "delete" THEN NoItem
    ELSE [body |-> t.id, version |-> IF item = NoItem THEN 1 ELSE item.version + 1,
          generation |-> t.writes[k].generation]

VARIABLES
    items,   \* per key, its item
    outbox,  \* per shard, the events published: their transactions, in order
    answer   \* per client, what its last call came to

itemVars == <<items, outbox, answer>>

ItemsInit ==
    /\ items = [k \in Keys |-> NoItem]
    /\ outbox = [s \in Shards |-> <<>>]
    /\ answer = [c \in Clients |-> "none"]

Answer(c, a) == answer' = [answer EXCEPT ![c] = a]

Succeed(c, t, p) ==
    /\ Touched(t) = {p}
    /\ \A k \in Written(t) : Holds(t.writes[k].condition, items[k])
    /\ items' = [k \in Keys |-> IF k \in Written(t) THEN After(t, k, items[k]) ELSE items[k]]
    /\ outbox' = IF t.emits = {} THEN outbox
                 ELSE [outbox EXCEPT ![ShardOf[p]] = Append(@, t.id)]
    /\ Answer(c, "done")

\* A condition does not hold, or the call fails, or it is refused: nothing
\* happened.
Refuse(c) ==
    /\ \E a \in {"conflict", "failed", "refused"} : Answer(c, a)
    /\ UNCHANGED <<items, outbox>>

Nothing(c) == Answer(c, "done") /\ UNCHANGED <<items, outbox>>

ItemsNext ==
    \E c \in Clients :
        \/ \E t \in Transaction, p \in Partitions : Succeed(c, t, p)
        \/ Refuse(c) \/ Nothing(c)

ItemsSpec == ItemsInit /\ [][ItemsNext]_itemVars
=============================================================================
