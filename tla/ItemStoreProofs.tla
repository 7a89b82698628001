-------------------------- MODULE ItemStoreProofs ---------------------------
(***************************************************************************)
(* That the metadata store keeps what Items promises, for any number of    *)
(* clients, keys, partitions and shards and whatever the clients want to   *)
(* write.                                                                  *)
(*                                                                         *)
(* Why: whoever is inside a transaction holds the lock of the shard it     *)
(* writes to, so the items it has read are what they were, and what it has *)
(* made of them is what would be made of them now.                         *)
(***************************************************************************)
EXTENDS ItemStore, TLAPS

Held == Item \cup {NoItem}
Views == UNION {[S -> Held] : S \in SUBSET Keys}

Writes(t) ==
    /\ t.writes \in [Written(t) -> ItemWrite] /\ Written(t) \subseteq Keys
    /\ t.emits \subseteq Partitions

\* What a client is doing has a shape.
Works == [step : {"idle", "begin", "apply"},
          t : {t \in [id : Nat, writes : UNION {[S -> ItemWrite] : S \in SUBSET Keys},
                      emits : SUBSET Partitions] : TRUE},
          todo : SUBSET Keys, view : Views, emitted : BOOLEAN]

Types ==
    /\ items \in [Keys -> Held]
    /\ outbox \in [Shards -> Seq(1 .. asked)]
    /\ asked \in Nat
    /\ locks \in [Shards -> Clients \cup {Nobody}]
    /\ work \in [Clients -> Works]
    /\ seen \in [Clients -> [Keys -> Held]]
    /\ missed \in [Clients -> SUBSET Keys]
    /\ answer \in [Clients -> {"none", "done", "conflict", "failed", "refused"}]

\* A transaction that was accepted: it has one partition, and its conditions on
\* versions are on what its client has read.
Accepted(c) ==
    LET t == work[c].t
    IN  /\ t.id \in 1 .. asked
        /\ \E p \in Partitions : Touched(t) = {p}
        /\ \A k \in Written(t) : t.writes[k].condition.kind = "version" =>
              seen[c][k] # NoItem /\ t.writes[k].condition.is = seen[c][k].version

\* A transaction under way has the lock, and what it sees follows from the items.
Inside(c) ==
    LET q == work[c]
        t == q.t
    IN  /\ locks[ShardFor(t)] = c
        /\ q.todo \subseteq Written(t)
        /\ DOMAIN q.view = Written(t)
        /\ \A k \in q.todo : q.view[k] = items[k]
        /\ \A k \in Written(t) \ q.todo :
              q.view[k] = After(t, k, items[k]) /\ Holds(t.writes[k].condition, items[k])
        /\ q.emitted => t.emits # {}

WorkFits(c) ==
    /\ work[c].step # "idle" => Accepted(c)
    /\ work[c].step = "begin" => ~work[c].emitted
    /\ work[c].step = "apply" => Inside(c)

LocksFit ==
    \A s \in Shards : locks[s] # Nobody =>
        work[locks[s]].step = "apply" /\ ShardFor(work[locks[s]].t) = s

\* What a client has read is there still, or has been written over since.
SeenFits ==
    \A c \in Clients, k \in Keys : seen[c][k] # NoItem =>
        \/ k \in missed[c]
        \/ items[k] # NoItem /\ (items[k] = seen[c][k] \/ items[k].version > seen[c][k].version)

StoreIInv == Types /\ (\A c \in Clients : WorkFits(c)) /\ LocksFit /\ SeenFits

-----------------------------------------------------------------------------
\* Transactions

LEMMA ShardsFit ==
  ASSUME NEW t, NEW p \in Partitions, Touched(t) = {p}
  PROVE  ShardFor(t) = ShardOf[p] /\ ShardFor(t) \in Shards
  <1>1. (CHOOSE o \in Partitions : o \in Touched(t)) = p
    OBVIOUS
  <1> QED BY <1>1 DEF ShardFor, Shards

LEMMA WritesFit ==
  ASSUME NEW t, NEW p \in Partitions, Touched(t) = {p}, NEW k \in Written(t)
  PROVE  PartitionOf[k] = p /\ ShardFor(t) = ShardOf[PartitionOf[k]]
  BY ShardsFit DEF Touched

\* What a write leaves behind is an item, or nothing.
LEMMA AfterFits ==
  ASSUME NEW t, NEW k \in Keys, NEW item \in Held, t.writes[k] \in ItemWrite, t.id \in Nat \ {0}
  PROVE  /\ After(t, k, item) \in Held
         /\ After(t, k, item) # NoItem /\ item # NoItem => After(t, k, item).version > item.version
         /\ item.version \in Nat \/ item = NoItem
  <1>1. NoItem \notin Item
    BY NoItemAssumption
  <1>2. item # NoItem => item.version \in Nat \ {0}
    BY DEF Held, Item
  <1>3. t.writes[k].generation \in Nat
    BY DEF ItemWrite
  <1>4. CASE t.writes[k].kind = "delete"
    BY <1>2, <1>4 DEF After, Held
  <1>5. CASE t.writes[k].kind # "delete"
    <2>1. After(t, k, item) = [body |-> t.id, version |-> IF item = NoItem THEN 1 ELSE item.version + 1,
                               generation |-> t.writes[k].generation]
      BY <1>5 DEF After
    <2>2. (IF item = NoItem THEN 1 ELSE item.version + 1) \in Nat \ {0}
      BY <1>2
    <2>3. After(t, k, item) \in Item
      BY <2>1, <2>2, <1>3 DEF Item
    <2> QED BY <1>2, <2>1, <2>3 DEF Held
  <1> QED BY <1>4, <1>5

\* Two clients do not write to one key at once.
LEMMA Alone ==
  ASSUME StoreIInv, NEW c \in Clients, NEW d \in Clients, work[c].step = "apply", work[d].step = "apply",
         NEW k \in Written(work[c].t), k \in Written(work[d].t)
  PROVE  c = d
  <1>1. WorkFits(c) /\ WorkFits(d)
    BY DEF StoreIInv
  <1>2. PICK p \in Partitions : Touched(work[c].t) = {p}
    BY <1>1 DEF WorkFits, Accepted
  <1>3. PICK o \in Partitions : Touched(work[d].t) = {o}
    BY <1>1 DEF WorkFits, Accepted
  <1>4. ShardFor(work[c].t) = ShardFor(work[d].t)
    BY <1>2, <1>3, WritesFit
  <1> QED BY <1>1, <1>4 DEF WorkFits, Inside

\* One client may take up or leave a transaction while the items stay.
LEMMA OneMoves ==
  ASSUME StoreIInv, NEW c \in Clients, NEW q \in Works, work' = [work EXCEPT ![c] = q],
         items' = items, missed' = missed,
         seen' = seen \/ seen' = [seen EXCEPT ![c] = [k \in Keys |-> NoItem]],
         asked' \in Nat, asked <= asked', outbox' \in [Shards -> Seq(1 .. asked')],
         answer' \in [Clients -> {"none", "done", "conflict", "failed", "refused"}],
         locks' \in [Shards -> Clients \cup {Nobody}],
         \A s \in Shards : locks'[s] = locks[s] \/ (locks[s] \in {c, Nobody} /\ locks'[s] \in {c, Nobody}),
         WorkFits(c)',
         \A s \in Shards : locks'[s] = c => q.step = "apply" /\ ShardFor(q.t) = s
  PROVE  StoreIInv'
  <1>1. Types'
    <2>1. seen' \in [Clients -> [Keys -> Held]]
      <3>1. seen \in [Clients -> [Keys -> Held]]
        BY DEF StoreIInv, Types
      <3>2. [k \in Keys |-> NoItem] \in [Keys -> Held]
        BY DEF Held
      <3> QED BY <3>1, <3>2
    <2> QED BY <2>1 DEF StoreIInv, Types
  <1>2. work'[c] = q /\ \A d \in Clients : d # c => work'[d] = work[d] /\ seen'[d] = seen[d]
    BY DEF StoreIInv, Types
  <1>3. ASSUME NEW d \in Clients PROVE WorkFits(d)'
    <2>1. CASE d = c
      BY <2>1
    <2>2. CASE d # c
      <3>1. WorkFits(d) /\ work'[d] = work[d] /\ seen'[d] = seen[d] /\ asked \in Nat
        BY <1>2, <2>2 DEF StoreIInv, Types
      <3>2. ASSUME Accepted(d) PROVE Accepted(d)'
        <4>1. work[d].t.id \in 1 .. asked'
          BY <3>1, <3>2 DEF Accepted
        <4> QED BY <3>1, <3>2, <4>1 DEF Accepted, Touched, Written
      <3>3. ASSUME work[d].step = "apply" PROVE Inside(d)'
        <4>1. PICK p \in Partitions : Touched(work[d].t) = {p}
          BY <3>1, <3>3 DEF WorkFits, Accepted
        <4>2. ShardFor(work[d].t) \in Shards /\ locks[ShardFor(work[d].t)] = d
          BY <3>1, <3>3, <4>1, ShardsFit DEF WorkFits, Inside
        <4>3. d # Nobody
          BY ItemStoreAssumption
        <4>4. locks'[ShardFor(work[d].t)] = d
          BY <2>2, <4>2, <4>3
        <4> QED BY <3>1, <3>3, <4>4 DEF WorkFits, Inside
      <3> QED BY <3>1, <3>2, <3>3 DEF WorkFits
    <2> QED BY <2>1, <2>2
  <1>4. LocksFit'
    <2> SUFFICES ASSUME NEW s \in Shards, locks'[s] # Nobody
                 PROVE  work'[locks'[s]].step = "apply" /\ ShardFor(work'[locks'[s]].t) = s
      BY DEF LocksFit
    <2>1. CASE locks'[s] = c
      BY <1>2, <2>1
    <2>2. CASE locks'[s] # c
      <3>1. locks'[s] = locks[s] /\ locks[s] \in Clients
        BY <2>2 DEF StoreIInv, Types
      <3> QED BY <1>2, <2>2, <3>1 DEF StoreIInv, LocksFit
    <2> QED BY <2>1, <2>2
  <1>5. SeenFits'
    <2>1. \A d \in Clients, k \in Keys : seen'[d][k] # NoItem => seen'[d][k] = seen[d][k]
      <3> SUFFICES ASSUME NEW d \in Clients, NEW k \in Keys
                   PROVE  seen'[d][k] # NoItem => seen'[d][k] = seen[d][k]
        OBVIOUS
      <3>1. seen \in [Clients -> [Keys -> Held]]
        BY DEF StoreIInv, Types
      <3>2. CASE seen' = seen
        BY <3>2
      <3>3. CASE seen' = [seen EXCEPT ![c] = [h \in Keys |-> NoItem]]
        <4>1. d = c => seen'[d] = [h \in Keys |-> NoItem]
          BY <3>1, <3>3
        <4>2. d # c => seen'[d] = seen[d]
          BY <3>1, <3>3
        <4> QED BY <4>1, <4>2
      <3> QED BY <3>2, <3>3
    <2> QED BY <2>1 DEF StoreIInv, SeenFits
  <1> QED BY <1>1, <1>3, <1>4, <1>5 DEF StoreIInv

LEMMA NoWorkFits == NoWork \in Works /\ NoWork.step = "idle"
  <1>1. <<>> \in [{} -> Held] /\ <<>> \in [{} -> ItemWrite]
    OBVIOUS
  <1>2. <<>> \in Views /\ <<>> \in UNION {[S -> ItemWrite] : S \in SUBSET Keys}
    BY <1>1 DEF Views
  <1> QED BY <1>2 DEF NoWork, Works

\* A client that leaves its transaction leaves its lock.
LEMMA LeaveKeeps ==
  ASSUME StoreIInv, NEW c \in Clients, Leave(c), items' = items, outbox' = outbox, asked' = asked,
         missed' = missed,
         seen' = seen \/ seen' = [seen EXCEPT ![c] = [k \in Keys |-> NoItem]],
         answer' \in [Clients -> {"none", "done", "conflict", "failed", "refused"}],
         locks' = Unlocked(c) \/ (locks' = locks /\ work[c].step # "apply")
  PROVE  StoreIInv'
  <1>1. Types
    BY DEF StoreIInv
  <1>2. c # Nobody
    BY ItemStoreAssumption
  <1>3. /\ locks' \in [Shards -> Clients \cup {Nobody}]
        /\ \A s \in Shards : locks'[s] # c
        /\ \A s \in Shards : locks'[s] = locks[s] \/ (locks[s] \in {c, Nobody} /\ locks'[s] \in {c, Nobody})
    <2>1. CASE locks' = Unlocked(c)
      BY <1>1, <1>2, <2>1 DEF Unlocked, Types
    <2>2. CASE locks' = locks /\ work[c].step # "apply"
      BY <1>1, <1>2, <2>2 DEF Types, StoreIInv, LocksFit
    <2> QED BY <2>1, <2>2
  <1>4. WorkFits(c)'
    BY <1>1, NoWorkFits DEF WorkFits, Leave, Types
  <1>5. asked' \in Nat /\ asked <= asked' /\ outbox' \in [Shards -> Seq(1 .. asked')]
    BY <1>1 DEF Types
  <1>6. work' = [work EXCEPT ![c] = NoWork]
    BY DEF Leave
  <1>7. \A s \in Shards : locks'[s] = c => NoWork.step = "apply" /\ ShardFor(NoWork.t) = s
    BY <1>3
  <1> QED BY <1>3, <1>4, <1>5, <1>6, <1>7, NoWorkFits, OneMoves

-----------------------------------------------------------------------------
\* Steps

LEMMA Grown ==
  ASSUME NEW n \in Nat, NEW m \in Nat, n <= m, NEW q \in Seq(1 .. n)
  PROVE  q \in Seq(1 .. m)
  <1>1. q \in [1 .. Len(q) -> 1 .. m] /\ Len(q) \in Nat
    OBVIOUS
  <1> QED BY <1>1

LEMMA GetKeeps ==
  ASSUME StoreIInv, NEW c \in Clients, NEW k \in Keys, Get(c, k)
  PROVE  StoreIInv'
  <1>1. Types
    BY DEF StoreIInv
  <1>2. seen'[c][k] = items[k] /\ \A d \in Clients, h \in Keys :
           <<d, h>> # <<c, k>> => seen'[d][h] = seen[d][h] /\ (h \in missed[d] => h \in missed'[d])
    BY <1>1 DEF Get, Types
  <1>3. Types'
    BY <1>1 DEF Get, Types, itemVars
  <1>4. ASSUME NEW d \in Clients PROVE WorkFits(d)'
    <2>1. CASE d = c
      BY <2>1 DEF Get, WorkFits
    <2>2. CASE d # c
      <3>1. seen'[d] = seen[d] /\ WorkFits(d)
        BY <1>1, <2>2 DEF Get, Types, StoreIInv
      <3> QED BY <3>1 DEF Get, itemVars, WorkFits, Accepted, Inside
    <2> QED BY <2>1, <2>2
  <1>5. SeenFits'
    <2>1. items' = items
      BY DEF Get, itemVars
    <2> QED BY <1>2, <2>1 DEF StoreIInv, SeenFits
  <1>6. LocksFit'
    BY DEF StoreIInv, LocksFit, Get, itemVars
  <1> QED BY <1>3, <1>4, <1>5, <1>6 DEF StoreIInv

\* What a client asks for is a transaction.
LEMMA AskedFits ==
  ASSUME StoreIInv, NEW c \in Clients, NEW wish \in Wishes,
         \A k \in DOMAIN wish.writes :
            wish.writes[k].on \in {"version", "generation"} => seen[c][k] # NoItem,
         NEW writes, writes = [k \in DOMAIN wish.writes |-> WriteFor(wish.writes[k], seen[c][k])]
  PROVE  /\ writes \in UNION {[S -> ItemWrite] : S \in SUBSET Keys}
         /\ \A k \in DOMAIN writes : writes[k].condition.kind = "version" =>
               seen[c][k] # NoItem /\ writes[k].condition.is = seen[c][k].version
  <1> DEFINE D == DOMAIN wish.writes
             W == [kind : {"put", "delete"}, on : {"none", "absent", "version", "generation"}]
  <1>1. D \subseteq Keys /\ wish.writes \in [D -> W]
    BY DEF Wishes
  <1>2. ASSUME NEW k \in D
        PROVE  /\ WriteFor(wish.writes[k], seen[c][k]) \in ItemWrite
               /\ WriteFor(wish.writes[k], seen[c][k]).condition.kind = "version" =>
                    /\ seen[c][k] # NoItem
                    /\ WriteFor(wish.writes[k], seen[c][k]).condition.is = seen[c][k].version
    <2> DEFINE want == wish.writes[k]
               item == seen[c][k]
    <2>1. want \in W /\ item \in Held /\ (want.on \in {"version", "generation"} => item # NoItem)
      BY <1>1 DEF StoreIInv, Types
    <2> HIDE DEF want, item
    <2>2. item # NoItem => item.version \in Nat /\ item.generation \in Nat
      BY <2>1 DEF Held, Item
    <2>3. ConditionOn(want.on, item) \in Condition
      BY <2>1, <2>2 DEF ConditionOn, Condition
    <2>4. (IF item = NoItem THEN 1 ELSE item.generation + 1) \in Nat
      BY <2>2
    <2>5. WriteFor(want, item) \in ItemWrite
      BY <2>1, <2>3, <2>4 DEF WriteFor, ItemWrite
    <2>6. WriteFor(want, item).condition = ConditionOn(want.on, item)
      BY DEF WriteFor
    <2>7. ConditionOn(want.on, item).kind = "version" =>
             item # NoItem /\ ConditionOn(want.on, item).is = item.version
      BY <2>1 DEF ConditionOn
    <2> QED BY <2>5, <2>6, <2>7 DEF want, item
  <1>3. writes \in [D -> ItemWrite] /\ DOMAIN writes = D
    BY <1>2
  <1> QED BY <1>1, <1>2, <1>3

LEMMA AskKeeps ==
  ASSUME StoreIInv, NEW c \in Clients, NEW wish \in Wanted, Ask(c, wish)
  PROVE  StoreIInv'
  <1> DEFINE W == [k \in DOMAIN wish.writes |-> WriteFor(wish.writes[k], seen[c][k])]
             t == [id |-> asked + 1, emits |-> wish.emits, writes |-> W]
             Q == [NoWork EXCEPT !.step = "begin", !.t = t]
  <1>1. Types /\ WorkFits(c) /\ asked \in Nat /\ wish \in Wishes /\ work[c].step = "idle"
    BY ItemStoreAssumption DEF StoreIInv, Types, Ask
  <1>2. /\ W \in UNION {[S -> ItemWrite] : S \in SUBSET Keys}
        /\ \A k \in DOMAIN W : W[k].condition.kind = "version" =>
              seen[c][k] # NoItem /\ W[k].condition.is = seen[c][k].version
    <2>1. \A k \in DOMAIN wish.writes :
             wish.writes[k].on \in {"version", "generation"} => seen[c][k] # NoItem
      BY DEF Ask
    <2>2. W = [k \in DOMAIN wish.writes |-> WriteFor(wish.writes[k], seen[c][k])]
      OBVIOUS
    <2> HIDE DEF W
    <2> QED BY ONLY StoreIInv, c \in Clients, <1>1, <2>1, <2>2, AskedFits
  <1>3. /\ items' = items /\ seen' = seen /\ missed' = missed /\ locks' = locks /\ outbox' = outbox
        /\ asked' = asked + 1
        /\ \/ work' = work /\ (Answer(c, "done") \/ Answer(c, "refused"))
           \/ /\ work' = [work EXCEPT ![c] = Q] /\ answer' = answer
              /\ \E p \in Partitions : Touched(t) = {p}
    BY DEF Ask
  <1>4. outbox' \in [Shards -> Seq(1 .. asked')]
    BY <1>1, <1>3, Grown DEF Types
  <1>5. answer' \in [Clients -> {"none", "done", "conflict", "failed", "refused"}]
    BY <1>1, <1>3 DEF Types, Answer
  <1>6. /\ locks' \in [Shards -> Clients \cup {Nobody}]
        /\ \A s \in Shards : locks'[s] # c
    BY <1>1, <1>3, ItemStoreAssumption DEF Types, StoreIInv, LocksFit
  <1>7. asked' \in Nat /\ asked <= asked'
    BY <1>1, <1>3
  <1>8. CASE work' = work
    <2>1. work' = [work EXCEPT ![c] = work[c]] /\ work[c] \in Works
      BY <1>1, <1>8 DEF Types
    <2>2. WorkFits(c)'
      BY <1>1, <1>8 DEF WorkFits
    <2> QED BY <1>3, <1>4, <1>5, <1>6, <1>7, <2>1, <2>2, OneMoves
  <1>9. CASE /\ work' = [work EXCEPT ![c] = Q]
             /\ \E p \in Partitions : Touched(t) = {p}
    <2>1. t \in [id : Nat, writes : UNION {[S -> ItemWrite] : S \in SUBSET Keys}, emits : SUBSET Partitions]
      BY <1>1, <1>2 DEF Wishes
    <2>2. /\ Q \in Works /\ Q.step = "begin" /\ Q.t = t /\ ~Q.emitted
      BY <2>1, NoWorkFits DEF Works, NoWork
    <2>3. work'[c] = Q
      BY <1>1, <1>9 DEF Types
    <2>4. t.id \in 1 .. asked' /\ Written(t) = DOMAIN W /\ t.writes = W
      BY <1>1, <1>3 DEF Written
    <2> HIDE DEF Q, t, W
    <2>5. Accepted(c)'
      BY <1>2, <1>3, <1>9, <2>2, <2>3, <2>4 DEF Accepted
    <2>6. WorkFits(c)'
      BY <2>2, <2>3, <2>5 DEF WorkFits
    <2> QED BY <1>3, <1>4, <1>5, <1>6, <1>7, <1>9, <2>2, <2>6, OneMoves
  <1> QED BY <1>3, <1>8, <1>9

\* Inside a transaction only the client's own work moves.
LEMMA InsideMoves ==
  ASSUME StoreIInv, NEW c \in Clients, work[c].step = "apply", NEW q \in Works,
         q.step = "apply", q.t = work[c].t, work' = [work EXCEPT ![c] = q],
         items' = items, outbox' = outbox, answer' = answer, locks' = locks,
         seen' = seen, missed' = missed, asked' = asked,
         q.todo \subseteq Written(q.t), DOMAIN q.view = Written(q.t),
         \A k \in q.todo : q.view[k] = items[k],
         \A k \in Written(q.t) \ q.todo :
              q.view[k] = After(q.t, k, items[k]) /\ Holds(q.t.writes[k].condition, items[k]),
         q.emitted => q.t.emits # {}
  PROVE  StoreIInv'
  <1>1. Types /\ WorkFits(c) /\ work'[c] = q
    BY DEF StoreIInv, Types
  <1>2. WorkFits(c)'
    BY <1>1 DEF WorkFits, Accepted, Inside, itemVars
  <1>3. \A s \in Shards : locks'[s] = c => q.step = "apply" /\ ShardFor(q.t) = s
    BY ItemStoreAssumption DEF StoreIInv, LocksFit
  <1>4. /\ asked' \in Nat /\ asked <= asked' /\ outbox' \in [Shards -> Seq(1 .. asked')]
        /\ answer' \in [Clients -> {"none", "done", "conflict", "failed", "refused"}]
        /\ locks' \in [Shards -> Clients \cup {Nobody}]
        /\ items' = items /\ seen' = seen /\ missed' = missed /\ locks' = locks
    BY <1>1 DEF Types, itemVars
  <1> QED BY <1>2, <1>3, <1>4, OneMoves

LEMMA BeginKeeps ==
  ASSUME StoreIInv, NEW c \in Clients, Begin(c)
  PROVE  StoreIInv'
  <1> DEFINE t == work[c].t
             q == [work[c] EXCEPT !.step = "apply", !.todo = Written(t),
                                  !.view = [k \in Written(t) |-> items[k]]]
  <1>1. Types /\ WorkFits(c) /\ work[c] \in Works /\ work[c].step = "begin"
    BY DEF StoreIInv, Types, Begin
  <1>2. PICK p \in Partitions : Touched(t) = {p}
    BY <1>1 DEF WorkFits, Accepted
  <1>3. ShardFor(t) \in Shards
    BY <1>2, ShardsFit
  <1>4. work' = [work EXCEPT ![c] = q] /\ locks' = [locks EXCEPT ![ShardFor(t)] = c]
        /\ locks[ShardFor(t)] = Nobody
    BY DEF Begin
  <1>5. Written(t) \subseteq Keys
    BY <1>1 DEF Works, Written
  <1>6. [k \in Written(t) |-> items[k]] \in Views
    BY <1>1, <1>5 DEF Types, Views
  <1>7. q \in Works /\ q.step = "apply" /\ q.t = t
    BY <1>1, <1>5, <1>6 DEF Works
  <1>8. q.todo = Written(t) /\ q.view = [k \in Written(t) |-> items[k]] /\ q.emitted = FALSE
    BY <1>1 DEF Works, WorkFits
  <1>9. /\ items' = items /\ seen' = seen /\ missed' = missed /\ asked' = asked
        /\ outbox' = outbox /\ answer' = answer
    BY DEF Begin, itemVars
  <1>10. /\ asked' \in Nat /\ asked <= asked' /\ outbox' \in [Shards -> Seq(1 .. asked')]
         /\ answer' \in [Clients -> {"none", "done", "conflict", "failed", "refused"}]
         /\ locks' \in [Shards -> Clients \cup {Nobody}]
    BY <1>1, <1>3, <1>4, <1>9 DEF Types
  <1>11. /\ locks'[ShardFor(t)] = c
         /\ \A s \in Shards : s # ShardFor(t) => locks'[s] = locks[s]
         /\ \A s \in Shards : locks[s] # c
    BY <1>1, <1>3, <1>4, ItemStoreAssumption DEF Types, StoreIInv, LocksFit
  <1>12. work'[c] = q
    BY <1>1, <1>4 DEF Types
  <1> HIDE DEF q
  <1>13. Inside(c)'
    BY <1>7, <1>8, <1>9, <1>11, <1>12 DEF Inside
  <1>14. WorkFits(c)'
    BY <1>1, <1>7, <1>9, <1>12, <1>13 DEF WorkFits, Accepted
  <1>15. \A s \in Shards : locks'[s] = c => q.step = "apply" /\ ShardFor(q.t) = s
    BY <1>7, <1>11
  <1>16. \A s \in Shards : locks'[s] = locks[s] \/ (locks[s] \in {c, Nobody} /\ locks'[s] \in {c, Nobody})
    BY <1>4, <1>11
  <1> QED BY <1>4, <1>7, <1>9, <1>10, <1>14, <1>15, <1>16, OneMoves

LEMMA ApplyKeeps ==
  ASSUME StoreIInv, NEW c \in Clients, NEW k \in Keys, Apply(c, k)
  PROVE  StoreIInv'
  <1> DEFINE t == work[c].t
             view == work[c].view
             q == [work[c] EXCEPT !.todo = @ \ {k}, !.view[k] = After(t, k, @)]
  <1>1. Types /\ work[c] \in Works /\ work[c].step = "apply" /\ Accepted(c) /\ Inside(c)
    BY DEF StoreIInv, Types, Apply, WorkFits
  <1>2. k \in work[c].todo /\ Holds(t.writes[k].condition, view[k]) /\ work' = [work EXCEPT ![c] = q]
        /\ items' = items /\ outbox' = outbox /\ answer' = answer /\ locks' = locks
        /\ seen' = seen /\ missed' = missed /\ asked' = asked
    BY DEF Apply, itemVars
  <1>3. k \in Written(t) /\ view[k] = items[k] /\ items[k] \in Held
    BY <1>1, <1>2 DEF Inside, Types
  <1>4. t.writes[k] \in ItemWrite /\ t.id \in Nat \ {0}
    BY <1>1, <1>3 DEF Accepted, Works, Types, Written
  <1>5. After(t, k, items[k]) \in Held
    BY <1>3, <1>4, AfterFits
  <1>6. view \in [Written(t) -> Held] /\ Written(t) \subseteq Keys
    BY <1>1 DEF Inside, Works, Views, Written
  <1>7. [view EXCEPT ![k] = After(t, k, view[k])] \in [Written(t) -> Held]
    BY <1>3, <1>5, <1>6
  <1>8. q.todo = work[c].todo \ {k} /\ q.view = [view EXCEPT ![k] = After(t, k, view[k])]
        /\ q.t = t /\ q.step = work[c].step /\ q.emitted = work[c].emitted
    BY <1>1 DEF Works
  <1>9. q \in Works
    <2>1. [view EXCEPT ![k] = After(t, k, view[k])] \in Views
      BY <1>6, <1>7 DEF Views
    <2> QED BY <1>1, <2>1 DEF Works
  <1> HIDE DEF q
  <1>10. /\ q.todo \subseteq Written(t) /\ DOMAIN q.view = Written(t)
         /\ \A h \in q.todo : q.view[h] = items[h]
         /\ \A h \in Written(t) \ q.todo :
              q.view[h] = After(t, h, items[h]) /\ Holds(t.writes[h].condition, items[h])
    BY <1>1, <1>2, <1>3, <1>6, <1>8 DEF Inside
  <1>11. q.emitted => t.emits # {}
    BY <1>1, <1>8 DEF Inside
  <1>12. q.t = work[c].t /\ q.step = "apply"
    BY <1>1, <1>8
  <1>13. /\ q.todo \subseteq Written(q.t) /\ DOMAIN q.view = Written(q.t)
         /\ \A h \in q.todo : q.view[h] = items[h]
         /\ \A h \in Written(q.t) \ q.todo :
              q.view[h] = After(q.t, h, items[h]) /\ Holds(q.t.writes[h].condition, items[h])
         /\ q.emitted => q.t.emits # {}
    BY <1>10, <1>11, <1>12
  <1> HIDE DEF t
  <1> QED BY <1>1, <1>2, <1>9, <1>12, <1>13, InsideMoves

LEMMA EmitRowKeeps ==
  ASSUME StoreIInv, NEW c \in Clients, EmitRow(c)
  PROVE  StoreIInv'
  <1> DEFINE q == [work[c] EXCEPT !.emitted = TRUE]
  <1>1. Types /\ work[c] \in Works /\ work[c].step = "apply" /\ Inside(c)
    BY DEF StoreIInv, Types, EmitRow, WorkFits
  <1>2. work' = [work EXCEPT ![c] = q] /\ items' = items /\ outbox' = outbox /\ answer' = answer /\ locks' = locks
        /\ seen' = seen /\ missed' = missed /\ asked' = asked
        /\ work[c].t.emits # {}
    BY DEF EmitRow, itemVars
  <1>3. q \in Works /\ q.t = work[c].t /\ q.step = work[c].step /\ q.todo = work[c].todo
        /\ q.view = work[c].view
    BY <1>1 DEF Works
  <1> HIDE DEF q
  <1>4. /\ q.todo \subseteq Written(q.t) /\ DOMAIN q.view = Written(q.t)
        /\ \A k \in q.todo : q.view[k] = items[k]
        /\ \A k \in Written(q.t) \ q.todo :
              q.view[k] = After(q.t, k, items[k]) /\ Holds(q.t.writes[k].condition, items[k])
    BY <1>1, <1>3 DEF Inside
  <1>5. q.step = "apply" /\ q.t.emits # {}
    BY <1>1, <1>2, <1>3
  <1> QED BY <1>1, <1>2, <1>3, <1>4, <1>5, InsideMoves

LEMMA RollbackKeeps ==
  ASSUME StoreIInv, NEW c \in Clients, Rollback(c) \/ GiveUp(c)
  PROVE  StoreIInv'
  <1>1. /\ items' = items /\ outbox' = outbox /\ asked' = asked /\ missed' = missed /\ seen' = seen
        /\ Leave(c) /\ (Answer(c, "conflict") \/ Answer(c, "failed"))
        /\ locks' = Unlocked(c) \/ (locks' = locks /\ work[c].step # "apply")
    BY DEF Rollback, GiveUp
  <1>2. answer' \in [Clients -> {"none", "done", "conflict", "failed", "refused"}]
    BY <1>1 DEF StoreIInv, Types, Answer
  <1> QED BY <1>1, <1>2, LeaveKeeps

LEMMA DieKeeps ==
  ASSUME StoreIInv, NEW c \in Clients, LoseProcess(c)
  PROVE  StoreIInv'
  <1>1. /\ items' = items /\ outbox' = outbox /\ asked' = asked /\ missed' = missed
        /\ seen' = [seen EXCEPT ![c] = [k \in Keys |-> NoItem]]
        /\ Leave(c) /\ answer' = answer /\ locks' = Unlocked(c)
    BY DEF LoseProcess, itemVars
  <1>2. answer' \in [Clients -> {"none", "done", "conflict", "failed", "refused"}]
    BY <1>1 DEF StoreIInv, Types
  <1> QED BY <1>1, <1>2, LeaveKeeps

\* What a transaction leaves is what its writes make of the items, all of them
\* and at once.
LEMMA CommitSucceeds ==
  ASSUME StoreIInv, NEW c \in Clients, Commit(c)
  PROVE  \E p \in Partitions : Succeed(c, work[c].t, p)
  <1> DEFINE t == work[c].t
  <1>1. Types /\ work[c] \in Works /\ Accepted(c) /\ Inside(c) /\ work[c].todo = {}
    BY DEF StoreIInv, Types, Commit, WorkFits
  <1>2. PICK p \in Partitions : Touched(t) = {p}
    BY <1>1 DEF Accepted
  <1>3. ShardFor(t) = ShardOf[p]
    BY <1>2, ShardsFit
  <1>4. \A k \in Written(t) : work[c].view[k] = After(t, k, items[k])
                               /\ Holds(t.writes[k].condition, items[k])
    BY <1>1 DEF Inside
  <1>5. items' = [k \in Keys |-> IF k \in Written(t) THEN After(t, k, items[k]) ELSE items[k]]
    BY <1>4 DEF Commit
  <1>6. work[c].emitted <=> t.emits # {}
    BY <1>1 DEF Inside, Commit, Works
  <1>7. outbox' = IF t.emits = {} THEN outbox ELSE [outbox EXCEPT ![ShardOf[p]] = Append(@, t.id)]
    BY <1>3, <1>6 DEF Commit
  <1> QED BY <1>2, <1>4, <1>5, <1>7 DEF Commit, Succeed

LEMMA CommitKeeps ==
  ASSUME StoreIInv, NEW c \in Clients, Commit(c)
  PROVE  StoreIInv'
  <1> DEFINE t == work[c].t
             view == work[c].view
             gone == {k \in Written(t) : view[k] = NoItem}
  <1>1. Types /\ work[c] \in Works /\ work[c].step = "apply" /\ Accepted(c) /\ Inside(c)
    BY DEF StoreIInv, Types, Commit, WorkFits
  <1>2. /\ items' = [k \in Keys |-> IF k \in Written(t) THEN view[k] ELSE items[k]]
        /\ outbox' = IF work[c].emitted THEN [outbox EXCEPT ![ShardFor(t)] = Append(@, t.id)] ELSE outbox
        /\ answer' = [answer EXCEPT ![c] = "done"]
        /\ locks' = Unlocked(c) /\ work' = [work EXCEPT ![c] = NoWork]
        /\ missed' = [d \in Clients |-> missed[d] \cup gone]
        /\ seen' = seen /\ asked' = asked /\ work[c].todo = {}
    BY DEF Commit, Answer, Leave
  <1>3. PICK p \in Partitions : Touched(t) = {p}
    BY <1>1 DEF Accepted
  <1>4. ShardFor(t) \in Shards
    BY <1>3, ShardsFit
  <1>5. Written(t) \subseteq Keys /\ t.id \in 1 .. asked /\ t.id \in Nat \ {0}
        /\ \A k \in Written(t) : t.writes[k] \in ItemWrite
    BY <1>1 DEF Works, Written, Accepted, Types
  <1>6. ASSUME NEW k \in Written(t)
        PROVE  /\ view[k] \in Held
               /\ view[k] # NoItem /\ items[k] # NoItem => view[k].version > items[k].version
    <2>1. view[k] = After(t, k, items[k]) /\ items[k] \in Held /\ k \in Keys
      BY <1>1, <1>2, <1>5 DEF Inside, Types
    <2> HIDE DEF view, t
    <2> QED BY <1>5, <2>1, AfterFits
  <1> HIDE DEF view
  <1>7. items' \in [Keys -> Held]
    BY <1>1, <1>2, <1>6 DEF Types
  <1>8. outbox' \in [Shards -> Seq(1 .. asked')]
    <2>1. outbox \in [Shards -> Seq(1 .. asked)] /\ Append(outbox[ShardFor(t)], t.id) \in Seq(1 .. asked)
      BY <1>1, <1>4, <1>5 DEF Types
    <2> QED BY <1>2, <2>1
  <1>9. /\ locks' \in [Shards -> Clients \cup {Nobody}]
        /\ \A s \in Shards : locks'[s] # c /\ (locks[s] # c => locks'[s] = locks[s])
        /\ \A s \in Shards : locks'[s] # Nobody => locks'[s] = locks[s]
    BY <1>1, <1>2, ItemStoreAssumption DEF Types, Unlocked
  <1>10. work' \in [Clients -> Works] /\ work'[c] = NoWork
         /\ \A d \in Clients : d # c => work'[d] = work[d]
    BY <1>1, <1>2, NoWorkFits DEF Types
  <1>11. Types'
    <2>1. missed' \in [Clients -> SUBSET Keys]
      BY <1>1, <1>2, <1>5 DEF Types
    <2> QED BY <1>1, <1>2, <1>7, <1>8, <1>9, <1>10, <2>1 DEF Types
  <1>12. ASSUME NEW d \in Clients PROVE WorkFits(d)'
    <2>1. CASE d = c
      BY <1>10, <2>1, NoWorkFits DEF WorkFits
    <2>2. CASE d # c
      <3>1. WorkFits(d) /\ work'[d] = work[d]
        BY <1>10, <2>2 DEF StoreIInv
      <3>2. Accepted(d) => Accepted(d)'
        BY <1>2, <3>1 DEF Accepted
      <3>3. ASSUME work[d].step = "apply" PROVE Inside(d)'
        <4>1. PICK o \in Partitions : Touched(work[d].t) = {o}
          BY <3>1, <3>3 DEF WorkFits, Accepted
        <4>2. ShardFor(work[d].t) \in Shards /\ locks[ShardFor(work[d].t)] = d /\ Inside(d)
          BY <3>1, <3>3, <4>1, ShardsFit DEF WorkFits, Inside
        <4>3. locks'[ShardFor(work[d].t)] = d
          BY <1>9, <2>2, <4>2
        <4>4. \A k \in Written(work[d].t) : k \in Keys /\ k \notin Written(t)
          <5>1. \A k \in Written(work[d].t) : k \notin Written(t)
            BY <1>1, <2>2, <3>3, Alone
          <5> QED BY <1>1, <5>1 DEF Types, Works, Written
        <4>5. \A k \in Written(work[d].t) : items'[k] = items[k]
          BY <1>2, <4>4
        <4> QED BY <3>1, <4>2, <4>3, <4>5 DEF Inside
      <3> QED BY <3>1, <3>2, <3>3 DEF WorkFits
    <2> QED BY <2>1, <2>2
  <1>13. LocksFit'
    <2> SUFFICES ASSUME NEW s \in Shards, locks'[s] # Nobody
                 PROVE  work'[locks'[s]].step = "apply" /\ ShardFor(work'[locks'[s]].t) = s
      BY DEF LocksFit
    <2>1. locks'[s] = locks[s] /\ locks[s] # c /\ locks[s] # Nobody /\ locks[s] \in Clients
      BY <1>1, <1>9 DEF Types
    <2>2. work'[locks[s]] = work[locks[s]]
      BY <1>10, <2>1
    <2> QED BY <2>1, <2>2 DEF StoreIInv, LocksFit
  <1>14. SeenFits'
    <2> SUFFICES ASSUME NEW d \in Clients, NEW k \in Keys, seen[d][k] # NoItem, k \notin missed'[d]
                 PROVE  items'[k] # NoItem /\ (items'[k] = seen[d][k] \/ items'[k].version > seen[d][k].version)
      BY <1>2 DEF SeenFits
    <2>1. k \notin missed[d] /\ k \notin gone
      BY <1>2
    <2>2. items[k] # NoItem /\ (items[k] = seen[d][k] \/ items[k].version > seen[d][k].version)
      BY <2>1 DEF StoreIInv, SeenFits
    <2>3. CASE k \notin Written(t)
      BY <1>2, <2>2, <2>3
    <2>4. CASE k \in Written(t)
      <3>1. items'[k] = view[k] /\ view[k] # NoItem
        BY <1>2, <2>1, <2>4
      <3>2. view[k].version > items[k].version
        BY <1>6, <2>2, <2>4, <3>1
      <3>3. view[k] \in Item /\ items[k] \in Item /\ seen[d][k] \in Item
        BY <1>1, <1>6, <2>2, <2>4, <3>1 DEF Types, Held
      <3>4. view[k].version \in Nat /\ items[k].version \in Nat /\ seen[d][k].version \in Nat
        BY <3>3 DEF Item
      <3> QED BY <2>2, <3>1, <3>2, <3>4
    <2> QED BY <2>3, <2>4
  <1> QED BY <1>11, <1>12, <1>13, <1>14 DEF StoreIInv

-----------------------------------------------------------------------------
\* Theorems

LEMMA StoreStarts ==
  ASSUME StoreInit
  PROVE  StoreIInv
  <1>1. Types
    <2>1. outbox \in [Shards -> Seq(1 .. asked)]
      BY DEF StoreInit, ItemsInit
    <2> QED BY <2>1, NoWorkFits DEF StoreInit, ItemsInit, Types, Held
  <1>2. \A c \in Clients : WorkFits(c)
    BY NoWorkFits DEF StoreInit, WorkFits
  <1>3. LocksFit /\ SeenFits
    BY DEF StoreInit, LocksFit, SeenFits
  <1> QED BY <1>1, <1>2, <1>3 DEF StoreIInv

LEMMA StoreMoves ==
  ASSUME StoreIInv, [StoreNext]_allStoreVars
  PROVE  StoreIInv'
  <1>1. CASE UNCHANGED allStoreVars
    <2>1. /\ items' = items /\ outbox' = outbox /\ answer' = answer /\ locks' = locks /\ work' = work
          /\ seen' = seen /\ missed' = missed /\ asked' = asked
      BY <1>1 DEF allStoreVars, itemVars, storeVars
    <2>2. Types'
      BY <2>1 DEF StoreIInv, Types
    <2>3. ASSUME NEW c \in Clients PROVE WorkFits(c)'
      <3>1. WorkFits(c)
        BY DEF StoreIInv
      <3> QED BY <2>1, <3>1 DEF WorkFits, Accepted, Inside
    <2>4. LocksFit' /\ SeenFits'
      BY <2>1 DEF StoreIInv, LocksFit, SeenFits
    <2> QED BY <2>2, <2>3, <2>4 DEF StoreIInv
  <1>2. CASE StoreNext
    <2>1. PICK c \in Clients :
             \/ \E k \in Keys : Get(c, k) \/ Apply(c, k)
             \/ \E wish \in Wanted : Ask(c, wish)
             \/ Begin(c) \/ EmitRow(c) \/ Rollback(c) \/ GiveUp(c) \/ Commit(c) \/ LoseProcess(c)
      BY <1>2 DEF StoreNext
    <2> QED BY <2>1, GetKeeps, ApplyKeeps, AskKeeps, BeginKeeps, EmitRowKeeps, RollbackKeeps,
               CommitKeeps, DieKeeps
  <1> QED BY <1>1, <1>2

LEMMA StoreAlways == StoreSpec => []StoreIInv
  BY StoreStarts, StoreMoves, PTL DEF StoreSpec

\* Whoever is inside a transaction alone holds the lock of the shard it writes to
\* (BEGIN IMMEDIATE in transact_write), and the items stay items.
THEOREM TransactionsAreAlone == StoreSpec => []StoreInv
  <1>1. StoreIInv => StoreInv
    BY DEF StoreIInv, Types, LocksFit, StoreInv, WorkFits, Inside, Held
  <1> QED BY <1>1, StoreAlways, PTL

\* Of the variables of Items only Commit moves more than an answer.
LEMMA WhatMoves ==
  ASSUME StoreIInv, [StoreNext]_allStoreVars, ~UNCHANGED itemVars
  PROVE  \E c \in Clients :
            \/ \E p \in Partitions : work[c].t \in Transaction /\ Succeed(c, work[c].t, p)
            \/ Refuse(c) \/ Nothing(c)
  <1>1. StoreNext
    BY DEF allStoreVars
  <1>2. PICK c \in Clients :
           \/ \E k \in Keys : Get(c, k) \/ Apply(c, k)
           \/ \E wish \in Wanted : Ask(c, wish)
           \/ Begin(c) \/ EmitRow(c) \/ Rollback(c) \/ GiveUp(c) \/ Commit(c) \/ LoseProcess(c)
    BY <1>1 DEF StoreNext
  <1>3. ~Begin(c) /\ ~EmitRow(c) /\ ~LoseProcess(c) /\ \A k \in Keys : ~Get(c, k) /\ ~Apply(c, k)
    BY DEF Begin, EmitRow, LoseProcess, Get, Apply
  <1>4. CASE \E wish \in Wanted : Ask(c, wish)
    BY <1>4 DEF Ask, Refuse, Nothing, itemVars
  <1>5. CASE Rollback(c) \/ GiveUp(c)
    BY <1>5 DEF Rollback, GiveUp, Refuse
  <1>6. CASE Commit(c)
    <2>1. PICK p \in Partitions : Succeed(c, work[c].t, p)
      BY <1>6, CommitSucceeds
    <2>2. Types /\ work[c] \in Works /\ Accepted(c)
      BY <1>6 DEF StoreIInv, Types, Commit, WorkFits
    <2>3. work[c].t.emits = {} \/ \E o \in Partitions : work[c].t.emits = {o}
      BY <2>2 DEF Accepted, Touched, Works
    <2>4. work[c].t.id \in Nat \ {0}
      BY <2>2 DEF Types, Accepted
    <2>5. work[c].t \in Transaction
      BY <2>2, <2>3, <2>4 DEF Works, Transaction
    <2> QED BY <2>1, <2>5
  <1> QED BY <1>2, <1>3, <1>4, <1>5, <1>6

\* Transactions happen at one instant each, all or nothing and in one partition:
\* what a client is in the middle of nobody else sees or disturbs
\* (MetadataStore.transact_write).
THEOREM TransactionsAreOne == StoreSpec => AllAtOnce
  <1>1. StoreIInv /\ [StoreNext]_allStoreVars =>
          [\E c \in Clients :
             \/ \E p \in Partitions : Succeed(c, work[c].t, p)
             \/ Refuse(c) \/ Nothing(c)]_itemVars
    BY WhatMoves
  <1> QED BY <1>1, StoreAlways, PTL DEF StoreSpec, AllAtOnce

\* The store of locks, rows and connections implements the abstract one: threads
\* over a file per shard are, to whoever writes, one store of items.
THEOREM StoreImplementsItems == StoreSpec => ItemsSpec
  <1>1. StoreInit => ItemsInit
    BY DEF StoreInit
  <1>2. StoreIInv /\ [StoreNext]_allStoreVars => [ItemsNext]_itemVars
    BY WhatMoves DEF ItemsNext
  <1> QED BY <1>1, <1>2, StoreAlways, PTL DEF StoreSpec, ItemsSpec

\* A write on a version replaces the very item its client read, or the key was
\* deleted in between: versions of a key that stays only grow.
THEOREM WritesReplaceWhatTheyRead == StoreSpec => ReplacesWhatItRead
  <1> DEFINE Replaced ==
        \A c \in Clients, k \in Keys :
          /\ Commit(c) /\ k \in Written(work[c].t)
          /\ work[c].t.writes[k].condition.kind = "version"
          => items[k] = seen[c][k] \/ k \in missed[c]
  <1>1. ASSUME StoreIInv PROVE Replaced
    <2> SUFFICES ASSUME NEW c \in Clients, NEW k \in Keys, Commit(c), k \in Written(work[c].t),
                        work[c].t.writes[k].condition.kind = "version", k \notin missed[c]
                 PROVE  items[k] = seen[c][k]
      OBVIOUS
    <2>1. Types /\ Accepted(c) /\ Inside(c) /\ work[c].todo = {}
      BY <1>1 DEF StoreIInv, Types, Commit, WorkFits
    <2>2. /\ Holds(work[c].t.writes[k].condition, items[k])
          /\ seen[c][k] # NoItem /\ work[c].t.writes[k].condition.is = seen[c][k].version
      BY <2>1 DEF Inside, Accepted
    <2>3. items[k].version = seen[c][k].version
      BY <2>2 DEF Holds
    <2>4. items[k] # NoItem /\ (items[k] = seen[c][k] \/ items[k].version > seen[c][k].version)
      BY <1>1, <2>2 DEF StoreIInv, SeenFits
    <2>5. seen[c][k].version \in Nat
      BY <2>1, <2>2 DEF Types, Held, Item
    <2> QED BY <2>3, <2>4, <2>5
  <1>2. StoreIInv => [Replaced]_allStoreVars
    BY <1>1
  <1> QED BY <1>2, StoreAlways, PTL DEF ReplacesWhatItRead
=============================================================================
