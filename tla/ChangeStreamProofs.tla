------------------------- MODULE ChangeStreamProofs -------------------------
(***************************************************************************)
(* What TLAPS proves of ChangeStream, for every set of environments,       *)
(* shards, writers and dispatchers.                                        *)
(*                                                                         *)
(* A poll cuts the merge of the shards by time, and its cursor counts by   *)
(* sequence.  The two agree when the timestamps of a shard follow its      *)
(* sequence (InTimeOrder), and they need not agree when nothing is cut     *)
(* (ReadsUncut).  One of the two is enough for no event to be lost,        *)
(* however many dispatchers share the cursor and wherever they die; the    *)
(* publish order within an environment needs the first.  One writer at a   *)
(* time gives the first.                                                   *)
(***************************************************************************)
EXTENDS ChangeStream, FiniteSetTheorems, WellFoundedInduction, TLAPS

\* The timestamps of every shard follow its sequence.
InTimeOrder ==
    \A s \in Shards : \A i, j \in DOMAIN outbox[s] :
        i < j => outbox[s][i].at <= outbox[s][j].at

\* No poll has read, or is reading, more than it was asked for.
ReadsUncut ==
    \A d \in Dispatchers : poll[d].step = "read" =>
        LET p == poll[d]
        IN  Cardinality(p.got \cup Rows(p.shard, p.from[p.shard], p.limit)) <= p.limit

-----------------------------------------------------------------------------
\* The inductive invariant

Row(s, i) == [shard |-> s, seq |-> i, event |-> outbox[s][i]]

Place == [shard : Shards, seq : Nat, event : Event]

\* x is an event of the outbox together with its place there.
IsRow(x) ==
    /\ x \in Place
    /\ x.seq \in DOMAIN outbox[x.shard]
    /\ x = Row(x.shard, x.seq)

InRange(position) ==
    /\ position \in [Shards -> Nat]
    /\ \A s \in Shards : position[s] <= Len(outbox[s])

\* A poll that is still reading: what it has of a shard are rows past the
\* cursor it began with, from shards it has been to.
Reading(p) ==
    /\ p \in [step : {"read"}, shard : Shards, from : [Shards -> Nat],
              limit : Nat \ {0}, got : SUBSET Place]
    /\ InRange(p.from)
    /\ IsFiniteSet(p.got)
    /\ \A x \in p.got : IsRow(x) /\ x.shard < p.shard /\ p.from[x.shard] < x.seq

\* A poll that knows its batch.
Sending(p) ==
    /\ p \in [step : {"enqueue"}, batch : SUBSET Place, goal : [Shards -> Nat]]
    /\ InRange(p.goal)
    /\ \A x \in p.batch : IsRow(x)

\* The operations of an environment are numbered in the order of its shard.
InSequence ==
    \A s \in Shards : \A i \in DOMAIN outbox[s] :
        /\ ShardOf[outbox[s][i].env] = s
        /\ outbox[s][i].op <= ops[outbox[s][i].env]
        /\ \A j \in DOMAIN outbox[s] :
              i < j /\ outbox[s][i].env = outbox[s][j].env => outbox[s][i].op < outbox[s][j].op

\* The shape of everything: nothing in it depends on the order of timestamps.
StreamFits ==
    /\ clock \in 0 .. MaxClock
    /\ writing \in [Writers -> {NoWrite} \cup [at : 0 .. clock, env : Envs, build : BOOLEAN]]
    /\ outbox \in [Shards -> Seq(Event)]
    /\ ops \in [Envs -> Nat]
    /\ InRange(cursor)
    /\ queue \subseteq queued
    /\ queued \subseteq Envs \X Nat
    /\ crashes \in 0 .. MaxCrashes
    /\ DOMAIN poll = Dispatchers
    /\ \A d \in Dispatchers : poll[d] = Idle \/ Reading(poll[d]) \/ Sending(poll[d])
    /\ InSequence

\* The event at a place of the outbox is queued, or was not worth building.
Handled(s, i) == outbox[s][i].build => EntryOf(outbox[s][i]) \in queued

\* Everything up to a position is handled.
Behind(position) == \A s \in Shards : \A i \in 1 .. position[s] : Handled(s, i)

\* What is taken of a shard has no gap after where it starts.
NoGap(from, taken) ==
    \A x \in taken : \A i \in Nat : from[x.shard] < i /\ i < x.seq => Row(x.shard, i) \in taken

\* What a poll has read follows on from what is handled.
ReadsOnward(p) == Behind(p.from) /\ NoGap(p.from, p.got)

\* What a poll will move the cursor past is queued or still in its batch.
Covers(goal, batch) ==
    \A s \in Shards : \A i \in 1 .. goal[s] : Handled(s, i) \/ Row(s, i) \in batch

NoneLost ==
    /\ Behind(cursor)
    /\ \A d \in Dispatchers :
          /\ poll[d].step = "read" => ReadsOnward(poll[d])
          /\ poll[d].step = "enqueue" => Covers(poll[d].goal, poll[d].batch)

StreamIInv == StreamFits /\ NoneLost

-----------------------------------------------------------------------------
\* Lemmas about the operators of the model

\* A set of numbers up to N that is not empty has a largest member, and Max
\* is that member.
LEMMA MaxIsLargest ==
  ASSUME NEW S, NEW N \in Nat, S \subseteq 0 .. N, S # {}
  PROVE  Max(S) \in S /\ \A x \in S : x <= Max(S)
  <1> DEFINE T == {N - x : x \in S}
             R == {ss \in Nat \X Nat : ss[1] < ss[2]}
  <1>1. T \subseteq Nat /\ T # {}
    <2>1. \A x \in S : x \in 0 .. N /\ N - x \in Nat
      OBVIOUS
    <2> QED BY <2>1
  <1>2. IsWellFoundedOn(R, Nat)
    BY NatLessThanWellFounded DEF OpToRel
  <1>3. PICK t \in T : \A u \in T : ~(u < t)
    <2> HIDE DEF T
    <2>1. PICK t \in T : \A u \in T : ~(<<u, t>> \in R)
      <3> HIDE DEF R
      <3> QED BY <1>1, <1>2, WFMin
    <2> QED BY <1>1, <2>1
  <1>4. PICK x \in S : t = N - x
    OBVIOUS
  <1>5. \A y \in S : x >= y
    <2> TAKE y \in S
    <2>1. ~(N - y < N - x)
      BY <1>3, <1>4
    <2> QED BY <2>1
  <1> QED BY <1>5 DEF Max

\* The cursor after a batch: in range, nowhere behind where it was, not behind
\* any event of the batch, and where it moved, at an event of the batch.
LEMMA AdvancedReaches ==
  ASSUME StreamFits, NEW from, InRange(from),
         NEW batch, \A x \in batch : IsRow(x)
  PROVE  /\ InRange(Advanced(from, batch))
         /\ \A s \in Shards : from[s] <= Advanced(from, batch)[s]
         /\ \A s \in Shards : Advanced(from, batch)[s] # from[s] =>
               \E x \in batch : x.shard = s /\ x.seq = Advanced(from, batch)[s]
  <1> DEFINE Seqs(s) == {from[s]} \cup {x.seq : x \in {y \in batch : y.shard = s}}
  <1>1. ASSUME NEW s \in Shards
        PROVE  /\ Advanced(from, batch)[s] \in Seqs(s)
               /\ Advanced(from, batch)[s] \in 0 .. Len(outbox[s])
               /\ from[s] <= Advanced(from, batch)[s]
    <2>1. Advanced(from, batch)[s] = Max(Seqs(s))
      BY DEF Advanced
    <2>2. Len(outbox[s]) \in Nat /\ DOMAIN outbox[s] = 1 .. Len(outbox[s])
      BY DEF StreamFits
    <2>3. Seqs(s) \subseteq 0 .. Len(outbox[s])
      BY <2>2 DEF IsRow, InRange
    <2>4. Seqs(s) # {} /\ from[s] \in Seqs(s)
      OBVIOUS
    <2> HIDE DEF Seqs
    <2>5. Max(Seqs(s)) \in Seqs(s) /\ \A x \in Seqs(s) : x <= Max(Seqs(s))
      BY <2>2, <2>3, <2>4, MaxIsLargest
    <2> QED BY <2>1, <2>3, <2>4, <2>5
  <1>2. Advanced(from, batch) = [s \in Shards |-> Advanced(from, batch)[s]]
    BY DEF Advanced
  <1>3. InRange(Advanced(from, batch))
    <2>1. \A s \in Shards : Len(outbox[s]) \in Nat
      BY DEF StreamFits
    <2> QED BY <1>1, <1>2, <2>1 DEF InRange
  <1>4. \A s \in Shards : Advanced(from, batch)[s] # from[s] =>
               \E x \in batch : x.shard = s /\ x.seq = Advanced(from, batch)[s]
    BY <1>1
  <1> QED BY <1>1, <1>3, <1>4

\* What a statement of a poll returns is a finite set of rows past the cursor,
\* with no gap after it.
LEMMA RowsFollowOn ==
  ASSUME StreamFits, NEW s \in Shards, NEW n \in Nat, NEW limit \in Nat
  PROVE  /\ IsFiniteSet(Rows(s, n, limit))
         /\ \A x \in Rows(s, n, limit) : IsRow(x) /\ x.shard = s /\ n < x.seq
         /\ \A x \in Rows(s, n, limit) : \A i \in Nat :
               n < i /\ i < x.seq => Row(s, i) \in Rows(s, n, limit)
  <1>1. Len(outbox[s]) \in Nat /\ DOMAIN outbox[s] = 1 .. Len(outbox[s])
    BY DEF StreamFits
  <1> DEFINE J == {j \in DOMAIN outbox[s] : n < j /\ j <= n + limit}
  <1>2. IsFiniteSet(J)
    <2>1. IsFiniteSet(1 .. Len(outbox[s]))
      BY <1>1, FS_Interval
    <2> QED BY <1>1, <2>1, FS_Subset
  <1>3. Rows(s, n, limit) = {Row(s, i) : i \in J}
    BY DEF Rows, Row
  <1>4. IsFiniteSet({Row(s, i) : i \in J})
    <2> DEFINE T == {Row(s, i) : i \in J}
               f == [i \in J |-> Row(s, i)]
    <2>1. f \in Surjection(J, T)
      BY DEF Surjection
    <2> HIDE DEF J, T, f
    <2>2. IsFiniteSet(T)
      BY <1>2, <2>1, FS_Surjection
    <2> QED BY <2>2 DEF T
  <1>5. \A x \in Rows(s, n, limit) : IsRow(x) /\ x.shard = s /\ n < x.seq
    <2>1. \A i \in J : outbox[s][i] \in Event /\ i \in Nat
      BY <1>1 DEF StreamFits
    <2>2. \A i \in J : Row(s, i) \in Place /\ Row(s, i).shard = s /\ Row(s, i).seq = i
      BY <2>1 DEF Row, Place
    <2> QED BY <1>3, <2>2 DEF IsRow
  <1>6. ASSUME NEW x \in Rows(s, n, limit), NEW i \in Nat, n < i, i < x.seq
        PROVE  Row(s, i) \in Rows(s, n, limit)
    <2>1. PICK k \in J : x = Row(s, k)
      BY <1>3
    <2>2. x.seq = k
      BY <2>1 DEF Row
    <2>3. i \in J
      BY <1>1, <1>6, <2>2
    <2> QED BY <1>3, <2>3
  <1> QED BY <1>3, <1>4, <1>5, <1>6

-----------------------------------------------------------------------------
\* Every step keeps the shape

\* The outbox is only appended to.
Grows ==
    /\ outbox' \in [Shards -> Seq(Event)]
    /\ \A s \in Shards : /\ Len(outbox[s]) <= Len(outbox'[s])
                         /\ \A i \in DOMAIN outbox[s] : outbox'[s][i] = outbox[s][i]

\* Places, positions, rows and polls stay what they are.
LEMMA GrowthKeepsPlaces ==
  ASSUME StreamFits, Grows
  PROVE  /\ \A p : InRange(p) => InRange(p)'
         /\ \A s \in Shards : \A i \in DOMAIN outbox[s] :
               i \in DOMAIN outbox'[s] /\ Row(s, i)' = Row(s, i)
         /\ \A x : IsRow(x) => IsRow(x)'
         /\ \A q : Reading(q) => Reading(q)'
         /\ \A q : Sending(q) => Sending(q)'
  <1>1. \A s \in Shards : /\ Len(outbox[s]) \in Nat /\ DOMAIN outbox[s] = 1 .. Len(outbox[s])
                          /\ Len(outbox'[s]) \in Nat /\ DOMAIN outbox'[s] = 1 .. Len(outbox'[s])
    BY DEF StreamFits, Grows
  <1>2. ASSUME NEW p, InRange(p) PROVE InRange(p)'
    BY <1>1, <1>2 DEF InRange, Grows
  <1>3. ASSUME NEW s \in Shards, NEW i \in DOMAIN outbox[s]
        PROVE  i \in DOMAIN outbox'[s] /\ Row(s, i)' = Row(s, i)
    BY <1>1 DEF Row, Grows
  <1>4. ASSUME NEW x, IsRow(x) PROVE IsRow(x)'
    BY <1>1, <1>4 DEF IsRow, Row, Grows, Place
  <1>5. ASSUME NEW q, Reading(q) PROVE Reading(q)'
    BY <1>2, <1>4, <1>5 DEF Reading
  <1>6. ASSUME NEW q, Sending(q) PROVE Sending(q)'
    BY <1>2, <1>4, <1>6 DEF Sending
  <1> QED BY <1>2, <1>3, <1>4, <1>5, <1>6

\* Without a commit the outbox stays, and so does everything said of it.
LEMMA SamePlaces ==
  ASSUME StreamFits, UNCHANGED <<outbox, ops>>
  PROVE  /\ Grows
         /\ InSequence'
  <1>1. Grows
    BY DEF Grows, StreamFits
  <1>2. InSequence'
    BY DEF StreamFits, InSequence
  <1> QED BY <1>1, <1>2

LEMMA CommitFits ==
  ASSUME StreamFits, NEW w \in Writers, Commit(w)
  PROVE  StreamFits' /\ Grows
  <1> DEFINE m == writing[w]
             s0 == ShardOf[m.env]
             e == [env |-> m.env, op |-> ops[m.env] + 1, at |-> m.at, build |-> m.build]
  <1>1. m \in [at : 0 .. clock, env : Envs, build : BOOLEAN] /\ clock \in Nat
    BY ChangeStreamAssumption DEF StreamFits, Commit
  <1>2. s0 \in Shards /\ e \in Event /\ m.env \in Envs
    BY <1>1, ChangeStreamAssumption DEF StreamFits, Event
  <1>3. /\ outbox' = [outbox EXCEPT ![s0] = Append(@, e)]
        /\ ops' = [ops EXCEPT ![m.env] = @ + 1]
        /\ writing' = [writing EXCEPT ![w] = NoWrite]
        /\ UNCHANGED <<clock, cursor, queue, queued, poll, crashes>>
    BY DEF Commit, NoWrite
  <1> HIDE DEF e, s0, m
  <1>4. \A s \in Shards : Len(outbox[s]) \in Nat /\ DOMAIN outbox[s] = 1 .. Len(outbox[s])
    BY DEF StreamFits
  <1>5. outbox' \in [Shards -> Seq(Event)]
    BY <1>2, <1>3 DEF StreamFits
  <1>6. /\ Len(outbox'[s0]) = Len(outbox[s0]) + 1
        /\ outbox'[s0][Len(outbox[s0]) + 1] = e
        /\ \A i \in DOMAIN outbox[s0] : outbox'[s0][i] = outbox[s0][i]
        /\ \A s \in Shards : s # s0 => outbox'[s] = outbox[s]
    BY <1>2, <1>3, <1>4 DEF StreamFits
  <1>7. Grows
    BY <1>4, <1>5, <1>6 DEF Grows
  <1>8. \A s \in Shards : DOMAIN outbox'[s] = 1 .. Len(outbox'[s])
    BY <1>5
  <1>9. InSequence'
    <2>1. /\ ops' \in [Envs -> Nat]
          /\ \A x \in Envs : ops[x] <= ops'[x] /\ ops[x] \in Nat /\ ops'[x] \in Nat
          /\ ops'[m.env] = ops[m.env] + 1
      BY <1>2, <1>3 DEF StreamFits
    <2>2. \A s \in Shards : \A i \in DOMAIN outbox[s] : outbox[s][i].env \in Envs /\ outbox[s][i].op \in Nat
      <3>1. ASSUME NEW s \in Shards, NEW i \in DOMAIN outbox[s] PROVE outbox[s][i] \in Event
        BY DEF StreamFits
      <3> QED BY <3>1 DEF Event
    <2>3. ShardOf[e.env] = s0 /\ e.op = ops[m.env] + 1 /\ e.env = m.env
      BY DEF e, s0, m
    <2> SUFFICES ASSUME NEW s \in Shards, NEW i \in DOMAIN outbox'[s]
                 PROVE  /\ ShardOf[outbox'[s][i].env] = s
                        /\ outbox'[s][i].op <= ops'[outbox'[s][i].env]
                        /\ \A j \in DOMAIN outbox'[s] :
                              i < j /\ outbox'[s][i].env = outbox'[s][j].env
                              => outbox'[s][i].op < outbox'[s][j].op
      BY DEF InSequence
    <2>4. CASE i \in DOMAIN outbox[s]
      <3>1. outbox'[s][i] = outbox[s][i]
        BY <2>4, <1>7 DEF Grows
      <3>2. /\ ShardOf[outbox[s][i].env] = s
            /\ outbox[s][i].op <= ops[outbox[s][i].env]
            /\ \A j \in DOMAIN outbox[s] :
                  i < j /\ outbox[s][i].env = outbox[s][j].env => outbox[s][i].op < outbox[s][j].op
        BY <2>4 DEF StreamFits, InSequence
      <3>3. outbox'[s][i].op <= ops'[outbox'[s][i].env]
        BY <2>1, <2>2, <2>4, <3>1, <3>2
      <3>4. ASSUME NEW j \in DOMAIN outbox'[s], i < j, outbox'[s][i].env = outbox'[s][j].env
            PROVE  outbox'[s][i].op < outbox'[s][j].op
        <4>1. CASE j \in DOMAIN outbox[s]
          <5>1. outbox'[s][j] = outbox[s][j]
            BY <4>1, <1>7 DEF Grows
          <5> QED BY <3>1, <3>2, <3>4, <4>1, <5>1
        <4>2. CASE j \notin DOMAIN outbox[s]
          <5>1. s = s0 /\ j = Len(outbox[s0]) + 1
            BY <1>4, <1>6, <1>8, <4>2, <1>2
          <5>2. outbox'[s][j] = e
            BY <5>1, <1>6
          <5> QED BY <2>1, <2>2, <2>3, <2>4, <3>1, <3>2, <3>4, <5>2, <1>2
        <4> QED BY <4>1, <4>2
      <3> QED BY <3>1, <3>2, <3>3, <3>4
    <2>5. CASE i \notin DOMAIN outbox[s]
      <3>1. s = s0 /\ i = Len(outbox[s0]) + 1
        BY <1>4, <1>6, <1>8, <2>5, <1>2
      <3>2. outbox'[s][i] = e
        BY <3>1, <1>6
      <3>3. ~ \E j \in DOMAIN outbox'[s] : i < j
        BY <3>1, <1>4, <1>6, <1>8, <1>2
      <3> QED BY <2>1, <2>3, <3>1, <3>2, <3>3, <1>2
    <2> QED BY <2>4, <2>5
  <1>10. (\A d \in Dispatchers : poll[d] = Idle \/ Reading(poll[d]) \/ Sending(poll[d]))'
    BY <1>3, <1>7, GrowthKeepsPlaces DEF StreamFits
  <1>11. InRange(cursor)'
    BY <1>3, <1>7, GrowthKeepsPlaces DEF StreamFits
  <1>12. writing' \in [Writers -> {NoWrite} \cup [at : 0 .. clock', env : Envs, build : BOOLEAN]]
    BY <1>3 DEF StreamFits
  <1>13. ops' \in [Envs -> Nat]
    BY <1>2, <1>3 DEF StreamFits
  <1> QED BY <1>3, <1>5, <1>7, <1>9, <1>10, <1>11, <1>12, <1>13 DEF StreamFits

\* A step of one poll disturbs no other.
LEMMA PollMoves ==
  ASSUME StreamFits, NEW d \in Dispatchers, NEW q,
         q = Idle \/ Reading(q) \/ Sending(q),
         poll' = [poll EXCEPT ![d] = q],
         UNCHANGED <<clock, writing, outbox, ops>>,
         InRange(cursor'), queue' \subseteq queued', queued' \subseteq Envs \X Nat,
         crashes' \in 0 .. MaxCrashes
  PROVE  StreamFits' /\ Grows
  <1>1. Grows /\ InSequence'
    BY SamePlaces
  <1>2. DOMAIN poll' = Dispatchers
    BY DEF StreamFits
  <1>3. (\A c \in Dispatchers : poll[c] = Idle \/ Reading(poll[c]) \/ Sending(poll[c]))'
    <2>1. q = Idle \/ Reading(q)' \/ Sending(q)'
      BY <1>1, GrowthKeepsPlaces
    <2> SUFFICES ASSUME NEW c \in Dispatchers
                 PROVE  (poll[c] = Idle \/ Reading(poll[c]) \/ Sending(poll[c]))'
      OBVIOUS
    <2>2. CASE c = d
      BY <2>1, <2>2 DEF StreamFits
    <2>3. CASE c # d
      BY <2>3, <1>1, GrowthKeepsPlaces DEF StreamFits
    <2> QED BY <2>2, <2>3
  <1>4. InRange(cursor)'
    BY DEF InRange
  <1> QED BY <1>1, <1>2, <1>3, <1>4 DEF StreamFits

\* What the last statement of a poll leaves it with.
LEMMA BatchFits ==
  ASSUME StreamFits, NEW from, InRange(from), NEW got, \A x \in got : IsRow(x),
         NEW limit, NEW batch \in FirstOf(got, limit), NEW q,
         q = [step |-> "enqueue", batch |-> batch, goal |-> Advanced(from, batch)]
  PROVE  Sending(q)
  <1>1. batch \subseteq got
    BY DEF FirstOf
  <1>2. InRange(Advanced(from, batch))
    BY <1>1, AdvancedReaches
  <1>3. batch \in SUBSET Place
    BY <1>1 DEF IsRow
  <1> QED BY <1>1, <1>2, <1>3 DEF Sending, InRange

LEMMA ReadFits ==
  ASSUME StreamFits, NEW d \in Dispatchers, ReadShard(d)
  PROVE  StreamFits' /\ Grows
  <1> DEFINE p == poll[d]
             got == p.got \cup Rows(p.shard, p.from[p.shard], p.limit)
  <1>1. Reading(p)
    BY DEF StreamFits, ReadShard, Idle, Sending
  <1>2. /\ p.shard \in Shards /\ p.limit \in Nat /\ p.from[p.shard] \in Nat
        /\ InRange(p.from)
    BY <1>1 DEF Reading, InRange
  <1>3. /\ IsFiniteSet(got)
        /\ \A x \in got : IsRow(x) /\ x.shard < p.shard + 1 /\ p.from[x.shard] < x.seq
    <2> DEFINE new == Rows(p.shard, p.from[p.shard], p.limit)
    <2>1. /\ IsFiniteSet(new)
          /\ \A x \in new : IsRow(x) /\ x.shard = p.shard /\ p.from[p.shard] < x.seq
      <3>1. PICK s \in Shards, n \in Nat, k \in Nat : s = p.shard /\ n = p.from[p.shard] /\ k = p.limit
        BY <1>2
      <3> QED BY <3>1, RowsFollowOn
    <2>2. p.shard \in Int /\ \A x \in p.got : x.shard \in Int
      BY <1>1, ChangeStreamAssumption DEF Reading, IsRow, Shards, Place
    <2> HIDE DEF new
    <2>3. IsFiniteSet(p.got \cup new)
      BY <1>1, <2>1, FS_Union DEF Reading
    <2> QED BY <1>1, <2>1, <2>2, <2>3 DEF Reading, new
  <1>4. PICK q : /\ poll' = [poll EXCEPT ![d] = q]
                 /\ q = Idle \/ Reading(q) \/ Sending(q)
    <2>1. CASE /\ p.shard < ShardCount
               /\ poll' = [poll EXCEPT ![d] = [p EXCEPT !.shard = @ + 1, !.got = got]]
      <3> DEFINE q == [p EXCEPT !.shard = @ + 1, !.got = got]
      <3>1. /\ p.shard + 1 \in Shards
            /\ p \in [step : {"read"}, shard : Shards, from : [Shards -> Nat],
                      limit : Nat \ {0}, got : SUBSET Place]
        BY <1>1, <2>1, ChangeStreamAssumption DEF Reading, Shards
      <3>2. got \in SUBSET Place
        BY <1>3 DEF IsRow
      <3> HIDE DEF got
      <3>3. /\ q \in [step : {"read"}, shard : Shards, from : [Shards -> Nat],
                      limit : Nat \ {0}, got : SUBSET Place]
            /\ q.shard = p.shard + 1 /\ q.from = p.from /\ q.limit = p.limit /\ q.got = got
        <4> HIDE DEF p
        <4> QED BY <3>1, <3>2
      <3> HIDE DEF q
      <3>4. Reading(q)
        BY <1>1, <1>2, <1>3, <3>1, <3>3 DEF Reading
      <3> QED BY <2>1, <3>4 DEF q, got
    <2>2. CASE /\ p.shard = ShardCount
               /\ \E batch \in FirstOf(got, p.limit) :
                    poll' = [poll EXCEPT ![d] =
                                IF batch = {} THEN Idle
                                ELSE [step |-> "enqueue", batch |-> batch,
                                      goal |-> Advanced(p.from, batch)]]
      <3>1. PICK batch \in FirstOf(got, p.limit) :
                    poll' = [poll EXCEPT ![d] =
                                IF batch = {} THEN Idle
                                ELSE [step |-> "enqueue", batch |-> batch,
                                      goal |-> Advanced(p.from, batch)]]
        BY <2>2
      <3> DEFINE q == [step |-> "enqueue", batch |-> batch, goal |-> Advanced(p.from, batch)]
      <3>2. Sending(q)
        <4> HIDE DEF got
        <4> QED BY <1>2, <1>3, BatchFits
      <3> QED BY <3>1, <3>2
    <2> QED BY <2>1, <2>2 DEF ReadShard
  <1>5. /\ UNCHANGED <<clock, writing, outbox, ops, cursor, queue, queued, crashes>>
        /\ InRange(cursor) /\ queue \subseteq queued /\ queued \subseteq Envs \X Nat
        /\ crashes \in 0 .. MaxCrashes
    BY DEF ReadShard, StreamFits
  <1> QED BY <1>4, <1>5, PollMoves

\* Queueing an event takes it off the batch.
LEMMA EnqueueFits ==
  ASSUME StreamFits, NEW d \in Dispatchers, Enqueue(d)
  PROVE  StreamFits' /\ Grows
  <1>1. PICK x \in poll[d].batch :
          LET new == IF x.event.build THEN {EntryOf(x.event)} ELSE {}
          IN  /\ queue' = queue \cup new
              /\ queued' = queued \cup new
              /\ poll' = [poll EXCEPT ![d].batch = @ \ {x}]
    BY DEF Enqueue
  <1>2. PICK p : p = poll[d]
    OBVIOUS
  <1>3. Sending(p)
    BY <1>2 DEF StreamFits, Enqueue, Idle, Reading
  <1>4. PICK q : q = [p EXCEPT !.batch = p.batch \ {x}]
    OBVIOUS
  <1>5. Sending(q)
    <2>1. /\ p \in [step : {"enqueue"}, batch : SUBSET Place, goal : [Shards -> Nat]]
          /\ p.batch \ {x} \in SUBSET Place
      BY <1>3 DEF Sending
    <2>2. /\ q \in [step : {"enqueue"}, batch : SUBSET Place, goal : [Shards -> Nat]]
          /\ q.batch = p.batch \ {x} /\ q.goal = p.goal
      BY <2>1, <1>4
    <2> QED BY <1>3, <2>2 DEF Sending
  <1>6. poll' = [poll EXCEPT ![d] = q]
    BY <1>1, <1>2, <1>4
  <1>7. EntryOf(x.event) \in Envs \X Nat
    BY <1>1, <1>2, <1>3 DEF Sending, Place, Event, EntryOf
  <1>8. /\ UNCHANGED <<clock, writing, outbox, ops, cursor, crashes>>
        /\ InRange(cursor) /\ crashes \in 0 .. MaxCrashes
    BY DEF Enqueue, StreamFits
  <1>9. queue' \subseteq queued' /\ queued' \subseteq Envs \X Nat
    BY <1>1, <1>7 DEF StreamFits
  <1> QED BY <1>5, <1>6, <1>8, <1>9, PollMoves

LEMMA BeginFits ==
  ASSUME StreamFits, NEW d \in Dispatchers, NEW n \in Limits, Begin(d, n)
  PROVE  StreamFits' /\ Grows
  <1> DEFINE q == [step |-> "read", shard |-> 1, from |-> cursor, limit |-> n, got |-> {}]
  <1>1. Reading(q)
    <2>1. 1 \in Shards /\ n \in Nat \ {0}
      BY ChangeStreamAssumption DEF Shards
    <2>2. InRange(cursor) /\ cursor \in [Shards -> Nat]
      BY DEF StreamFits, InRange
    <2> QED BY <2>1, <2>2, FS_EmptySet DEF Reading
  <1>2. /\ poll' = [poll EXCEPT ![d] = q]
        /\ UNCHANGED <<clock, writing, outbox, ops, cursor, queue, queued, crashes>>
        /\ InRange(cursor) /\ queue \subseteq queued /\ queued \subseteq Envs \X Nat
        /\ crashes \in 0 .. MaxCrashes
    BY DEF Begin, StreamFits
  <1> HIDE DEF q
  <1> QED BY <1>1, <1>2, PollMoves

LEMMA CheckpointFits ==
  ASSUME StreamFits, NEW d \in Dispatchers, Checkpoint(d)
  PROVE  StreamFits' /\ Grows
  <1>1. Sending(poll[d])
    BY DEF StreamFits, Checkpoint, Idle, Reading
  <1>2. /\ poll' = [poll EXCEPT ![d] = Idle]
        /\ UNCHANGED <<clock, writing, outbox, ops, queue, queued, crashes>>
        /\ cursor' = poll[d].goal
        /\ InRange(poll[d].goal) /\ queue \subseteq queued /\ queued \subseteq Envs \X Nat
        /\ crashes \in 0 .. MaxCrashes
    BY <1>1 DEF Checkpoint, StreamFits, Sending
  <1> QED BY <1>2, PollMoves

LEMMA CrashFits ==
  ASSUME StreamFits, NEW d \in Dispatchers, Crash(d)
  PROVE  StreamFits' /\ Grows
  <1>1. /\ poll' = [poll EXCEPT ![d] = Idle]
        /\ UNCHANGED <<clock, writing, outbox, ops, cursor, queue, queued>>
        /\ InRange(cursor) /\ queue \subseteq queued /\ queued \subseteq Envs \X Nat
        /\ crashes' \in 0 .. MaxCrashes
    BY ChangeStreamAssumption DEF Crash, StreamFits
  <1> QED BY <1>1, PollMoves

\* The steps of nobody who polls, and of writers before they commit.
LEMMA OthersFit ==
  ASSUME StreamFits,
         \/ Tick
         \/ \E w \in Writers, e \in Envs, b \in BOOLEAN : Stamp(w, e, b)
         \/ \E x \in queue : Complete(x)
         \/ UNCHANGED vars
  PROVE  StreamFits' /\ Grows /\ UNCHANGED <<outbox, ops, cursor, queued, poll>>
  <1>1. /\ UNCHANGED <<outbox, ops, cursor, queued, poll, crashes>>
        /\ queue' \subseteq queue
    BY DEF Tick, Stamp, Complete, vars
  <1>2. Grows /\ InSequence'
    BY <1>1, SamePlaces
  <1>3. (\A d \in Dispatchers : poll[d] = Idle \/ Reading(poll[d]) \/ Sending(poll[d]))'
    BY <1>1, <1>2, GrowthKeepsPlaces DEF StreamFits
  <1>4. InRange(cursor)'
    BY <1>1, <1>2, GrowthKeepsPlaces DEF StreamFits
  <1>5. /\ clock' \in 0 .. MaxClock
        /\ writing' \in [Writers -> {NoWrite} \cup [at : 0 .. clock', env : Envs, build : BOOLEAN]]
    <2>1. CASE Tick
      <3>1. clock' = clock + 1 /\ clock' \in 0 .. MaxClock /\ writing' = writing
        BY <2>1, ChangeStreamAssumption DEF Tick, StreamFits
      <3>2. 0 .. clock \subseteq 0 .. clock'
        BY <3>1 DEF StreamFits
      <3>3. [at : 0 .. clock, env : Envs, build : BOOLEAN]
              \subseteq [at : 0 .. clock', env : Envs, build : BOOLEAN]
        BY <3>2
      <3> QED BY <3>1, <3>3 DEF StreamFits
    <2>2. CASE \E w \in Writers, e \in Envs, b \in BOOLEAN : Stamp(w, e, b)
      <3>1. PICK w \in Writers, e \in Envs, b \in BOOLEAN : Stamp(w, e, b)
        BY <2>2
      <3>2. [at |-> clock, env |-> e, build |-> b] \in [at : 0 .. clock, env : Envs, build : BOOLEAN]
        BY ChangeStreamAssumption DEF StreamFits
      <3> QED BY <3>1, <3>2 DEF Stamp, StreamFits
    <2>3. CASE \E x \in queue : Complete(x)
      BY <2>3 DEF Complete, StreamFits
    <2>4. CASE UNCHANGED vars
      BY <2>4 DEF vars, StreamFits
    <2> QED BY <2>1, <2>2, <2>3, <2>4
  <1> QED BY <1>1, <1>2, <1>3, <1>4, <1>5 DEF StreamFits

LEMMA FitsStep ==
  ASSUME StreamFits, [Next]_vars
  PROVE  StreamFits' /\ Grows
  <1>1. CASE \/ Tick
             \/ \E w \in Writers, e \in Envs, b \in BOOLEAN : Stamp(w, e, b)
             \/ \E x \in queue : Complete(x)
             \/ UNCHANGED vars
    BY <1>1, OthersFit
  <1>2. CASE \E w \in Writers : Commit(w)
    BY <1>2, CommitFits
  <1>3. CASE \E d \in Dispatchers : Poll(d) \/ Crash(d)
    BY <1>3, BeginFits, ReadFits, EnqueueFits, CheckpointFits, CrashFits DEF Poll
  <1> QED BY <1>1, <1>2, <1>3 DEF Next

LEMMA FitsInit ==
  ASSUME Init
  PROVE  StreamFits
  <1> USE DEF Init
  <1>1. InRange(cursor)
    BY DEF InRange
  <1>2. InSequence
    BY DEF InSequence
  <1>3. clock \in 0 .. MaxClock /\ crashes \in 0 .. MaxCrashes
    BY ChangeStreamAssumption
  <1>4. outbox \in [Shards -> Seq(Event)]
    <2>1. <<>> \in Seq(Event)
      OBVIOUS
    <2> QED BY <2>1
  <1> QED BY <1>1, <1>2, <1>3, <1>4 DEF StreamFits

\* No cursor runs past the end of its shard, and every poll, write, event and
\* entry keeps its shape, in whatever order the timestamps are.
THEOREM StreamKeepsItsShape == Spec => []TypeOK
  <1>1. StreamFits => TypeOK
    <2> SUFFICES ASSUME StreamFits PROVE TypeOK
      OBVIOUS
    <2>1. \A w \in Writers : writing[w] = NoWrite
             \/ writing[w] \in [at : Nat, env : Envs, build : BOOLEAN]
      BY DEF StreamFits
    <2>2. \A s \in Shards : cursor[s] \in 0 .. Len(outbox[s])
      BY DEF StreamFits, InRange
    <2>3. \A d \in Dispatchers : poll[d].step \in {"idle", "read", "enqueue"}
      BY DEF StreamFits, Idle, Reading, Sending
    <2> QED BY <2>1, <2>2, <2>3 DEF StreamFits, TypeOK
  <1> QED BY <1>1, FitsInit, FitsStep, PTL DEF Spec
-----------------------------------------------------------------------------
\* No event is lost

\* What is handled stays handled, for the outbox and the history only grow.
LEMMA HandledStays ==
  ASSUME StreamFits, Grows, queued \subseteq queued'
  PROVE  /\ \A p : InRange(p) /\ Behind(p) => Behind(p)'
         /\ \A q : Reading(q) /\ ReadsOnward(q) => ReadsOnward(q)'
         /\ \A q : Sending(q) /\ Covers(q.goal, q.batch) => \A g, b : g = q.goal /\ b = q.batch => Covers(g, b)'
  <1>1. \A s \in Shards : Len(outbox[s]) \in Nat /\ DOMAIN outbox[s] = 1 .. Len(outbox[s])
    BY DEF StreamFits
  <1>2. ASSUME NEW s \in Shards, NEW i \in DOMAIN outbox[s]
        PROVE  /\ Handled(s, i) => Handled(s, i)'
               /\ Row(s, i)' = Row(s, i)
    <2>1. outbox'[s][i] = outbox[s][i]
      BY DEF Grows
    <2> QED BY <2>1 DEF Handled, EntryOf, Row
  <1>3. ASSUME NEW p, InRange(p), Behind(p) PROVE Behind(p)'
    <2> SUFFICES ASSUME NEW s \in Shards, NEW i \in 1 .. p[s] PROVE Handled(s, i)'
      BY DEF Behind
    <2>1. i \in DOMAIN outbox[s]
      BY <1>1, <1>3 DEF InRange
    <2> QED BY <1>2, <1>3, <2>1 DEF Behind
  <1>4. ASSUME NEW q, Reading(q), ReadsOnward(q) PROVE ReadsOnward(q)'
    <2>1. Behind(q.from)'
      <3>1. PICK p : p = q.from
        OBVIOUS
      <3>2. Behind(p)'
        BY <1>3, <1>4, <3>1 DEF Reading, ReadsOnward
      <3> QED BY <3>1, <3>2
    <2>2. NoGap(q.from, q.got)'
      <3> SUFFICES ASSUME NEW x \in q.got, NEW i \in Nat, q.from[x.shard] < i, i < x.seq
                   PROVE  Row(x.shard, i)' \in q.got
        BY DEF NoGap, Row
      <3>1. x.shard \in Shards /\ x.seq \in DOMAIN outbox[x.shard] /\ q.from[x.shard] \in Nat
        BY <1>4 DEF Reading, IsRow, Place, InRange
      <3>2. i \in DOMAIN outbox[x.shard]
        BY <1>1, <3>1
      <3>3. Row(x.shard, i) \in q.got
        BY <1>4 DEF ReadsOnward, NoGap
      <3> QED BY <1>2, <3>1, <3>2, <3>3
    <2> QED BY <2>1, <2>2 DEF ReadsOnward
  <1>5. ASSUME NEW q, Sending(q), Covers(q.goal, q.batch),
               NEW g, NEW b, g = q.goal, b = q.batch
        PROVE  Covers(g, b)'
    <2> SUFFICES ASSUME NEW s \in Shards, NEW i \in 1 .. g[s]
                 PROVE  Handled(s, i)' \/ Row(s, i)' \in b
      BY DEF Covers
    <2>1. i \in DOMAIN outbox[s]
      BY <1>1, <1>5 DEF Sending, InRange
    <2> QED BY <1>2, <1>5, <2>1 DEF Covers
  <1> QED BY <1>3, <1>4, <1>5

\* A statement reads on where the ones before it stopped.
LEMMA ReadingLeavesNoGap ==
  ASSUME StreamFits, NEW p, Reading(p), NoGap(p.from, p.got),
         NEW got, got = p.got \cup Rows(p.shard, p.from[p.shard], p.limit)
  PROVE  /\ NoGap(p.from, got)
         /\ IsFiniteSet(got)
         /\ \A x \in got : IsRow(x) /\ p.from[x.shard] < x.seq
  <1>1. PICK s \in Shards, n \in Nat, k \in Nat : s = p.shard /\ n = p.from[p.shard] /\ k = p.limit
    BY DEF Reading, InRange
  <1>2. /\ IsFiniteSet(Rows(s, n, k))
        /\ \A x \in Rows(s, n, k) : IsRow(x) /\ x.shard = s /\ n < x.seq
        /\ \A x \in Rows(s, n, k) : \A i \in Nat : n < i /\ i < x.seq => Row(s, i) \in Rows(s, n, k)
    BY RowsFollowOn
  <1>3. got = p.got \cup Rows(s, n, k)
    BY <1>1
  <1>4. IsFiniteSet(got)
    <2>1. IsFiniteSet(p.got)
      BY DEF Reading
    <2> QED BY <1>2, <1>3, <2>1, FS_Union
  <1>5. NoGap(p.from, got)
    BY <1>1, <1>2, <1>3 DEF NoGap
  <1> QED BY <1>1, <1>2, <1>3, <1>4, <1>5 DEF Reading

\* A slice that is not cut is all that was read.
LEMMA UncutTakesAll ==
  ASSUME NEW rows, IsFiniteSet(rows), NEW limit \in Nat,
         Cardinality(rows) <= limit, NEW first \in FirstOf(rows, limit)
  PROVE  first = rows
  <1>1. first \in SUBSET rows /\ (first = rows \/ Cardinality(first) = limit)
    BY DEF FirstOf
  <1>2. /\ Cardinality(first) <= Cardinality(rows)
        /\ Cardinality(first) = Cardinality(rows) => first = rows
        /\ Cardinality(first) \in Nat /\ Cardinality(rows) \in Nat
    BY <1>1, FS_Subset, FS_CardinalityType
  <1> QED BY <1>1, <1>2

\* The heart of the matter: whatever the new cursor passes was handled before
\* or is in the batch, if time follows sequence or nothing was cut.
LEMMA BatchCovers ==
  ASSUME StreamFits, NEW from, InRange(from), Behind(from),
         NEW got, NoGap(from, got), \A x \in got : IsRow(x) /\ from[x.shard] < x.seq,
         NEW limit, NEW batch \in FirstOf(got, limit),
         InTimeOrder \/ batch = got
  PROVE  Covers(Advanced(from, batch), batch)
  <1> DEFINE goal == Advanced(from, batch)
  <1>1. batch \subseteq got
    BY DEF FirstOf
  <1>2. /\ InRange(goal)
        /\ \A s \in Shards : from[s] <= goal[s]
        /\ \A s \in Shards : goal[s] # from[s] => \E x \in batch : x.shard = s /\ x.seq = goal[s]
    BY <1>1, AdvancedReaches
  <1> HIDE DEF goal
  <1> SUFFICES ASSUME NEW s \in Shards, NEW i \in 1 .. goal[s], ~ Handled(s, i)
               PROVE  Row(s, i) \in batch
    BY DEF Covers, goal
  <1>3. from[s] \in Nat /\ goal[s] \in Nat /\ from[s] < i
    BY <1>2 DEF InRange, Behind
  <1>4. PICK x \in batch : x.shard = s /\ x.seq = goal[s]
    BY <1>2, <1>3
  <1>5. IsRow(x) /\ x = Row(s, goal[s]) /\ goal[s] \in DOMAIN outbox[s]
    BY <1>1, <1>4 DEF IsRow
  <1>6. CASE i = goal[s]
    BY <1>4, <1>5, <1>6
  <1>7. CASE i # goal[s]
    <2> DEFINE y == Row(s, i)
    <2>1. i \in Nat /\ i < goal[s]
      BY <1>3, <1>7
    <2>2. y \in got
      BY <1>1, <1>3, <1>4, <2>1 DEF NoGap
    <2>3. y.shard = s /\ y.seq = i /\ y.event = outbox[s][i] /\ x.event = outbox[s][goal[s]]
      BY <1>5 DEF Row
    <2>4. i \in DOMAIN outbox[s] /\ outbox[s][i].at \in Nat /\ outbox[s][goal[s]].at \in Nat
      <3>1. i \in DOMAIN outbox[s]
        BY <1>5, <2>1 DEF StreamFits
      <3>2. outbox[s][i] \in Event /\ outbox[s][goal[s]] \in Event
        BY <1>5, <3>1 DEF StreamFits
      <3> QED BY <3>1, <3>2 DEF Event
    <2>5. ASSUME y \notin batch PROVE FALSE
      <3>1. Earlier(x, y)
        BY <1>4, <2>2, <2>5 DEF FirstOf
      <3>2. outbox[s][i].at <= outbox[s][goal[s]].at
        BY <1>5, <2>1, <2>2, <2>4, <2>5 DEF InTimeOrder
      <3>3. s \in Int /\ goal[s] \in Int /\ i \in Int
        BY <1>3, <2>1, ChangeStreamAssumption DEF Shards
      <3> HIDE DEF y
      <3> QED BY <1>4, <2>1, <2>3, <2>4, <3>1, <3>2, <3>3 DEF Earlier
    <2> QED BY <2>5
  <1> QED BY <1>6, <1>7

\* The other polls stay as they are when one of them moves.
LEMMA PollKeepsOthers ==
  ASSUME StreamFits, NoneLost, StreamFits', Grows, queued \subseteq queued',
         NEW d \in Dispatchers, NEW q, poll' = [poll EXCEPT ![d] = q],
         q.step = "read" => ReadsOnward(q)',
         q.step = "enqueue" => \A g, b : g = q.goal /\ b = q.batch => Covers(g, b)'
  PROVE  (\A c \in Dispatchers :
             /\ poll[c].step = "read" => ReadsOnward(poll[c])
             /\ poll[c].step = "enqueue" => Covers(poll[c].goal, poll[c].batch))'
  <1> SUFFICES ASSUME NEW c \in Dispatchers
               PROVE  (/\ poll[c].step = "read" => ReadsOnward(poll[c])
                       /\ poll[c].step = "enqueue" => Covers(poll[c].goal, poll[c].batch))'
    OBVIOUS
  <1>1. CASE c = d
    <2>1. poll'[c] = q
      BY <1>1 DEF StreamFits
    <2> QED BY <2>1
  <1>2. CASE c # d
    <2>1. PICK r : r = poll[c]
      OBVIOUS
    <2>2. poll'[c] = r
      BY <1>2, <2>1 DEF StreamFits
    <2>3. r.step = "read" => Reading(r) /\ ReadsOnward(r)
      BY <2>1 DEF StreamFits, NoneLost, Idle, Sending
    <2>4. r.step = "enqueue" => Sending(r) /\ Covers(r.goal, r.batch)
      BY <2>1 DEF StreamFits, NoneLost, Idle, Reading
    <2>5. r.step = "read" => ReadsOnward(r)'
      BY <2>3, HandledStays
    <2>6. r.step = "enqueue" => \A g, b : g = r.goal /\ b = r.batch => Covers(g, b)'
      BY <2>4, HandledStays
    <2> QED BY <2>2, <2>5, <2>6
  <1> QED BY <1>1, <1>2

LEMMA ReadLosesNone ==
  ASSUME StreamFits, NoneLost, InTimeOrder \/ ReadsUncut, NEW d \in Dispatchers, ReadShard(d)
  PROVE  NoneLost'
  <1>1. StreamFits' /\ Grows
    BY ReadFits
  <1>2. UNCHANGED <<outbox, cursor, queued>>
    BY DEF ReadShard
  <1>3. PICK p : p = poll[d]
    OBVIOUS
  <1>4. Reading(p) /\ ReadsOnward(p) /\ p.step = "read"
    BY <1>3 DEF StreamFits, NoneLost, ReadShard, Idle, Sending
  <1>5. PICK got : got = p.got \cup Rows(p.shard, p.from[p.shard], p.limit)
    OBVIOUS
  <1>6. /\ NoGap(p.from, got) /\ IsFiniteSet(got)
        /\ \A x \in got : IsRow(x) /\ p.from[x.shard] < x.seq
    BY <1>4, <1>5, ReadingLeavesNoGap DEF ReadsOnward
  <1>7. Behind(p.from) /\ InRange(p.from)
    BY <1>4 DEF ReadsOnward, Reading
  <1>8. \/ poll' = [poll EXCEPT ![d] = [p EXCEPT !.shard = @ + 1, !.got = got]]
        \/ \E batch \in FirstOf(got, p.limit) :
              poll' = [poll EXCEPT ![d] =
                          IF batch = {} THEN Idle
                          ELSE [step |-> "enqueue", batch |-> batch,
                                goal |-> Advanced(p.from, batch)]]
    BY <1>3, <1>5 DEF ReadShard
  <1>9. PICK q : /\ poll' = [poll EXCEPT ![d] = q]
                 /\ q.step = "read" => ReadsOnward(q)
                 /\ q.step = "enqueue" => Covers(q.goal, q.batch)
    <2>1. CASE poll' = [poll EXCEPT ![d] = [p EXCEPT !.shard = @ + 1, !.got = got]]
      <3>1. PICK q : q = [p EXCEPT !.shard = @ + 1, !.got = got]
        OBVIOUS
      <3>2. p \in [step : {"read"}, shard : Shards, from : [Shards -> Nat],
                   limit : Nat \ {0}, got : SUBSET Place]
        BY <1>4 DEF Reading
      <3>3. q.step = "read" /\ q.from = p.from /\ q.got = got
        BY <3>1, <3>2
      <3> QED BY <1>6, <1>7, <2>1, <3>1, <3>3 DEF ReadsOnward
    <2>2. ASSUME NEW batch \in FirstOf(got, p.limit),
                 poll' = [poll EXCEPT ![d] =
                             IF batch = {} THEN Idle
                             ELSE [step |-> "enqueue", batch |-> batch,
                                   goal |-> Advanced(p.from, batch)]]
          PROVE  \E q : /\ poll' = [poll EXCEPT ![d] = q]
                        /\ q.step = "read" => ReadsOnward(q)
                        /\ q.step = "enqueue" => Covers(q.goal, q.batch)
      <3>1. InTimeOrder \/ batch = got
        <4>1. CASE InTimeOrder
          BY <4>1
        <4>2. CASE ReadsUncut
          <5>1. Cardinality(got) <= p.limit /\ p.limit \in Nat
            BY <1>3, <1>4, <1>5, <4>2 DEF ReadsUncut, Reading
          <5> QED BY <1>6, <2>2, <5>1, UncutTakesAll
        <4> QED BY <4>1, <4>2
      <3>2. Covers(Advanced(p.from, batch), batch)
        BY <1>6, <1>7, <2>2, <3>1, BatchCovers
      <3> DEFINE q == [step |-> "enqueue", batch |-> batch, goal |-> Advanced(p.from, batch)]
      <3>3. q.step = "enqueue" /\ q.goal = Advanced(p.from, batch) /\ q.batch = batch
        OBVIOUS
      <3>4. CASE batch = {}
        <4>1. poll' = [poll EXCEPT ![d] = Idle]
          BY <2>2, <3>4
        <4>2. Idle.step = "idle"
          BY DEF Idle
        <4> QED BY <4>1, <4>2
      <3>5. CASE batch # {}
        <4>1. poll' = [poll EXCEPT ![d] = q]
          BY <2>2, <3>5
        <4> HIDE DEF q
        <4> QED BY <3>2, <3>3, <4>1
      <3> QED BY <3>4, <3>5
    <2> QED BY <1>8, <2>1, <2>2
  <1>10. /\ q.step = "read" => ReadsOnward(q)'
         /\ q.step = "enqueue" => \A g, b : g = q.goal /\ b = q.batch => Covers(g, b)'
    BY <1>2, <1>9 DEF ReadsOnward, Covers, Behind, NoGap, Handled, Row
  <1>11. Behind(cursor)'
    BY <1>2 DEF NoneLost, Behind, Handled
  <1>12. queued \subseteq queued'
    BY <1>2
  <1>13. poll' = [poll EXCEPT ![d] = q]
    BY <1>9
  <1> QED BY <1>1, <1>10, <1>11, <1>12, <1>13, PollKeepsOthers DEF NoneLost

LEMMA BeginLosesNone ==
  ASSUME StreamFits, NoneLost, NEW d \in Dispatchers, NEW n \in Limits, Begin(d, n)
  PROVE  NoneLost'
  <1>1. StreamFits' /\ Grows
    BY BeginFits
  <1>2. UNCHANGED <<outbox, cursor, queued>>
    BY DEF Begin
  <1>3. PICK q : q = [step |-> "read", shard |-> 1, from |-> cursor, limit |-> n, got |-> {}]
    OBVIOUS
  <1>4. q.step = "read" /\ q.from = cursor /\ q.got = {}
    BY <1>3
  <1>5. ReadsOnward(q)'
    <2>1. Behind(q.from)
      BY <1>4 DEF NoneLost
    <2>2. NoGap(q.from, q.got)
      BY <1>4 DEF NoGap
    <2> QED BY <1>2, <2>1, <2>2 DEF ReadsOnward, Behind, NoGap, Handled, Row
  <1>6. Behind(cursor)'
    BY <1>2 DEF NoneLost, Behind, Handled
  <1>7. poll' = [poll EXCEPT ![d] = q] /\ queued \subseteq queued'
    BY <1>2, <1>3 DEF Begin
  <1> QED BY <1>1, <1>4, <1>5, <1>6, <1>7, PollKeepsOthers DEF NoneLost

LEMMA EnqueueLosesNone ==
  ASSUME StreamFits, NoneLost, NEW d \in Dispatchers, Enqueue(d)
  PROVE  NoneLost'
  <1>1. StreamFits' /\ Grows
    BY EnqueueFits
  <1>2. UNCHANGED <<outbox, cursor>>
    BY DEF Enqueue
  <1>3. PICK x \in poll[d].batch :
          LET new == IF x.event.build THEN {EntryOf(x.event)} ELSE {}
          IN  /\ queued' = queued \cup new
              /\ poll' = [poll EXCEPT ![d].batch = @ \ {x}]
    BY DEF Enqueue
  <1>4. /\ queued \subseteq queued'
        /\ x.event.build => EntryOf(x.event) \in queued'
    BY <1>3
  <1>5. PICK p : p = poll[d]
    OBVIOUS
  <1>6. Sending(p) /\ Covers(p.goal, p.batch)
    BY <1>5 DEF StreamFits, NoneLost, Enqueue, Idle, Reading
  <1>7. PICK q : q = [p EXCEPT !.batch = p.batch \ {x}]
    OBVIOUS
  <1>8. q.step = "enqueue" /\ q.goal = p.goal /\ q.batch = p.batch \ {x}
    <2>1. /\ p \in [step : {"enqueue"}, batch : SUBSET Place, goal : [Shards -> Nat]]
          /\ p.batch \ {x} \in SUBSET Place
      BY <1>6 DEF Sending
    <2> QED BY <1>7, <2>1
  <1>9. ASSUME NEW g, NEW b, g = q.goal, b = q.batch PROVE Covers(g, b)'
    <2> SUFFICES ASSUME NEW s \in Shards, NEW i \in 1 .. g[s]
                 PROVE  Handled(s, i)' \/ Row(s, i)' \in b
      BY DEF Covers
    <2>1. Handled(s, i) \/ Row(s, i) \in p.batch
      BY <1>6, <1>8, <1>9 DEF Covers
    <2>2. Handled(s, i) => Handled(s, i)'
      BY <1>2, <1>4 DEF Handled
    <2>3. Row(s, i)' = Row(s, i)
      BY <1>2 DEF Row
    <2>4. Row(s, i) = x => Handled(s, i)'
      BY <1>2, <1>4 DEF Handled, Row
    <2> QED BY <1>8, <1>9, <2>1, <2>2, <2>3, <2>4
  <1>10. poll' = [poll EXCEPT ![d] = q]
    BY <1>3, <1>5, <1>7
  <1>11. Behind(cursor)'
    BY <1>1, <1>2, <1>4, HandledStays DEF NoneLost, StreamFits
  <1> QED BY <1>1, <1>4, <1>8, <1>9, <1>10, <1>11, PollKeepsOthers DEF NoneLost

LEMMA CheckpointLosesNone ==
  ASSUME StreamFits, NoneLost, NEW d \in Dispatchers, Checkpoint(d)
  PROVE  NoneLost'
  <1>1. StreamFits' /\ Grows
    BY CheckpointFits
  <1>2. /\ UNCHANGED <<outbox, queued>>
        /\ poll' = [poll EXCEPT ![d] = Idle]
        /\ cursor' = poll[d].goal
    BY DEF Checkpoint
  <1>3. Covers(poll[d].goal, {})
    BY DEF NoneLost, Checkpoint
  <1>4. Behind(cursor)'
    BY <1>2, <1>3 DEF Behind, Covers, Handled
  <1>5. Idle.step # "read" /\ Idle.step # "enqueue"
    BY DEF Idle
  <1> QED BY <1>1, <1>2, <1>4, <1>5, PollKeepsOthers DEF NoneLost

LEMMA CrashLosesNone ==
  ASSUME StreamFits, NoneLost, NEW d \in Dispatchers, Crash(d)
  PROVE  NoneLost'
  <1>1. StreamFits' /\ Grows
    BY CrashFits
  <1>2. UNCHANGED <<outbox, cursor, queued>> /\ poll' = [poll EXCEPT ![d] = Idle]
    BY DEF Crash
  <1>3. Behind(cursor)'
    BY <1>2 DEF NoneLost, Behind, Handled
  <1>4. Idle.step # "read" /\ Idle.step # "enqueue"
    BY DEF Idle
  <1> QED BY <1>1, <1>2, <1>3, <1>4, PollKeepsOthers DEF NoneLost

\* A step that moves no poll loses nothing, for it takes nothing back.
LEMMA OthersLoseNone ==
  ASSUME StreamFits, NoneLost, Grows, UNCHANGED <<cursor, queued, poll>>
  PROVE  NoneLost'
  <1>1. Behind(cursor)'
    BY HandledStays DEF NoneLost, StreamFits
  <1>2. ASSUME NEW c \in Dispatchers
        PROVE  (/\ poll[c].step = "read" => ReadsOnward(poll[c])
                /\ poll[c].step = "enqueue" => Covers(poll[c].goal, poll[c].batch))'
    <2>1. PICK r : r = poll[c]
      OBVIOUS
    <2>2. r.step = "read" => Reading(r) /\ ReadsOnward(r)
      BY <2>1 DEF StreamFits, NoneLost, Idle, Sending
    <2>3. r.step = "enqueue" => Sending(r) /\ Covers(r.goal, r.batch)
      BY <2>1 DEF StreamFits, NoneLost, Idle, Reading
    <2>4. r.step = "read" => ReadsOnward(r)'
      BY <2>2, HandledStays
    <2>5. r.step = "enqueue" => \A g, b : g = r.goal /\ b = r.batch => Covers(g, b)'
      BY <2>3, HandledStays
    <2> QED BY <2>1, <2>4, <2>5
  <1> QED BY <1>1, <1>2 DEF NoneLost

LEMMA NoneLostStep ==
  ASSUME StreamIInv, InTimeOrder \/ ReadsUncut, [Next]_vars
  PROVE  StreamIInv'
  <1> USE DEF StreamIInv
  <1>1. StreamFits' /\ Grows
    BY FitsStep
  <1>2. CASE \/ Tick
             \/ \E w \in Writers, e \in Envs, b \in BOOLEAN : Stamp(w, e, b)
             \/ \E x \in queue : Complete(x)
             \/ UNCHANGED vars
    BY <1>1, <1>2, OthersFit, OthersLoseNone
  <1>3. CASE \E w \in Writers : Commit(w)
    <2>1. UNCHANGED <<cursor, queued, poll>>
      BY <1>3 DEF Commit
    <2> QED BY <1>1, <2>1, OthersLoseNone
  <1>4. CASE \E d \in Dispatchers : Poll(d) \/ Crash(d)
    BY <1>1, <1>4, BeginLosesNone, ReadLosesNone, EnqueueLosesNone, CheckpointLosesNone,
       CrashLosesNone DEF Poll
  <1> QED BY <1>2, <1>3, <1>4 DEF Next

LEMMA NoneLostInit ==
  ASSUME Init
  PROVE  StreamIInv
  <1>1. StreamFits
    BY FitsInit
  <1>2. Behind(cursor)
    BY DEF Init, Behind
  <1>3. \A d \in Dispatchers : poll[d].step = "idle"
    BY DEF Init, Idle
  <1> QED BY <1>1, <1>2, <1>3 DEF StreamIInv, NoneLost

\* read_events and the checkpoint lose no event as long as, whenever a poll
\* reads, the timestamps of every shard follow its sequence or the poll is not
\* asked for less than there is: however many dispatchers move the one cursor,
\* forwards or back, and wherever they die.
THEOREM NothingIsLost == Spec /\ [](InTimeOrder \/ ReadsUncut) => []NothingSkipped
  <1>1. StreamIInv => NothingSkipped
    BY DEF StreamIInv, NoneLost, Behind, Handled, NothingSkipped
  <1>2. StreamIInv /\ (InTimeOrder \/ ReadsUncut) /\ [Next]_vars => StreamIInv'
    BY NoneLostStep
  <1>3. Init => StreamIInv
    BY NoneLostInit
  <1> QED BY <1>1, <1>2, <1>3, PTL DEF Spec

-----------------------------------------------------------------------------
\* Publish order

\* In time order a batch has an environment's events in publish order.
LEMMA OrderedByTime ==
  ASSUME StreamFits, InTimeOrder
  PROVE  BatchInPublishOrder
  <1> SUFFICES ASSUME NEW d \in Dispatchers, poll[d].step = "enqueue",
                      NEW x \in poll[d].batch, NEW y \in poll[d].batch,
                      x.event.env = y.event.env, Earlier(x, y)
               PROVE  x.event.op < y.event.op
    BY DEF BatchInPublishOrder
  <1>1. Sending(poll[d])
    BY DEF StreamFits, Idle, Reading
  <1>2. IsRow(x) /\ IsRow(y)
    BY <1>1 DEF Sending
  <1>3. PICK s \in Shards : \E i \in DOMAIN outbox[s] : x = Row(s, i)
    BY <1>2 DEF IsRow, Place
  <1>4. PICK i \in DOMAIN outbox[s] : x = Row(s, i)
    BY <1>3
  <1>5. PICK t \in Shards : \E j \in DOMAIN outbox[t] : y = Row(t, j)
    BY <1>2 DEF IsRow, Place
  <1>6. PICK j \in DOMAIN outbox[t] : y = Row(t, j)
    BY <1>5
  <1>7. /\ x.shard = s /\ x.seq = i /\ x.event = outbox[s][i]
        /\ y.shard = t /\ y.seq = j /\ y.event = outbox[t][j]
    BY <1>4, <1>6 DEF Row
  <1>8. s = t
    BY <1>4, <1>6, <1>7 DEF StreamFits, InSequence
  <1>9. outbox[s][i].at \in Nat /\ outbox[s][j].at \in Nat /\ i \in Nat /\ j \in Nat /\ s \in Int
    <2>1. outbox[s][i] \in Event /\ outbox[s][j] \in Event /\ i \in Nat /\ j \in Nat
      BY <1>4, <1>6, <1>8 DEF StreamFits
    <2> QED BY <2>1, ChangeStreamAssumption DEF Event, Shards
  <1>10. i < j
    <2>1. CASE outbox[s][i].at < outbox[s][j].at
      <3>1. ~(j < i)
        BY <2>1, <1>4, <1>6, <1>8, <1>9 DEF InTimeOrder
      <3>2. i # j
        BY <2>1, <1>9
      <3> QED BY <3>1, <3>2, <1>9
    <2>2. CASE ~(outbox[s][i].at < outbox[s][j].at)
      BY <2>2, <1>7, <1>8, <1>9 DEF Earlier
    <2> QED BY <2>1, <2>2
  <1> QED BY <1>4, <1>6, <1>7, <1>8, <1>10 DEF StreamFits, InSequence

\* While the timestamps of a shard follow its sequence, what a poll has read is
\* fit to be queued: its cursors are in range, and its batch is in the order
\* each environment published it.
THEOREM BatchesAreInPublishOrder == Spec /\ []InTimeOrder => []StreamInv
  <1>1. StreamFits /\ InTimeOrder => BatchInPublishOrder
    BY OrderedByTime
  <1>2. Spec => []TypeOK
    BY StreamKeepsItsShape
  <1> QED BY <1>1, <1>2, FitsInit, FitsStep, PTL DEF Spec, StreamInv

-----------------------------------------------------------------------------
\* One writer at a time

\* What is in the outbox is no younger than the clock, nor than a write under way.
StampsFollow ==
    \A s \in Shards : \A i \in DOMAIN outbox[s] :
        /\ outbox[s][i].at <= clock
        /\ \A w \in Writers : writing[w] # NoWrite => outbox[s][i].at <= writing[w].at

LEMMA OneWriterStep ==
  ASSUME \A v, w \in Writers : v = w,
         StreamFits, InTimeOrder, StampsFollow, [Next]_vars
  PROVE  InTimeOrder' /\ StampsFollow'
  <1>1. \A s \in Shards : \A i \in DOMAIN outbox[s] : outbox[s][i].at \in Nat /\ i \in Nat
    <2>1. \A s \in Shards : \A i \in DOMAIN outbox[s] : outbox[s][i] \in Event /\ i \in Nat
      BY DEF StreamFits
    <2> QED BY <2>1 DEF Event
  <1>2. CASE Tick
    <2>1. UNCHANGED <<outbox, writing>> /\ clock' = clock + 1 /\ clock \in Nat
      BY <1>2, ChangeStreamAssumption DEF Tick, StreamFits
    <2> QED BY <1>1, <2>1 DEF InTimeOrder, StampsFollow
  <1>3. ASSUME NEW w \in Writers, NEW e \in Envs, NEW b \in BOOLEAN, Stamp(w, e, b)
        PROVE  InTimeOrder' /\ StampsFollow'
    <2>1. /\ UNCHANGED <<outbox, clock>>
          /\ writing' = [writing EXCEPT ![w] = [at |-> clock, env |-> e, build |-> b]]
      BY <1>3 DEF Stamp
    <2>2. \A v \in Writers : v # w => writing'[v] = writing[v]
      BY <2>1 DEF StreamFits
    <2>3. writing'[w].at = clock
      BY <2>1 DEF StreamFits
    <2> QED BY <2>1, <2>2, <2>3 DEF InTimeOrder, StampsFollow
  <1>4. ASSUME NEW w \in Writers, Commit(w)
        PROVE  InTimeOrder' /\ StampsFollow'
    <2> DEFINE m == writing[w]
               s0 == ShardOf[m.env]
               e == [env |-> m.env, op |-> ops[m.env] + 1, at |-> m.at, build |-> m.build]
    <2>1. m # NoWrite /\ m \in [at : 0 .. clock, env : Envs, build : BOOLEAN] /\ clock \in Nat
      BY <1>4, ChangeStreamAssumption DEF StreamFits, Commit
    <2>2. s0 \in Shards /\ e.at = m.at /\ m.at \in Nat /\ m.at <= clock
      BY <2>1, ChangeStreamAssumption
    <2>3. /\ outbox' = [outbox EXCEPT ![s0] = Append(@, e)]
          /\ writing' = [writing EXCEPT ![w] = NoWrite]
          /\ UNCHANGED clock
      BY <1>4 DEF Commit
    <2>4. \A v \in Writers : writing'[v] = NoWrite
      BY <2>3 DEF StreamFits
    <2>5. \A s \in Shards : \A i \in DOMAIN outbox[s] : outbox[s][i].at <= m.at
      BY <2>1 DEF StampsFollow
    <2> HIDE DEF e, s0, m
    <2>6. /\ Len(outbox[s0]) \in Nat
          /\ \A s \in Shards : DOMAIN outbox[s] = 1 .. Len(outbox[s])
          /\ DOMAIN outbox'[s0] = 1 .. (Len(outbox[s0]) + 1)
          /\ outbox'[s0][Len(outbox[s0]) + 1] = e
          /\ \A i \in DOMAIN outbox[s0] : outbox'[s0][i] = outbox[s0][i]
          /\ \A s \in Shards : s # s0 => outbox'[s] = outbox[s]
      BY <2>2, <2>3 DEF StreamFits
    <2>7. ASSUME NEW s \in Shards, NEW i \in DOMAIN outbox'[s]
          PROVE  /\ outbox'[s][i].at <= m.at
                 /\ \A j \in DOMAIN outbox'[s] : i < j => outbox'[s][i].at <= outbox'[s][j].at
      <3>1. CASE s # s0
        BY <3>1, <2>5, <2>6 DEF InTimeOrder
      <3>2. CASE s = s0
        <4>1. CASE i = Len(outbox[s0]) + 1
          BY <3>2, <4>1, <2>2, <2>6
        <4>2. CASE i # Len(outbox[s0]) + 1
          <5>1. i \in DOMAIN outbox[s0] /\ outbox'[s][i] = outbox[s0][i]
            BY <3>2, <4>2, <2>6
          <5>2. outbox[s0][i].at <= m.at
            BY <2>2, <2>5, <5>1
          <5>3. ASSUME NEW j \in DOMAIN outbox'[s], i < j
                PROVE  outbox'[s][i].at <= outbox'[s][j].at
            <6>1. CASE j = Len(outbox[s0]) + 1
              BY <6>1, <3>2, <5>1, <5>2, <2>2, <2>6
            <6>2. CASE j # Len(outbox[s0]) + 1
              <7>1. j \in DOMAIN outbox[s0] /\ outbox'[s][j] = outbox[s0][j]
                BY <3>2, <6>2, <2>6
              <7> QED BY <7>1, <5>1, <5>3, <2>2 DEF InTimeOrder
            <6> QED BY <6>1, <6>2
          <5> QED BY <5>1, <5>2, <5>3
        <4> QED BY <4>1, <4>2
      <3> QED BY <3>1, <3>2
    <2>8. \A s \in Shards : \A i \in DOMAIN outbox'[s] : outbox'[s][i].at <= clock
      <3> SUFFICES ASSUME NEW s \in Shards, NEW i \in DOMAIN outbox'[s]
                   PROVE  outbox'[s][i].at <= clock
        OBVIOUS
      <3>1. outbox'[s][i].at \in Nat
        BY <1>1, <2>2, <2>6
      <3> QED BY <3>1, <2>1, <2>2, <2>7
    <2>9. InTimeOrder'
      BY <2>7 DEF InTimeOrder
    <2> QED BY <2>3, <2>4, <2>8, <2>9 DEF StampsFollow
  <1>5. CASE \/ \E d \in Dispatchers : Poll(d) \/ Crash(d)
             \/ \E x \in queue : Complete(x)
             \/ UNCHANGED vars
    <2>1. UNCHANGED <<outbox, clock, writing>>
      BY <1>5 DEF Poll, Begin, ReadShard, Enqueue, Checkpoint, Crash, Complete, vars
    <2> QED BY <2>1 DEF InTimeOrder, StampsFollow
  <1> QED BY <1>2, <1>3, <1>4, <1>5 DEF Next

\* When writers commit one at a time, no event is lost and every batch is in
\* publish order, with any number of shards, dispatchers, deaths and truncated
\* polls.
THEOREM OneWriterLosesNothing ==
  ASSUME \A v, w \in Writers : v = w
  PROVE  Spec => []NothingSkipped /\ []StreamInv
  <1>1. Init => InTimeOrder /\ StampsFollow
    BY DEF Init, InTimeOrder, StampsFollow
  <1>2. StreamFits /\ InTimeOrder /\ StampsFollow /\ [Next]_vars => InTimeOrder' /\ StampsFollow'
    BY OneWriterStep
  <1>3. Spec => []InTimeOrder
    BY <1>1, <1>2, FitsInit, FitsStep, PTL DEF Spec
  <1>4. Spec => [](InTimeOrder \/ ReadsUncut)
    BY <1>3, PTL
  <1> QED BY <1>3, <1>4, NothingIsLost, BatchesAreInPublishOrder, PTL
=============================================================================
