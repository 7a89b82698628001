---------------------------- MODULE NameRegistry ----------------------------
(***************************************************************************)
(* Environments and their names (src/src/meta/repository.py): a name is    *)
(* claimed in a global keyspace, the environment's record lives in its own *)
(* partition, and no transaction spans the two.  Creation, rename, record  *)
(* replacement, fork (src/src/service/environments.py) and the sweeper of  *)
(* orphaned claims are sequences of statements that interleave and may be  *)
(* cut short by a crash.                                                   *)
(*                                                                         *)
(* Abstracted: the record's fields are its name and one other attribute    *)
(* that stands for labels, state and fork provenance.                      *)
(***************************************************************************)
EXTENDS Naturals, FiniteSets

CONSTANTS
    Callers,     \* request threads and maintenance processes
    Names,       \* environment names
    Keys,        \* idempotency keys of creations
    Values,      \* values of the record's other attribute; a new record has New
    NoName, NoKey, New,
    Kinds,       \* the operations callers ask for
    Overlaps,    \* the pairs of operations that may overlap: the code allows all
    Rank,        \* the order of the names as keys
    SweepLimits, \* how many claims a sweep asks for: 1000 in a pass, 100 by default
    MaxEnvs,     \* bound: environment ids drawn
    MaxCalls,    \* bound: operations
    MaxCrashes   \* bound: operations cut short

ASSUME NameRegistryAssumption ==
    /\ NoName \notin Names /\ NoKey \notin Keys /\ New \notin Values
    /\ Kinds \subseteq {"create", "fork", "rename", "replace", "sweep"}
    /\ Overlaps \subseteq Kinds \X Kinds
    /\ Rank \in [Names -> Nat] /\ \A m, n \in Names : Rank[m] = Rank[n] => m = n
    /\ SweepLimits \subseteq Nat \ {0}
    /\ {MaxEnvs, MaxCalls, MaxCrashes} \subseteq Nat

VARIABLES
    names,    \* the claims: per name, the environment and the key it carries
    envs,     \* the records, by environment id
    drawn,    \* environment ids drawn so far: they are random, hence fresh
    drawnFor, \* history: the key and the name each id was drawn for
    call,     \* the operation each caller is in the middle of
    answer,   \* how its last operation ended
    asks,     \* operations asked for so far
    crashes   \* operations cut short so far

vars == <<names, envs, drawn, drawnFor, call, answer, asks, crashes>>

Ids == 1 .. MaxEnvs

Free == [env |-> 0, key |-> NoKey]
NoRecord == [name |-> NoName, value |-> New]

\* env 0: none yet.  record: as the operation read it.  todo: claims the
\* sweeper has still to look at, as its scan returned them.  limit, reclaimed:
\* how many it asked for, and how many it has found orphaned.
Idle == [kind |-> "none", step |-> "idle", name |-> NoName, key |-> NoKey, env |-> 0,
         value |-> New, record |-> NoRecord, todo |-> {}, limit |-> 0, reclaimed |-> 0]

Init ==
    /\ names = [n \in Names |-> Free]
    /\ envs = [e \in Ids |-> NoRecord]
    /\ drawn = 0
    /\ drawnFor = [e \in Ids |-> [key |-> NoKey, name |-> NoName]]
    /\ call = [c \in Callers |-> Idle]
    /\ answer = [c \in Callers |-> [outcome |-> "none", env |-> 0, key |-> NoKey]]
    /\ asks = 0
    /\ crashes = 0

-----------------------------------------------------------------------------
\* Calls

Busy == {d \in Callers : call[d] # Idle}

Ask(c, request) ==
    /\ call[c] = Idle
    /\ request.kind \in Kinds
    /\ asks < MaxCalls
    /\ \A d \in Busy : <<request.kind, call[d].kind>> \in Overlaps
    /\ call' = [call EXCEPT ![c] = request]
    /\ asks' = asks + 1
    /\ UNCHANGED <<names, envs, answer, crashes>>

Goto(c, step) == call' = [call EXCEPT ![c].step = step]

Return(c, outcome, e) ==
    /\ call' = [call EXCEPT ![c] = Idle]
    /\ answer' = [answer EXCEPT ![c] = [outcome |-> outcome, env |-> e, key |-> call[c].key]]

\* Every creation draws an id of its own, before it knows whether it will
\* need it; a fork creates, then adds its provenance.
AskCreate(c, kind, n, k) ==
    /\ drawn < MaxEnvs
    /\ drawn' = drawn + 1
    /\ drawnFor' = [drawnFor EXCEPT ![drawn + 1] = [key |-> k, name |-> n]]
    /\ Ask(c, [Idle EXCEPT !.kind = kind, !.step = "claim", !.name = n, !.key = k,
                           !.env = drawn + 1])

AskRename(c, e, n) ==
    /\ Ask(c, [Idle EXCEPT !.kind = "rename", !.step = "read", !.name = n, !.env = e])
    /\ UNCHANGED <<drawn, drawnFor>>

\* set_env_state and set_env_labels.
AskReplace(c, e, v) ==
    /\ Ask(c, [Idle EXCEPT !.kind = "replace", !.step = "read", !.env = e, !.value = v])
    /\ UNCHANGED <<drawn, drawnFor>>

Claimed == {n \in Names : names[n] # Free}
Before(n) == {m \in Claimed : Rank[m] < Rank[n]}

\* scan_global returns the first claims in the order of the names, as many as
\* it is asked for; no sweep goes on where another stopped.
AskSweep(c, limit) ==
    /\ Ask(c, [Idle EXCEPT !.kind = "sweep", !.step = "next", !.limit = limit,
                           !.todo = {[name |-> n, env |-> names[n].env] :
                                        n \in {m \in Claimed : Cardinality(Before(m)) < limit}}])
    /\ UNCHANGED <<drawn, drawnFor>>

Crash(c) ==
    /\ call[c] # Idle
    /\ crashes < MaxCrashes
    /\ crashes' = crashes + 1
    /\ Return(c, "none", 0)
    /\ UNCHANGED <<names, envs, drawn, drawnFor, asks>>

-----------------------------------------------------------------------------
\* create_env, fork and rename_env: the claim

\* Faulty variant: the claim is put whoever holds the name.
ClaimAnyway(c) ==
    LET q == call[c]
    IN  /\ q.step = "claim"
        /\ names' = [names EXCEPT ![q.name] = [env |-> q.env, key |-> q.key]]
        /\ Goto(c, "write")
        /\ UNCHANGED <<envs, drawn, drawnFor, answer, asks, crashes>>

\* The name goes to whoever inserts the claim; a creation that loses asks
\* whether its own key won.
Claim(c) ==
    LET q == call[c]
    IN  /\ q.step = "claim"
        /\ \/ /\ names[q.name] = Free
              /\ names' = [names EXCEPT ![q.name] = [env |-> q.env, key |-> q.key]]
              /\ Goto(c, "write")
              /\ answer' = answer
           \/ /\ names[q.name] # Free
              /\ names' = names
              /\ IF q.key = NoKey THEN Return(c, "conflict", 0)
                 ELSE Goto(c, "replay") /\ answer' = answer
        /\ UNCHANGED <<envs, drawn, drawnFor, asks, crashes>>

\* What a creation does once the environment is there.
Created(c, e) ==
    IF call[c].kind = "fork"
    THEN /\ call' = [call EXCEPT ![c].step = "read", ![c].env = e]
         /\ answer' = answer
    ELSE Return(c, "created", e)

\* _replay_create_env: the claim, if it carries the same key ...
Replay(c) ==
    LET q == call[c]
        k == names[q.name]
    IN  /\ q.step = "replay"
        /\ IF k # Free /\ k.key = q.key
           THEN call' = [call EXCEPT ![c].step = "replayed", ![c].env = k.env] /\ answer' = answer
           ELSE Return(c, "conflict", 0)
        /\ UNCHANGED <<names, envs, drawn, drawnFor, asks, crashes>>

\* ... names the environment to answer with.
Replayed(c) ==
    /\ call[c].step = "replayed"
    /\ IF envs[call[c].env] = NoRecord THEN Return(c, "notfound", 0)
       ELSE Created(c, call[c].env)
    /\ UNCHANGED <<names, envs, drawn, drawnFor, asks, crashes>>

\* The record.  A creation's is new; a rename writes back the one it read,
\* under the new name.
Write(c) ==
    LET q == call[c]
    IN  /\ q.step = "write"
        /\ \/ /\ q.kind \in {"create", "fork"}
              /\ envs' = [envs EXCEPT ![q.env] = [name |-> q.name, value |-> New]]
              /\ Created(c, q.env)
           \/ /\ q.kind = "rename"
              /\ envs' = [envs EXCEPT ![q.env] = [q.record EXCEPT !.name = q.name]]
              /\ Goto(c, "free")
              /\ answer' = answer
        /\ UNCHANGED <<names, drawn, drawnFor, asks, crashes>>

\* A rename deletes the claim of the name the record had when it was read.
FreeOld(c) ==
    /\ call[c].step = "free"
    /\ names' = [names EXCEPT ![call[c].record.name] = Free]
    /\ Return(c, "renamed", call[c].env)
    /\ UNCHANGED <<envs, drawn, drawnFor, asks, crashes>>

-----------------------------------------------------------------------------
\* Changing a record

\* Faulty variant: a record that is not there is changed all the same.
ReadAnything(c) ==
    LET q == call[c]
    IN  /\ q.step = "read"
        /\ call' = [call EXCEPT ![c].record = envs[q.env],
                      ![c].step = IF q.kind = "rename" THEN "claim" ELSE "put"]
        /\ UNCHANGED <<names, envs, drawn, drawnFor, answer, asks, crashes>>

\* get_env.
Read(c) ==
    LET q == call[c]
        r == envs[q.env]
    IN  /\ q.step = "read"
        /\ \/ r = NoRecord /\ Return(c, "notfound", 0)
           \/ r # NoRecord /\ q.kind = "rename" /\ r.name = q.name /\ Return(c, "renamed", q.env)
           \/ /\ r # NoRecord /\ (q.kind = "rename" => r.name # q.name)
              /\ call' = [call EXCEPT ![c].record = r,
                            ![c].step = IF q.kind = "rename" THEN "claim" ELSE "put"]
              /\ answer' = answer
        /\ UNCHANGED <<names, envs, drawn, drawnFor, asks, crashes>>

\* _replace_env, and a fork's provenance: the record that was read, whole,
\* with one attribute changed, under no condition.
PutBack(c) ==
    LET q == call[c]
    IN  /\ q.step = "put"
        /\ \E v \in IF q.kind = "fork" THEN Values ELSE {q.value} :
              envs' = [envs EXCEPT ![q.env] = [q.record EXCEPT !.value = v]]
        /\ Return(c, IF q.kind = "fork" THEN "created" ELSE "replaced", q.env)
        /\ UNCHANGED <<names, drawn, drawnFor, asks, crashes>>

-----------------------------------------------------------------------------
\* sweep_orphan_name_claims

SweepNext(c) ==
    /\ call[c].step = "next"
    /\ IF call[c].todo = {} THEN Return(c, "swept", 0)
       ELSE /\ \E x \in call[c].todo :
                 call' = [call EXCEPT ![c].step = "judge", ![c].name = x.name, ![c].env = x.env,
                                      ![c].todo = @ \ {x}]
            /\ answer' = answer
    /\ UNCHANGED <<names, envs, drawn, drawnFor, asks, crashes>>

\* Orphaned: the environment a claim names does not point back at it.
Orphaned(n, e) == envs[e] = NoRecord \/ envs[e].name # n

\* Faulty variant: only a claim on an environment that is not there goes.
SweepJudgeMissing(c) ==
    /\ call[c].step = "judge"
    /\ Goto(c, IF envs[call[c].env] = NoRecord THEN "delete" ELSE "next")
    /\ UNCHANGED <<names, envs, drawn, drawnFor, answer, asks, crashes>>

\* The record of the environment the scan saw the claim name is read ...
SweepJudge(c) ==
    /\ call[c].step = "judge"
    /\ Goto(c, IF Orphaned(call[c].name, call[c].env) THEN "delete" ELSE "next")
    /\ UNCHANGED <<names, envs, drawn, drawnFor, answer, asks, crashes>>

\* ... and then the claim is deleted, whatever has become of either.
SweepDelete(c) ==
    /\ call[c].step = "delete"
    /\ names' = [names EXCEPT ![call[c].name] = Free]
    /\ call' = [call EXCEPT ![c].step = "next", ![c].reclaimed = @ + 1]
    /\ UNCHANGED <<envs, drawn, drawnFor, answer, asks, crashes>>

-----------------------------------------------------------------------------

Step(c) ==
    \/ Claim(c) \/ Replay(c) \/ Replayed(c) \/ Write(c) \/ FreeOld(c)
    \/ Read(c) \/ PutBack(c)
    \/ SweepNext(c) \/ SweepJudge(c) \/ SweepDelete(c)

AskAny(c) ==
    \/ \E kind \in {"create", "fork"}, n \in Names, k \in Keys \cup {NoKey} :
          AskCreate(c, kind, n, k)
    \/ \E e \in 1 .. drawn :
          \/ \E n \in Names : AskRename(c, e, n)
          \/ \E v \in Values : AskReplace(c, e, v)
    \/ \E limit \in SweepLimits : AskSweep(c, limit)

Next == \E c \in Callers : AskAny(c) \/ Step(c) \/ Crash(c)

Spec == Init /\ [][Next]_vars

-----------------------------------------------------------------------------
\* Properties

\* The shape of claims, records and calls: every record that any operation
\* writes back has a name.
TypeOK ==
    /\ names \in [Names -> {Free} \cup [env : Ids, key : Keys \cup {NoKey}]]
    /\ envs \in [Ids -> {NoRecord} \cup [name : Names, value : Values \cup {New}]]
    /\ drawn \in 0 .. MaxEnvs
    /\ \A c \in Callers :
          /\ call[c].kind \in Kinds \cup {"none"}
          /\ call[c].step \in {"idle", "claim", "replay", "replayed", "write", "free", "read",
                               "put", "next", "judge", "delete"}
          /\ call[c].env \in 0 .. drawn
          /\ answer[c].env \in 0 .. drawn

\* Every environment can be addressed: the name in its record is claimed, and
\* claimed for it.  So no two environments have one name.
Addressable == \A e \in Ids : envs[e] # NoRecord => names[envs[e].name].env = e

\* A creation that is told of an environment, at once, on a repetition or after
\* a fork's provenance was added, is told of one that is there and was drawn
\* under its own key, whatever overlaps.
CreatedIsThere ==
    \A c \in Callers :
        answer[c].outcome = "created" =>
            /\ envs[answer[c].env] # NoRecord
            /\ drawnFor[answer[c].env].key = answer[c].key

\* What a sweep that nothing overlapped has done, as far as its answer tells: a
\* claim that is still orphaned has as many claims before it, those it reclaimed
\* among them, as the sweep asked for.
SweptClean ==
    [][\A c \in Callers :
          call[c].kind = "sweep" /\ answer'[c].outcome = "swept" /\ call'[c] = Idle
          => \A n \in Claimed :
                Orphaned(n, names[n].env) =>
                    Cardinality(Before(n)) + call[c].reclaimed >= call[c].limit]_vars

\* The claims and the records agree in every step of every operation, and so
\* do the answers.
NamesInv == TypeOK /\ Addressable /\ CreatedIsThere

-----------------------------------------------------------------------------
\* What the documentation says and the code does not keep: TLC refutes each of
\* these once the constants let the case arise (README, "Divergences").

\* Orphaned claims are reclaimed: not those behind as many live ones as a sweep
\* asks for, however often it runs.
OrphansReclaimed ==
    [][\A c \in Callers :
          call[c].kind = "sweep" /\ answer'[c].outcome = "swept" /\ call'[c] = Idle
          => \A n \in Claimed : ~Orphaned(n, names[n].env)]_vars

\* A creation repeated under its key makes one environment.
CreatedOnce ==
    \A e, f \in Ids :
        /\ envs[e] # NoRecord /\ envs[f] # NoRecord
        /\ drawnFor[e] = drawnFor[f] /\ drawnFor[e].key # NoKey
        => e = f

\* A creation repeated under its key learns of the environment it created,
\* and never that there is no such environment.
RetryAnswered == \A c \in Callers : answer[c].outcome = "notfound" => answer[c].key = NoKey
=============================================================================
