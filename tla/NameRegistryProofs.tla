------------------------- MODULE NameRegistryProofs -------------------------
(***************************************************************************)
(* A creation that is told of an environment is told of one that is there  *)
(* and was drawn under its own key (NameRegistry), for any number of       *)
(* callers, names, keys and environments, whatever overlaps and whatever   *)
(* is cut short: the sweeper, a rename and a put-back beside the creation  *)
(* included.                                                               *)
(*                                                                         *)
(* A claim carries the key its environment was drawn under or none, and a  *)
(* record that is there is never taken away, only changed, so that what a  *)
(* repeated creation finds behind a claim with its key is its own.         *)
(***************************************************************************)
EXTENDS NameRegistry, TLAPS

Record == [name : Names, value : Values \cup {New}]

Steps == {"idle", "claim", "replay", "replayed", "write", "free", "read", "put", "next",
          "judge", "delete"}

Outcomes == {"none", "conflict", "created", "notfound", "renamed", "replaced", "swept"}

Requests ==
    [kind : Kinds \cup {"none"}, step : Steps, name : Names \cup {NoName},
     key : Keys \cup {NoKey}, env : 0 .. drawn, value : Values \cup {New},
     record : {NoRecord} \cup Record, todo : SUBSET [name : Names, env : 1 .. drawn],
     limit : Nat, reclaimed : Nat]

AnswersGiven == [outcome : Outcomes, env : 0 .. drawn, key : Keys \cup {NoKey}]

Claims == {Free} \cup [env : 1 .. drawn, key : Keys \cup {NoKey}]

\* The state has its types.
RegistryShape ==
    /\ drawn \in 0 .. MaxEnvs
    /\ names \in [Names -> Claims]
    /\ envs \in [Ids -> {NoRecord} \cup Record]
    /\ drawnFor \in [Ids -> [key : Keys \cup {NoKey}, name : Names \cup {NoName}]]
    /\ call \in [Callers -> Requests]
    /\ answer \in [Callers -> AnswersGiven]

\* A claim carries the key its environment was drawn under, or none: a rename's
\* carries none.
KeyOfClaim(k) == k.key # NoKey => drawnFor[k.env].key = k.key

Creates(q) == q.kind \in {"create", "fork"}

\* What an operation carries to its next statement: a creation an environment
\* drawn under its key, its own or the one its key won, and every operation
\* that changes a record one that is there.
Carries(q) ==
    /\ q.step # "idle" /\ Creates(q) => q.env \in 1 .. drawn /\ drawnFor[q.env].key = q.key
    /\ ~Creates(q) => q.key = NoKey
    /\ q.step \in {"replay", "replayed"} => Creates(q) /\ q.key # NoKey
    /\ q.step \in {"claim", "replay", "write", "free"} => q.name \in Names
    /\ q.step \in {"claim", "write", "replayed", "free", "read", "put"} => q.env \in 1 .. drawn
    /\ q.step \in {"claim", "write", "free"} => Creates(q) \/ q.kind = "rename"
    /\ q.step \in {"claim", "write", "free"} /\ q.kind = "rename" => q.record \in Record
    /\ q.step = "free" => q.kind = "rename"
    /\ q.step = "put" => q.record \in Record /\ envs[q.env] # NoRecord
    /\ q.step = "read" /\ q.kind = "rename" => q.name \in Names
    /\ q.step \in {"next", "judge", "delete"} => q.kind = "sweep"
    /\ q.step \in {"judge", "delete"} => q.name \in Names /\ q.env \in 1 .. drawn

\* A creation's answer names an environment that is there, drawn under its key.
AnswersOwn(a) ==
    a.outcome = "created" =>
        a.env \in 1 .. drawn /\ envs[a.env] # NoRecord /\ drawnFor[a.env].key = a.key

RegistryInv ==
    /\ RegistryShape
    /\ \A n \in Names : KeyOfClaim(names[n])
    /\ \A c \in Callers : Carries(call[c]) /\ AnswersOwn(answer[c])
-----------------------------------------------------------------------------
\* What the steps have in common

\* Records and claims are told from none by their fields.
LEMMA Fields ==
    /\ NoRecord \notin Record /\ Free.env = 0 /\ Free.key = NoKey
    /\ Idle.step = "idle" /\ Idle.kind = "none" /\ Idle.key = NoKey
  BY NameRegistryAssumption DEF NoRecord, Record, Free, Idle

\* The types, one by one.
LEMMA Typed ==
    ASSUME RegistryShape
    PROVE  /\ drawn \in Nat /\ MaxEnvs \in Nat /\ drawn <= MaxEnvs
           /\ \A e \in 1 .. drawn : e \in Ids
           /\ \A n \in Names : names[n] \in Claims
           /\ \A n \in Names : names[n] # Free =>
                  names[n].env \in 1 .. drawn /\ names[n].key \in Keys \cup {NoKey}
           /\ \A e \in Ids : envs[e] # NoRecord => envs[e] \in Record
           /\ Idle \in Requests
  <1>1. /\ drawn \in Nat /\ MaxEnvs \in Nat /\ drawn <= MaxEnvs
        /\ \A e \in 1 .. drawn : e \in Ids
        /\ \A n \in Names : names[n] \in Claims
    BY NameRegistryAssumption DEF RegistryShape, Ids
  <1>2. \A n \in Names : names[n] # Free =>
            names[n].env \in 1 .. drawn /\ names[n].key \in Keys \cup {NoKey}
    BY <1>1 DEF Claims
  <1>3. \A e \in Ids : envs[e] # NoRecord => envs[e] \in Record
    BY DEF RegistryShape
  <1>4. Idle \in Requests
    BY <1>1 DEF Requests, Idle, Steps
  <1>. QED BY <1>1, <1>2, <1>3, <1>4

\* Nothing is expected of an operation that has ended.
LEMMA IdleCarries == Carries(Idle) /\ Carries(Idle)'
  BY Fields DEF Carries, Creates

\* Ids keep what they were drawn for, no record is taken away, and the ids that
\* are drawn stay drawn.
Grows ==
    /\ drawn' \in Nat /\ drawn' >= drawn /\ drawn' <= MaxEnvs
    /\ \A e \in 1 .. drawn : drawnFor'[e] = drawnFor[e]
    /\ \A e \in Ids : envs[e] # NoRecord => envs'[e] # NoRecord

\* What an operation carries and what was answered stay true.
LEMMA StaysTrue ==
    ASSUME RegistryShape, Grows, NEW q, Carries(q), NEW a, AnswersOwn(a)
    PROVE  Carries(q)' /\ AnswersOwn(a)'
  <1>1. /\ drawn \in Nat /\ \A e \in 1 .. drawn : e \in Ids
        /\ \A e \in 1 .. drawn : e \in 1 .. drawn'
    BY Typed DEF Grows
  <1>2. Carries(q)'
    BY <1>1 DEF Carries, Creates, Grows
  <1>3. AnswersOwn(a)'
    BY <1>1 DEF AnswersOwn, Grows
  <1>. QED BY <1>2, <1>3

\* A step of one caller: what is left to show of the invariant.
LEMMA StepKeeps ==
    ASSUME RegistryInv, NEW c \in Callers, NEW q, NEW a, Grows,
           call' = [call EXCEPT ![c] = q], answer' = [answer EXCEPT ![c] = a],
           q \in Requests', a \in AnswersGiven', Carries(q)', AnswersOwn(a)',
           names' \in [Names -> Claims'], envs' \in [Ids -> {NoRecord} \cup Record],
           drawnFor' \in [Ids -> [key : Keys \cup {NoKey}, name : Names \cup {NoName}]],
           \A n \in Names : KeyOfClaim(names[n])'
    PROVE  RegistryInv'
  <1>1. /\ RegistryShape /\ drawn \in Nat /\ MaxEnvs \in Nat
        /\ call \in [Callers -> Requests] /\ answer \in [Callers -> AnswersGiven]
    BY Typed DEF RegistryInv, RegistryShape
  <1>2. 1 .. drawn \subseteq 1 .. drawn' /\ 0 .. drawn \subseteq 0 .. drawn'
    BY <1>1 DEF Grows
  <1>3. Requests \subseteq Requests' /\ AnswersGiven \subseteq AnswersGiven'
    BY <1>2 DEF Requests, AnswersGiven
  <1>4. /\ \A d \in Callers \ {c} : call'[d] = call[d] /\ answer'[d] = answer[d]
        /\ call'[c] = q /\ answer'[c] = a
    BY <1>1
  <1>5. RegistryShape'
    <2>1. call' \in [Callers -> Requests'] /\ answer' \in [Callers -> AnswersGiven']
      BY <1>1, <1>3, <1>4
    <2>2. drawn' \in 0 .. MaxEnvs
      BY <1>1 DEF Grows
    <2>. QED BY <2>1, <2>2 DEF RegistryShape, Ids
  <1>6. ASSUME NEW d \in Callers PROVE (Carries(call[d]) /\ AnswersOwn(answer[d]))'
    <2>1. CASE d = c
      BY <1>4, <2>1 DEF Carries, Creates, AnswersOwn
    <2>2. CASE d # c
      <3>1. PICK r, b : r = call[d] /\ b = answer[d]
        OBVIOUS
      <3>2. Carries(r) /\ AnswersOwn(b)
        BY <3>1 DEF RegistryInv
      <3>3. Carries(r)' /\ AnswersOwn(b)'
        BY <1>1, <3>2, StaysTrue
      <3>4. call'[d] = r /\ answer'[d] = b
        BY <1>4, <2>2, <3>1
      <3>. QED BY <3>3, <3>4 DEF Carries, Creates, AnswersOwn
    <2>. QED BY <2>1, <2>2
  <1>. QED BY <1>5, <1>6 DEF RegistryInv

\* A step that draws no id.
LEMMA StepKeepsIds ==
    ASSUME RegistryInv, NEW c \in Callers, NEW q, NEW a,
           drawn' = drawn, drawnFor' = drawnFor,
           call' = [call EXCEPT ![c] = q], answer' = [answer EXCEPT ![c] = a],
           q \in Requests, a \in AnswersGiven, Carries(q)', AnswersOwn(a)',
           names' \in [Names -> Claims], \A n \in Names : KeyOfClaim(names[n])',
           envs' \in [Ids -> {NoRecord} \cup Record],
           \A e \in Ids : envs[e] # NoRecord => envs'[e] # NoRecord
    PROVE  RegistryInv'
  <1>1. RegistryShape /\ drawn \in Nat /\ MaxEnvs \in Nat /\ drawn <= MaxEnvs
    BY Typed DEF RegistryInv
  <1>2. Grows
    BY <1>1 DEF Grows
  <1>3. Requests' = Requests /\ AnswersGiven' = AnswersGiven /\ Claims' = Claims
    BY DEF Requests, AnswersGiven, Claims
  <1>4. drawnFor' \in [Ids -> [key : Keys \cup {NoKey}, name : Names \cup {NoName}]]
    BY <1>1 DEF RegistryShape
  <1>. QED BY <1>2, <1>3, <1>4, StepKeeps

\* A step that writes nothing.
LEMMA Reads ==
    ASSUME RegistryInv, NEW c \in Callers, NEW q, NEW a,
           names' = names, envs' = envs, drawn' = drawn, drawnFor' = drawnFor,
           call' = [call EXCEPT ![c] = q], answer' = [answer EXCEPT ![c] = a],
           q \in Requests, a \in AnswersGiven, Carries(q), AnswersOwn(a)
    PROVE  RegistryInv'
  <1>1. RegistryShape /\ drawn \in Nat /\ MaxEnvs \in Nat /\ drawn <= MaxEnvs
    BY Typed DEF RegistryInv
  <1>2. Grows
    BY <1>1 DEF Grows
  <1>3. Carries(q)' /\ AnswersOwn(a)'
    BY <1>1, <1>2, StaysTrue
  <1>4. \A n \in Names : KeyOfClaim(names[n])'
    BY DEF RegistryInv, KeyOfClaim
  <1>. QED BY <1>1, <1>3, <1>4, StepKeepsIds DEF RegistryShape

\* What a caller is in the middle of.
LEMMA InFlight ==
    ASSUME RegistryInv, NEW c \in Callers
    PROVE  /\ call[c] \in Requests /\ Carries(call[c])
           /\ answer[c] \in AnswersGiven /\ AnswersOwn(answer[c])
           /\ answer = [answer EXCEPT ![c] = answer[c]]
           /\ \A to : [call EXCEPT ![c].step = to] = [call EXCEPT ![c] = [call[c] EXCEPT !.step = to]]
  BY DEF RegistryInv, RegistryShape

\* An operation that ends.
LEMMA EndsWell ==
    ASSUME RegistryInv, NEW c \in Callers, NEW o \in Outcomes, NEW e \in 0 .. drawn,
           names' = names, envs' = envs, drawn' = drawn, drawnFor' = drawnFor,
           Return(c, o, e),
           o = "created" =>
               e \in 1 .. drawn /\ envs[e] # NoRecord /\ drawnFor[e].key = call[c].key
    PROVE  RegistryInv'
  <1> DEFINE a == [outcome |-> o, env |-> e, key |-> call[c].key]
  <1>1. Idle \in Requests /\ call[c] \in Requests
    BY Typed, InFlight DEF RegistryInv
  <1>2. a \in AnswersGiven
    BY <1>1 DEF AnswersGiven, Requests
  <1>3. AnswersOwn(a)
    BY DEF AnswersOwn
  <1>4. call' = [call EXCEPT ![c] = Idle] /\ answer' = [answer EXCEPT ![c] = a]
    BY DEF Return
  <1>. QED BY <1>1, <1>2, <1>3, <1>4, IdleCarries, Reads

\* An operation that goes on to r, and answers nothing yet.
LEMMA GoesOn ==
    ASSUME RegistryInv, NEW c \in Callers, NEW r \in Requests, Carries(r),
           names' = names, envs' = envs, drawn' = drawn, drawnFor' = drawnFor,
           call' = [call EXCEPT ![c] = r], answer' = answer
    PROVE  RegistryInv'
  <1>1. PICK a : a = answer[c]
    OBVIOUS
  <1>. QED BY <1>1, InFlight, Reads
-----------------------------------------------------------------------------
\* The steps that write nothing

\* A creation that lost its name looks whether its own key won it.
LEMMA ReplayKeeps == ASSUME RegistryInv, NEW c \in Callers, Replay(c) PROVE RegistryInv'
  <1> DEFINE q == call[c]
             k == names[q.name]
             r == [q EXCEPT !.step = "replayed", !.env = k.env]
  <1>1. q \in Requests /\ Carries(q) /\ RegistryShape /\ 0 \in 0 .. drawn
    BY InFlight, Typed DEF RegistryInv
  <1>2. /\ q.step = "replay" /\ Creates(q) /\ q.key # NoKey
        /\ names' = names /\ envs' = envs /\ drawn' = drawn /\ drawnFor' = drawnFor
    BY <1>1 DEF Replay, Carries
  <1>3. CASE Return(c, "conflict", 0)
    BY <1>1, <1>2, <1>3, EndsWell DEF Outcomes
  <1>4. CASE /\ k # Free /\ k.key = q.key /\ answer' = answer
             /\ call' = [call EXCEPT ![c].step = "replayed", ![c].env = k.env]
    <2>1. q.name \in Names
      BY <1>1, <1>2 DEF Carries
    <2>2. k.env \in 1 .. drawn /\ k.env \in 0 .. drawn /\ drawnFor[k.env].key = q.key
      BY <1>1, <1>2, <1>4, <2>1, Typed DEF RegistryInv, KeyOfClaim
    <2>3. call' = [call EXCEPT ![c] = r]
      BY <1>4 DEF RegistryInv, RegistryShape
    <2>. HIDE DEF k
    <2>4. /\ r \in Requests /\ r.step = "replayed" /\ r.env = k.env /\ r.kind = q.kind
          /\ r.key = q.key
      BY <1>1, <2>2 DEF Requests, Steps
    <2>. HIDE DEF r
    <2>5. Carries(r)
      BY <1>2, <2>2, <2>4 DEF Carries, Creates
    <2>. QED BY <1>2, <1>4, <2>3, <2>4, <2>5, GoesOn
  <1>. QED BY <1>3, <1>4 DEF Replay

\* The environment of a creation that is repeated was made or was not.
LEMMA ReplayedKeeps == ASSUME RegistryInv, NEW c \in Callers, Replayed(c) PROVE RegistryInv'
  <1> DEFINE q == call[c]
             e == q.env
             r == [q EXCEPT !.step = "read", !.env = e]
  <1>1. q \in Requests /\ Carries(q) /\ RegistryShape /\ 0 \in 0 .. drawn /\ drawn \in Nat
    BY InFlight, Typed DEF RegistryInv
  <1>2. /\ q.step = "replayed" /\ Creates(q) /\ e \in 1 .. drawn /\ drawnFor[e].key = q.key
        /\ names' = names /\ envs' = envs /\ drawn' = drawn /\ drawnFor' = drawnFor
    BY <1>1 DEF Replayed, Carries
  <1>3. CASE Return(c, "notfound", 0)
    BY <1>1, <1>2, <1>3, EndsWell DEF Outcomes
  <1>4. CASE envs[e] # NoRecord /\ Return(c, "created", e)
    <2>1. e \in 0 .. drawn
      BY <1>1, <1>2
    <2>. QED BY <1>2, <1>4, <2>1, EndsWell DEF Outcomes
  <1>5. CASE /\ q.kind = "fork" /\ answer' = answer
             /\ call' = [call EXCEPT ![c].step = "read", ![c].env = e]
    <2>1. call' = [call EXCEPT ![c] = r]
      BY <1>5 DEF RegistryInv, RegistryShape
    <2>2. r \in Requests /\ r.step = "read" /\ r.env = e /\ r.kind = "fork" /\ r.key = q.key
      BY <1>1, <1>2, <1>5 DEF Requests, Steps
    <2>. HIDE DEF r
    <2>3. Carries(r)
      BY <1>2, <2>2 DEF Carries, Creates
    <2>. QED BY <1>2, <1>5, <2>1, <2>2, <2>3, GoesOn
  <1>. QED BY <1>3, <1>4, <1>5 DEF Replayed, Created

\* What is read of a record to be changed is there.
LEMMA ReadKeeps == ASSUME RegistryInv, NEW c \in Callers, Read(c) PROVE RegistryInv'
  <1> DEFINE q == call[c]
             rec == envs[q.env]
             to == IF q.kind = "rename" THEN "claim" ELSE "put"
             r == [q EXCEPT !.record = rec, !.step = to]
  <1>1. q \in Requests /\ Carries(q) /\ RegistryShape /\ 0 \in 0 .. drawn /\ drawn \in Nat
    BY InFlight, Typed DEF RegistryInv
  <1>2. /\ q.step = "read" /\ q.env \in 1 .. drawn /\ q.env \in 0 .. drawn /\ q.env \in Ids
        /\ names' = names /\ envs' = envs /\ drawn' = drawn /\ drawnFor' = drawnFor
    BY <1>1, Typed DEF Read, Carries
  <1>3. CASE Return(c, "notfound", 0) \/ Return(c, "renamed", q.env)
    BY <1>1, <1>2, <1>3, EndsWell DEF Outcomes
  <1>4. CASE /\ rec # NoRecord /\ answer' = answer
             /\ call' = [call EXCEPT ![c].record = rec, ![c].step = to]
    <2>1. rec \in Record /\ envs[q.env] # NoRecord
      BY <1>1, <1>2, <1>4, Typed
    <2>2. call' = [call EXCEPT ![c] = r]
      BY <1>4 DEF RegistryInv, RegistryShape
    <2>3. to \in Steps /\ (to = "claim" => q.kind = "rename") /\ to \in {"claim", "put"}
      BY DEF Steps
    <2>. HIDE DEF rec, to
    <2>4. /\ r \in Requests /\ r.step = to /\ r.env = q.env /\ r.kind = q.kind
          /\ r.key = q.key /\ r.name = q.name /\ r.record = rec
      BY <1>1, <2>1, <2>3 DEF Requests
    <2>. HIDE DEF r
    <2>5. to = "claim" => q.name \in Names
      BY <1>1, <1>2, <2>3 DEF Carries
    <2>6. Carries(r)
      BY <1>1, <1>2, <2>1, <2>3, <2>4, <2>5 DEF Carries, Creates
    <2>. QED BY <1>2, <1>4, <2>2, <2>4, <2>6, GoesOn
  <1>. QED BY <1>3, <1>4 DEF Read

\* The sweeper looks at one claim after the other.
LEMMA SweepNextKeeps == ASSUME RegistryInv, NEW c \in Callers, SweepNext(c) PROVE RegistryInv'
  <1> DEFINE q == call[c]
  <1>1. q \in Requests /\ Carries(q) /\ RegistryShape /\ 0 \in 0 .. drawn /\ drawn \in Nat
    BY InFlight, Typed DEF RegistryInv
  <1>2. /\ q.step = "next"
        /\ names' = names /\ envs' = envs /\ drawn' = drawn /\ drawnFor' = drawnFor
    BY DEF SweepNext
  <1>3. CASE Return(c, "swept", 0)
    BY <1>1, <1>2, <1>3, EndsWell DEF Outcomes
  <1>4. ASSUME NEW x \in q.todo, answer' = answer,
               call' = [call EXCEPT ![c].step = "judge", ![c].name = x.name, ![c].env = x.env,
                                    ![c].todo = @ \ {x}]
        PROVE  RegistryInv'
    <2> DEFINE r == [q EXCEPT !.step = "judge", !.name = x.name, !.env = x.env, !.todo = @ \ {x}]
    <2>1. call' = [call EXCEPT ![c] = r]
      BY <1>4 DEF RegistryInv, RegistryShape
    <2>2. x.name \in Names /\ x.env \in 1 .. drawn /\ x.env \in 0 .. drawn
      BY <1>1, <1>4 DEF Requests
    <2>3. /\ r \in Requests /\ r.step = "judge" /\ r.env = x.env /\ r.name = x.name
          /\ r.kind = q.kind /\ r.key = q.key
      BY <1>1, <2>2 DEF Requests, Steps
    <2>. HIDE DEF r
    <2>4. q.kind = "sweep" /\ q.key = NoKey
      BY <1>1, <1>2 DEF Carries, Creates
    <2>5. Carries(r)
      BY <2>2, <2>3, <2>4 DEF Carries, Creates
    <2>. QED BY <1>2, <1>4, <2>1, <2>3, <2>5, GoesOn
  <1>. QED BY <1>3, <1>4 DEF SweepNext

\* The sweeper judges a claim.
LEMMA SweepJudgeKeeps == ASSUME RegistryInv, NEW c \in Callers, SweepJudge(c) PROVE RegistryInv'
  <1> DEFINE q == call[c]
             to == IF Orphaned(q.name, q.env) THEN "delete" ELSE "next"
             r == [q EXCEPT !.step = to]
  <1>1. q \in Requests /\ Carries(q)
    BY InFlight
  <1>2. /\ q.step = "judge" /\ to \in {"delete", "next"}
        /\ call' = [call EXCEPT ![c] = r] /\ answer' = answer
        /\ names' = names /\ envs' = envs /\ drawn' = drawn /\ drawnFor' = drawnFor
    BY InFlight DEF SweepJudge, Goto
  <1>. HIDE DEF to
  <1>3. /\ r \in Requests /\ r.step = to /\ r.env = q.env /\ r.name = q.name /\ r.kind = q.kind
        /\ r.key = q.key
    BY <1>1, <1>2 DEF Requests, Steps
  <1>. HIDE DEF r
  <1>4. Carries(r)
    BY <1>1, <1>2, <1>3 DEF Carries, Creates
  <1>. QED BY <1>2, <1>3, <1>4, GoesOn
-----------------------------------------------------------------------------
\* The steps that write

\* A claim is put under the key its environment was drawn under, or none.
LEMMA ClaimKeeps == ASSUME RegistryInv, NEW c \in Callers, Claim(c) PROVE RegistryInv'
  <1> DEFINE q == call[c]
  <1>1. /\ q \in Requests /\ Carries(q) /\ RegistryShape /\ drawn \in Nat /\ 0 \in 0 .. drawn
        /\ \A to : [call EXCEPT ![c].step = to] = [call EXCEPT ![c] = [q EXCEPT !.step = to]]
    BY InFlight, Typed DEF RegistryInv
  <1>2. /\ q.step = "claim" /\ q.name \in Names /\ q.env \in 1 .. drawn
        /\ envs' = envs /\ drawn' = drawn /\ drawnFor' = drawnFor
    BY <1>1 DEF Claim, Carries
  <1>3. CASE /\ names[q.name] = Free /\ answer' = answer /\ Goto(c, "write")
             /\ names' = [names EXCEPT ![q.name] = [env |-> q.env, key |-> q.key]]
    <2>. PICK r, a : r = [q EXCEPT !.step = "write"] /\ a = answer[c]
      OBVIOUS
    <2>1. call' = [call EXCEPT ![c] = r] /\ answer' = [answer EXCEPT ![c] = a]
      BY <1>1, <1>3, InFlight DEF Goto
    <2>2. /\ r \in Requests /\ r.step = "write" /\ r.env = q.env /\ r.name = q.name
          /\ r.kind = q.kind /\ r.key = q.key /\ r.record = q.record
      BY <1>1 DEF Requests, Steps
    <2>3. Carries(r)
      BY <1>1, <1>2, <2>2 DEF Carries, Creates
    <2>4. Carries(r)' /\ AnswersOwn(a)'
      BY <1>2, <2>3, InFlight DEF Carries, Creates, AnswersOwn
    <2>5. [env |-> q.env, key |-> q.key] \in Claims
      BY <1>1, <1>2 DEF Claims, Requests
    <2>6. names' \in [Names -> Claims]
      BY <1>1, <1>3, <2>5 DEF RegistryShape
    <2>7. q.key # NoKey => drawnFor[q.env].key = q.key
      BY <1>1, <1>2 DEF Carries
    <2>8. ASSUME NEW n \in Names PROVE KeyOfClaim(names[n])'
      <3>1. CASE n = q.name
        BY <1>1, <1>2, <1>3, <2>7, <3>1 DEF KeyOfClaim, RegistryShape
      <3>2. CASE n # q.name
        BY <1>1, <1>2, <1>3, <3>2 DEF KeyOfClaim, RegistryShape, RegistryInv
      <3>. QED BY <3>1, <3>2
    <2>9. a \in AnswersGiven
      BY InFlight
    <2>. QED BY <1>1, <1>2, <2>1, <2>2, <2>4, <2>6, <2>8, <2>9, StepKeepsIds DEF RegistryShape
  <1>4. CASE names' = names /\ Return(c, "conflict", 0)
    BY <1>1, <1>2, <1>4, EndsWell DEF Outcomes
  <1>5. CASE names' = names /\ q.key # NoKey /\ Goto(c, "replay") /\ answer' = answer
    <2>. PICK r : r = [q EXCEPT !.step = "replay"]
      OBVIOUS
    <2>1. call' = [call EXCEPT ![c] = r]
      BY <1>1, <1>5 DEF Goto
    <2>2. /\ r \in Requests /\ r.step = "replay" /\ r.env = q.env /\ r.name = q.name
          /\ r.kind = q.kind /\ r.key = q.key
      BY <1>1 DEF Requests, Steps
    <2>3. Carries(r)
      BY <1>1, <1>2, <1>5, <2>2 DEF Carries, Creates
    <2>. QED BY <1>2, <1>5, <2>1, <2>2, <2>3, GoesOn
  <1>. QED BY <1>3, <1>4, <1>5 DEF Claim

\* A rename frees the name the record had.
LEMMA FreeOldKeeps == ASSUME RegistryInv, NEW c \in Callers, FreeOld(c) PROVE RegistryInv'
  <1> DEFINE q == call[c]
             n == q.record.name
  <1>. PICK a : a = [outcome |-> "renamed", env |-> q.env, key |-> q.key]
    OBVIOUS
  <1>1. /\ q \in Requests /\ Carries(q) /\ RegistryShape /\ drawn \in Nat /\ Idle \in Requests
    BY InFlight, Typed DEF RegistryInv
  <1>2. /\ q.step = "free" /\ q.env \in 1 .. drawn /\ q.env \in 0 .. drawn
        /\ envs' = envs /\ drawn' = drawn /\ drawnFor' = drawnFor
        /\ names' = [names EXCEPT ![n] = Free]
        /\ call' = [call EXCEPT ![c] = Idle] /\ answer' = [answer EXCEPT ![c] = a]
    BY <1>1 DEF FreeOld, Carries, Return
  <1>. HIDE DEF n
  <1>3. names' \in [Names -> Claims] /\ \A m \in Names : names'[m] \in {Free, names[m]}
    BY <1>1, <1>2 DEF RegistryShape, Claims
  <1>4. ASSUME NEW m \in Names PROVE KeyOfClaim(names[m])'
    BY <1>2, <1>3, Fields DEF KeyOfClaim, RegistryInv
  <1>5. a \in AnswersGiven
    BY <1>1, <1>2 DEF AnswersGiven, Requests, Outcomes
  <1>6. Carries(Idle)' /\ AnswersOwn(a)'
    BY <1>1, IdleCarries DEF AnswersOwn
  <1>. QED BY <1>1, <1>2, <1>3, <1>4, <1>5, <1>6, StepKeepsIds DEF RegistryShape

\* A creation's record is there from now on; a rename writes back one that is.
LEMMA WriteKeeps == ASSUME RegistryInv, NEW c \in Callers, Write(c) PROVE RegistryInv'
  <1> DEFINE q == call[c]
             e == q.env
  <1>. PICK a : a = [outcome |-> "created", env |-> e, key |-> q.key]
    OBVIOUS
  <1>1. /\ q \in Requests /\ Carries(q) /\ RegistryShape /\ drawn \in Nat /\ Idle \in Requests
        /\ \A to : [call EXCEPT ![c].step = to] = [call EXCEPT ![c] = [q EXCEPT !.step = to]]
    BY InFlight, Typed DEF RegistryInv
  <1>2. /\ q.step = "write" /\ q.name \in Names /\ e \in 1 .. drawn /\ e \in Ids
        /\ e \in 0 .. drawn
        /\ names' = names /\ drawn' = drawn /\ drawnFor' = drawnFor
    BY <1>1, Typed DEF Write, Carries
  <1>3. \E w \in Record : envs' = [envs EXCEPT ![e] = w]
    <2>1. CASE Creates(q)
      <3>1. [name |-> q.name, value |-> New] \in Record
        BY <1>2 DEF Record
      <3>. QED BY <2>1, <3>1 DEF Write, Creates
    <2>2. CASE q.kind = "rename"
      <3>1. q.record \in Record
        BY <1>1, <1>2, <2>2 DEF Carries
      <3>2. [q.record EXCEPT !.name = q.name] \in Record
        BY <1>2, <3>1 DEF Record
      <3>. QED BY <2>2, <3>2 DEF Write
    <2>. QED BY <2>1, <2>2 DEF Write, Creates
  <1>4. /\ envs' \in [Ids -> {NoRecord} \cup Record]
        /\ envs'[e] # NoRecord /\ \A f \in Ids : envs[f] # NoRecord => envs'[f] # NoRecord
    BY <1>1, <1>2, <1>3, Fields DEF RegistryShape
  <1>5. \A n \in Names : KeyOfClaim(names[n])'
    BY <1>2 DEF KeyOfClaim, RegistryInv
  <1>. HIDE DEF e
  <1>6. CASE Creates(q) /\ Return(c, "created", e)
    <2>1. call' = [call EXCEPT ![c] = Idle] /\ answer' = [answer EXCEPT ![c] = a]
      BY <1>6 DEF Return
    <2>2. a \in AnswersGiven
      BY <1>1, <1>2 DEF AnswersGiven, Requests, Outcomes
    <2>3. drawnFor[e].key = q.key
      BY <1>1, <1>2, <1>6 DEF Carries, e
    <2>4. Carries(Idle)' /\ AnswersOwn(a)'
      BY <1>2, <1>4, <2>3, IdleCarries DEF AnswersOwn
    <2>. QED BY <1>1, <1>2, <1>4, <1>5, <2>1, <2>2, <2>4, StepKeepsIds DEF RegistryShape
  <1>7. ASSUME NEW to \in {"read", "free"}, answer' = answer,
               call' = [call EXCEPT ![c] = [q EXCEPT !.step = to]],
               to = "read" => q.kind = "fork", to = "free" => q.kind = "rename"
        PROVE  RegistryInv'
    <2>. PICK r, b : r = [q EXCEPT !.step = to] /\ b = answer[c]
      OBVIOUS
    <2>1. call' = [call EXCEPT ![c] = r] /\ answer' = [answer EXCEPT ![c] = b]
      BY <1>7, InFlight
    <2>2. /\ r \in Requests /\ r.step = to /\ r.env = e /\ r.name = q.name
          /\ r.kind = q.kind /\ r.key = q.key /\ r.record = q.record
      BY <1>1 DEF Requests, Steps, e
    <2>3. Carries(r)
      <3>1. CASE to = "read"
        BY <1>1, <1>2, <1>7, <2>2, <3>1 DEF Carries, Creates, e
      <3>2. CASE to = "free"
        BY <1>1, <1>2, <1>7, <2>2, <3>2 DEF Carries, Creates, e
      <3>. QED BY <3>1, <3>2
    <2>4. \A f \in 1 .. drawn : f \in Ids
      BY <1>1, Typed
    <2>5. Carries(r)' /\ AnswersOwn(b)'
      BY <1>2, <1>4, <2>3, <2>4, InFlight DEF Carries, Creates, AnswersOwn
    <2>6. b \in AnswersGiven
      BY InFlight
    <2>. QED BY <1>1, <1>2, <1>4, <1>5, <2>1, <2>2, <2>5, <2>6, StepKeepsIds DEF RegistryShape
  <1>8. \/ Creates(q) /\ Return(c, "created", e)
        \/ answer' = answer /\ q.kind = "fork" /\ call' = [call EXCEPT ![c] = [q EXCEPT !.step = "read"]]
        \/ answer' = answer /\ q.kind = "rename" /\ call' = [call EXCEPT ![c] = [q EXCEPT !.step = "free"]]
    <2>1. [call EXCEPT ![c].step = "read", ![c].env = e] = [call EXCEPT ![c].step = "read"]
      BY <1>1 DEF RegistryShape, Requests, e
    <2>. QED BY <1>1, <2>1 DEF Write, Created, Goto, Creates, e
  <1>. QED BY <1>6, <1>7, <1>8

\* A record that is put back was there and still is.
LEMMA PutBackKeeps == ASSUME RegistryInv, NEW c \in Callers, PutBack(c) PROVE RegistryInv'
  <1> DEFINE q == call[c]
             e == q.env
  <1>. PICK o, a : /\ o = IF q.kind = "fork" THEN "created" ELSE "replaced"
                   /\ a = [outcome |-> o, env |-> e, key |-> q.key]
    OBVIOUS
  <1>1. /\ q \in Requests /\ Carries(q) /\ RegistryShape /\ drawn \in Nat /\ Idle \in Requests
    BY InFlight, Typed DEF RegistryInv
  <1>2. /\ q.step = "put" /\ e \in 1 .. drawn /\ e \in Ids /\ e \in 0 .. drawn
        /\ q.record \in Record /\ envs[e] # NoRecord
        /\ names' = names /\ drawn' = drawn /\ drawnFor' = drawnFor
        /\ call' = [call EXCEPT ![c] = Idle] /\ answer' = [answer EXCEPT ![c] = a]
    BY <1>1, Typed DEF PutBack, Carries, Return
  <1>3. PICK v \in IF q.kind = "fork" THEN Values ELSE {q.value} :
            envs' = [envs EXCEPT ![e] = [q.record EXCEPT !.value = v]]
    BY DEF PutBack
  <1>4. [q.record EXCEPT !.value = v] \in Record
    BY <1>1, <1>2, <1>3 DEF Record, Requests
  <1>5. /\ envs' \in [Ids -> {NoRecord} \cup Record]
        /\ envs'[e] # NoRecord /\ \A f \in Ids : envs[f] # NoRecord => envs'[f] # NoRecord
    BY <1>1, <1>2, <1>3, <1>4, Fields DEF RegistryShape
  <1>6. \A n \in Names : KeyOfClaim(names[n])'
    BY <1>2 DEF KeyOfClaim, RegistryInv
  <1>7. o \in Outcomes /\ (o = "created" => Creates(q))
    BY DEF Outcomes, Creates
  <1>. HIDE DEF e
  <1>8. a \in AnswersGiven
    BY <1>1, <1>2, <1>7 DEF AnswersGiven, Requests
  <1>9. Creates(q) => drawnFor[e].key = q.key
    BY <1>1, <1>2 DEF Carries, e
  <1>10. Carries(Idle)' /\ AnswersOwn(a)'
    BY <1>2, <1>5, <1>7, <1>9, IdleCarries DEF AnswersOwn
  <1>. QED BY <1>1, <1>2, <1>5, <1>6, <1>8, <1>10, StepKeepsIds DEF RegistryShape

\* The sweeper frees a name.
LEMMA SweepDeleteKeeps == ASSUME RegistryInv, NEW c \in Callers, SweepDelete(c) PROVE RegistryInv'
  <1> DEFINE q == call[c]
             n == q.name
  <1>1. /\ q \in Requests /\ Carries(q) /\ RegistryShape /\ drawn \in Nat
    BY InFlight, Typed DEF RegistryInv
  <1>2. PICK r, a : r = [q EXCEPT !.step = "next", !.reclaimed = @ + 1] /\ a = answer[c]
    OBVIOUS
  <1>3. /\ q.step = "delete" /\ names' = [names EXCEPT ![n] = Free]
        /\ envs' = envs /\ drawn' = drawn /\ drawnFor' = drawnFor
        /\ call' = [call EXCEPT ![c] = r] /\ answer' = [answer EXCEPT ![c] = a]
    BY <1>1, <1>2, InFlight DEF SweepDelete, RegistryShape
  <1>4. r \in Requests /\ r.step = "next" /\ r.kind = q.kind /\ r.key = q.key
    <2>1. q.reclaimed + 1 \in Nat /\ "next" \in Steps
      BY <1>1 DEF Requests, Steps
    <2>2. r = [q EXCEPT !.step = "next", !.reclaimed = q.reclaimed + 1]
      BY <1>1, <1>2 DEF Requests
    <2>. QED BY <1>1, <2>1, <2>2 DEF Requests
  <1>. HIDE DEF n
  <1>5. names' \in [Names -> Claims] /\ \A m \in Names : names'[m] \in {Free, names[m]}
    BY <1>1, <1>3 DEF RegistryShape, Claims
  <1>6. ASSUME NEW m \in Names PROVE KeyOfClaim(names[m])'
    BY <1>3, <1>5, Fields DEF KeyOfClaim, RegistryInv
  <1>7. ~Creates(q) /\ q.kind = "sweep" /\ q.key = NoKey
    BY <1>1, <1>3 DEF Carries, Creates
  <1>8. Carries(r)' /\ AnswersOwn(a)' /\ a \in AnswersGiven
    BY <1>2, <1>3, <1>4, <1>7, InFlight DEF Carries, Creates, AnswersOwn
  <1>. QED BY <1>1, <1>3, <1>4, <1>5, <1>6, <1>8, StepKeepsIds DEF RegistryShape
-----------------------------------------------------------------------------
\* The steps that begin

\* An operation begins: nothing is written, and an id may be drawn for it.
LEMMA Begins ==
    ASSUME RegistryInv, NEW c \in Callers, NEW q, Ask(c, q), q \in Requests', Carries(q)',
           Grows, drawnFor' \in [Ids -> [key : Keys \cup {NoKey}, name : Names \cup {NoName}]]
    PROVE  RegistryInv'
  <1>1. /\ RegistryShape /\ drawn \in Nat
        /\ call' = [call EXCEPT ![c] = q] /\ names' = names /\ envs' = envs /\ answer' = answer
    BY Typed DEF Ask, RegistryInv
  <1>2. PICK a : a = answer[c]
    OBVIOUS
  <1>3. a \in AnswersGiven /\ AnswersOwn(a) /\ answer' = [answer EXCEPT ![c] = a]
    BY <1>1, <1>2, InFlight
  <1>4. 1 .. drawn \subseteq 1 .. drawn' /\ 0 .. drawn \subseteq 0 .. drawn'
    BY <1>1 DEF Grows
  <1>5. a \in AnswersGiven' /\ Claims \subseteq Claims'
    BY <1>3, <1>4 DEF AnswersGiven, Claims
  <1>6. AnswersOwn(a)'
    BY <1>1, <1>3, <1>4 DEF AnswersOwn, Grows
  <1>7. ASSUME NEW n \in Names PROVE KeyOfClaim(names[n])'
    <2>1. KeyOfClaim(names[n]) /\ (names[n].key # NoKey => names[n].env \in 1 .. drawn)
      BY <1>1, Typed, Fields DEF RegistryInv
    <2>. QED BY <1>1, <2>1 DEF KeyOfClaim, Grows
  <1>8. names' \in [Names -> Claims']
    BY <1>1, <1>5 DEF RegistryShape
  <1>9. /\ envs' \in [Ids -> {NoRecord} \cup Record]
    BY <1>1 DEF RegistryShape
  <1>. QED BY <1>1, <1>3, <1>5, <1>6, <1>7, <1>8, <1>9, StepKeeps

\* What an operation is given as it begins has its types.
LEMMA BeginsTyped ==
    ASSUME NEW q,
           q = [kind |-> q.kind, step |-> q.step, name |-> q.name, key |-> q.key, env |-> q.env,
                value |-> q.value, record |-> q.record, todo |-> q.todo, limit |-> q.limit,
                reclaimed |-> q.reclaimed],
           q.kind \in Kinds, q.step \in Steps, q.name \in Names \cup {NoName},
           q.key \in Keys \cup {NoKey}, q.env \in 0 .. drawn', q.value \in Values \cup {New},
           q.record = NoRecord, q.todo \subseteq [name : Names, env : 1 .. drawn'],
           q.limit \in Nat, q.reclaimed = 0
    PROVE  q \in Requests'
  BY DEF Requests

\* A creation draws the id it carries.
LEMMA AskCreateKeeps ==
    ASSUME RegistryInv, NEW c \in Callers, NEW kind \in {"create", "fork"}, NEW n \in Names,
           NEW k \in Keys \cup {NoKey}, AskCreate(c, kind, n, k)
    PROVE  RegistryInv'
  <1>1. RegistryShape /\ drawn \in Nat /\ MaxEnvs \in Nat
    BY Typed DEF RegistryInv
  <1>2. PICK q : q = [Idle EXCEPT !.kind = kind, !.step = "claim", !.name = n, !.key = k,
                                  !.env = drawn + 1]
    OBVIOUS
  <1>3. /\ Ask(c, q) /\ drawn' = drawn + 1 /\ drawn < MaxEnvs /\ envs' = envs
        /\ drawnFor' = [drawnFor EXCEPT ![drawn + 1] = [key |-> k, name |-> n]]
    BY <1>2 DEF AskCreate, Ask
  <1>4. /\ q.kind = kind /\ q.step = "claim" /\ q.name = n /\ q.key = k
        /\ q.env = drawn' /\ q.value = New /\ q.todo = {} /\ q.limit = 0 /\ q.reclaimed = 0
        /\ q.record = NoRecord
        /\ q = [kind |-> q.kind, step |-> q.step, name |-> q.name, key |-> q.key,
                env |-> q.env, value |-> q.value, record |-> q.record, todo |-> q.todo,
                limit |-> q.limit, reclaimed |-> q.reclaimed]
    BY <1>2, <1>3 DEF Idle
  <1>5. kind \in Kinds /\ drawn' \in 0 .. drawn' /\ drawn' \in 1 .. drawn' /\ "claim" \in Steps
    BY <1>1, <1>3, <1>4 DEF Ask, Steps
  <1>6. q \in Requests'
    BY <1>4, <1>5, BeginsTyped
  <1>7. drawn + 1 \in Ids
    BY <1>1, <1>3 DEF Ids
  <1>8. /\ drawnFor' \in [Ids -> [key : Keys \cup {NoKey}, name : Names \cup {NoName}]]
        /\ drawnFor'[drawn + 1].key = k
        /\ \A e \in 1 .. drawn : drawnFor'[e] = drawnFor[e]
    BY <1>1, <1>3, <1>7, Typed DEF RegistryShape
  <1>9. Grows
    BY <1>1, <1>3, <1>8 DEF Grows
  <1>10. Carries(q)'
    BY <1>3, <1>4, <1>5, <1>8 DEF Carries, Creates
  <1>. QED BY <1>3, <1>6, <1>8, <1>9, <1>10, Begins

\* An operation that draws no id begins with a read or a scan.
LEMMA AskKeeps ==
    ASSUME RegistryInv, NEW c \in Callers, NEW q, Ask(c, q), drawn' = drawn,
           drawnFor' = drawnFor, q \in Requests', q.key = NoKey,
           \/ q.step = "read" /\ q.kind \in {"rename", "replace"} /\ q.env \in 1 .. drawn
              /\ (q.kind = "rename" => q.name \in Names)
           \/ q.step = "next" /\ q.kind = "sweep"
    PROVE  RegistryInv'
  <1>1. RegistryShape /\ drawn \in Nat /\ drawn <= MaxEnvs
    BY Typed DEF RegistryInv
  <1>2. Grows
    BY <1>1 DEF Grows, Ask
  <1>3. Carries(q)'
    BY DEF Carries, Creates
  <1>4. drawnFor' \in [Ids -> [key : Keys \cup {NoKey}, name : Names \cup {NoName}]]
    BY <1>1 DEF RegistryShape
  <1>. QED BY <1>2, <1>3, <1>4, Begins

\* Whatever is asked for.
LEMMA AsksKeep == ASSUME RegistryInv, NEW c \in Callers, AskAny(c) PROVE RegistryInv'
  <1>1. RegistryShape /\ drawn \in Nat
    BY Typed DEF RegistryInv
  <1>2. ASSUME NEW e \in 1 .. drawn, NEW n \in Names, AskRename(c, e, n) PROVE RegistryInv'
    <2>1. PICK q : q = [Idle EXCEPT !.kind = "rename", !.step = "read", !.name = n, !.env = e]
      OBVIOUS
    <2>2. Ask(c, q) /\ drawn' = drawn /\ drawnFor' = drawnFor
      BY <1>2, <2>1 DEF AskRename
    <2>3. /\ q.kind = "rename" /\ q.step = "read" /\ q.name = n /\ q.key = NoKey
          /\ q.env = e /\ q.value = New /\ q.todo = {} /\ q.limit = 0 /\ q.reclaimed = 0
          /\ q.record = NoRecord
          /\ q = [kind |-> q.kind, step |-> q.step, name |-> q.name, key |-> q.key,
                  env |-> q.env, value |-> q.value, record |-> q.record, todo |-> q.todo,
                  limit |-> q.limit, reclaimed |-> q.reclaimed]
      BY <2>1 DEF Idle
    <2>4. "rename" \in Kinds /\ e \in 0 .. drawn' /\ "read" \in Steps
      BY <1>1, <2>2, <2>3 DEF Ask, Steps
    <2>5. q \in Requests'
      BY <2>3, <2>4, BeginsTyped
    <2>. QED BY <2>2, <2>3, <2>5, AskKeeps
  <1>3. ASSUME NEW e \in 1 .. drawn, NEW v \in Values, AskReplace(c, e, v) PROVE RegistryInv'
    <2>1. PICK q : q = [Idle EXCEPT !.kind = "replace", !.step = "read", !.env = e, !.value = v]
      OBVIOUS
    <2>2. Ask(c, q) /\ drawn' = drawn /\ drawnFor' = drawnFor
      BY <1>3, <2>1 DEF AskReplace
    <2>3. /\ q.kind = "replace" /\ q.step = "read" /\ q.name = NoName /\ q.key = NoKey
          /\ q.env = e /\ q.value = v /\ q.todo = {} /\ q.limit = 0 /\ q.reclaimed = 0
          /\ q.record = NoRecord
          /\ q = [kind |-> q.kind, step |-> q.step, name |-> q.name, key |-> q.key,
                  env |-> q.env, value |-> q.value, record |-> q.record, todo |-> q.todo,
                  limit |-> q.limit, reclaimed |-> q.reclaimed]
      BY <2>1 DEF Idle
    <2>4. "replace" \in Kinds /\ e \in 0 .. drawn' /\ "read" \in Steps
      BY <1>1, <2>2, <2>3 DEF Ask, Steps
    <2>5. q \in Requests'
      BY <2>3, <2>4, BeginsTyped
    <2>. QED BY <2>2, <2>3, <2>5, AskKeeps
  <1>4. ASSUME NEW limit \in SweepLimits, AskSweep(c, limit) PROVE RegistryInv'
    <2>1. PICK page : page = {[name |-> n, env |-> names[n].env] :
                                 n \in {m \in Claimed : Cardinality(Before(m)) < limit}}
      OBVIOUS
    <2>2. page \subseteq [name : Names, env : 1 .. drawn]
      BY <1>1, <2>1, Typed DEF Claimed
    <2>3. PICK q : q = [Idle EXCEPT !.kind = "sweep", !.step = "next", !.limit = limit,
                                    !.todo = page]
      OBVIOUS
    <2>4. Ask(c, q) /\ drawn' = drawn /\ drawnFor' = drawnFor
      BY <1>4, <2>1, <2>3 DEF AskSweep
    <2>5. /\ q.kind = "sweep" /\ q.step = "next" /\ q.name = NoName /\ q.key = NoKey
          /\ q.env = 0 /\ q.value = New /\ q.todo = page /\ q.limit = limit /\ q.reclaimed = 0
          /\ q.record = NoRecord
          /\ q = [kind |-> q.kind, step |-> q.step, name |-> q.name, key |-> q.key,
                  env |-> q.env, value |-> q.value, record |-> q.record, todo |-> q.todo,
                  limit |-> q.limit, reclaimed |-> q.reclaimed]
      BY <2>3 DEF Idle
    <2>6. "sweep" \in Kinds /\ 0 \in 0 .. drawn' /\ "next" \in Steps /\ limit \in Nat
      BY <1>1, <2>4, <2>5, NameRegistryAssumption DEF Ask, Steps
    <2>7. q \in Requests'
      BY <2>2, <2>4, <2>5, <2>6, BeginsTyped
    <2>. QED BY <2>4, <2>5, <2>7, AskKeeps
  <1>. QED BY <1>2, <1>3, <1>4, AskCreateKeeps DEF AskAny
-----------------------------------------------------------------------------
\* The theorem

\* Nothing is claimed, recorded or asked for.
LEMMA InitHolds == Init => RegistryInv
  <1>. SUFFICES ASSUME Init PROVE RegistryInv
    OBVIOUS
  <1>1. RegistryShape
    BY NameRegistryAssumption
       DEF Init, RegistryShape, Claims, Idle, Requests, Steps, AnswersGiven, Outcomes, Ids
  <1>2. \A n \in Names : KeyOfClaim(names[n])
    BY Fields DEF Init, KeyOfClaim
  <1>3. \A c \in Callers : Carries(call[c]) /\ AnswersOwn(answer[c])
    BY IdleCarries DEF Init, AnswersOwn
  <1>. QED BY <1>1, <1>2, <1>3 DEF RegistryInv

\* Every step keeps the invariant.
LEMMA NextKeeps == ASSUME RegistryInv, [Next]_vars PROVE RegistryInv'
  <1>1. ASSUME NEW c \in Callers, AskAny(c) PROVE RegistryInv'
    BY <1>1, AsksKeep
  <1>2. ASSUME NEW c \in Callers, Step(c) PROVE RegistryInv'
    BY <1>2, ClaimKeeps, ReplayKeeps, ReplayedKeeps, WriteKeeps, FreeOldKeeps, ReadKeeps,
       PutBackKeeps, SweepNextKeeps, SweepJudgeKeeps, SweepDeleteKeeps DEF Step
  <1>3. ASSUME NEW c \in Callers, Crash(c) PROVE RegistryInv'
    <2>1. 0 \in 0 .. drawn
      BY Typed DEF RegistryInv
    <2>2. names' = names /\ envs' = envs /\ drawn' = drawn /\ drawnFor' = drawnFor
      BY <1>3 DEF Crash
    <2>. QED BY <1>3, <2>1, <2>2, EndsWell DEF Crash, Outcomes
  <1>4. CASE UNCHANGED vars
    BY <1>4 DEF vars, RegistryInv, RegistryShape, Requests, AnswersGiven, Claims, Carries,
       Creates, AnswersOwn, KeyOfClaim
  <1>. QED BY <1>1, <1>2, <1>3, <1>4 DEF Next

\* A creation that is answered with an environment, at once, on a repetition
\* under its key or after its provenance was added, is answered with one that
\* is there and was drawn under that key (create_env, _replay_create_env,
\* fork): for any number of callers, names, keys and environments, whatever
\* renames, put-backs and sweeps overlap it and whatever crashes.
THEOREM CreationsAnswerTruly == Spec => [](TypeOK /\ CreatedIsThere)
  <1>1. Init => RegistryInv
    BY InitHolds
  <1>2. RegistryInv /\ [Next]_vars => RegistryInv'
    BY NextKeeps
  <1>3. RegistryInv => CreatedIsThere
    BY DEF RegistryInv, AnswersOwn, CreatedIsThere
  <1>4. RegistryInv => TypeOK
    <2>. SUFFICES ASSUME RegistryInv PROVE TypeOK
      OBVIOUS
    <2>1. /\ Claims \subseteq {Free} \cup [env : Ids, key : Keys \cup {NoKey}]
          /\ RegistryShape
      BY Typed DEF RegistryInv, Claims
    <2>2. names \in [Names -> {Free} \cup [env : Ids, key : Keys \cup {NoKey}]]
      BY <2>1 DEF RegistryShape
    <2>. QED BY <2>1, <2>2 DEF TypeOK, RegistryShape, Requests, AnswersGiven, Steps, Record
  <1>. QED BY <1>1, <1>2, <1>3, <1>4, PTL DEF Spec
=============================================================================
