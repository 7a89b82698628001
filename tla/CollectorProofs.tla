--------------------------- MODULE CollectorProofs ---------------------------
(***************************************************************************)
(* What a collection spares, whatever arises: no assumption on Allowed is  *)
(* made, so that writers and collectors die anywhere, old content is taken *)
(* up while a sweep runs, refs move while a keep-set is rebuilt, and       *)
(* maintenance is skipped.  That nothing in use is deleted does not hold   *)
(* then (README); this does:                                               *)
(*                                                                         *)
(*   - a publication that has recorded what it reaches is leased, all of   *)
(*     it, until it has gone on to the keep-set;                           *)
(*   - a cycle deletes nothing that was leased, or within its grace        *)
(*     period, when it read the leases, nor what was kept when it planned. *)
(***************************************************************************)
EXTENDS Collector, SequenceTheorems, TLAPS

\* History: what the cycle under way has to leave alone.
VARIABLE spared

sparedVars == <<vars, spared>>

Protected == Leased \cup {o \in Objects : catalog[o] # "old"}

SparedInit == Init /\ spared = {}

SparedNext ==
    /\ Next
    /\ spared' = IF gc.step = "leases" /\ gc'.step = "plan" THEN Protected
                 ELSE IF gc.step = "plan" /\ gc'.step = "bury" THEN spared \cup keep
                 ELSE spared

SparedSpec == SparedInit /\ [][SparedNext]_sparedVars

\* A publication whose lease is recorded and whose objects are not yet kept.
Publishing(w) == call[w].kind = "publish" /\ call[w].step \in {"move", "graduate"}

PublishedIsLeased ==
    \A w \in Writers : Publishing(w) =>
        session[w].live /\ Closure(call[w].commit) \subseteq session[w].names

-----------------------------------------------------------------------------
\* The invariant

Kinds == {"none", "publish", "upload", "import", "discard"}

Steps == {"idle", "begin", "offer", "put", "record", "page", "lease", "look", "move",
          "graduate", "end", "drop", "refs", "ops", "replace"}

Anything == Blobs \cup Trees \cup Nat

Calls == [kind : Kinds, step : Steps, ref : Refs, cur : Nat, tree : Trees \cup {NoTree},
          todo : SUBSET Anything, item : SUBSET Anything, commit : Nat, roots : SUBSET Nat]

Sessions == [live : BOOLEAN, names : SUBSET Anything]

Made == [tree : Trees, past : SUBSET Nat]

\* A call, as far as its lease is concerned.
CallFits(w) ==
    LET q == call[w]
    IN  /\ q.kind \in {"publish", "upload", "import"} => q.tree \in Trees
        /\ q.step \in {"begin", "offer", "put", "record", "page", "lease", "look", "move",
                       "graduate", "end"} => q.kind \in {"publish", "upload", "import"}
        /\ q.cur \in 0 .. Len(commits) /\ q.commit \in 0 .. Len(commits)
        /\ q.step \in {"lease", "look", "move", "graduate"} => q.commit # 0
        /\ q.step = "begin" => q.kind # "import"
        /\ q.step = "lease" => q.kind = "publish"
        /\ q.step = "page" => q.kind = "upload"
        /\ q.step = "look" => q.kind = "import"
        /\ q.kind = "publish" /\ q.step # "begin" => session[w].live
        /\ Publishing(w) => Closure(q.commit) \subseteq session[w].names

LeaseInv ==
    /\ commits \in Seq(Made)
    /\ refs \in [Refs -> 0 .. Len(commits)] /\ retained \subseteq DOMAIN commits
    /\ session \in [Writers -> Sessions]
    /\ call \in [Writers -> Calls]
    /\ \A w \in Writers : CallFits(w)

\* A commit stays what it is.
Grown == Len(commits) <= Len(commits') /\ \A k \in DOMAIN commits : commits'[k] = commits[k]

Cycles == [step : {"idle", "refs", "ops", "replace", "leases", "plan", "bury", "delete", "forget"},
           roots : SUBSET Nat, leased : SUBSET Anything, old : SUBSET Objects,
           todo : SUBSET Objects, swept : SUBSET Objects]

\* A cycle lists nothing that it has to leave alone.
SpareInv ==
    /\ gc \in Cycles
    /\ gc.step = "plan" => spared \cap (gc.old \ gc.leased) = {}
    /\ gc.step \in {"bury", "delete"} => spared \cap gc.todo = {}

-----------------------------------------------------------------------------
\* Helpers

LEMMA Numbers ==
  ASSUME LeaseInv
  PROVE  Len(commits) \in Nat /\ DOMAIN commits = 1 .. Len(commits)
         /\ \A k \in DOMAIN commits : commits[k] \in Made
  BY DEF LeaseInv

LEMMA ClosureFits ==
  ASSUME LeaseInv, NEW k \in DOMAIN commits
  PROVE  Closure(k) \subseteq Anything
  BY Numbers, CollectorAssumption DEF Closure, Content, Anything, Made

\* A step of one writer, which leaves the others' calls and sessions.
LEMMA Moves ==
  ASSUME LeaseInv, NEW w \in Writers, NEW q \in Calls, NEW s \in Sessions,
         call' = [call EXCEPT ![w] = q], session' = [session EXCEPT ![w] = s],
         commits' \in Seq(Made), Grown,
         refs' \in [Refs -> 0 .. Len(commits')], retained' \subseteq DOMAIN commits',
         CallFits(w)'
  PROVE  LeaseInv'
  <1>1. call' \in [Writers -> Calls] /\ session' \in [Writers -> Sessions]
    BY DEF LeaseInv
  <1>2. ASSUME NEW v \in Writers, v # w PROVE CallFits(v)'
    <2>1. call'[v] = call[v] /\ session'[v] = session[v] /\ CallFits(v)
      BY <1>2 DEF LeaseInv
    <2>2. Len(commits') \in Nat /\ Len(commits) \in Nat /\ DOMAIN commits = 1 .. Len(commits)
          /\ Len(commits) <= Len(commits')
      BY Numbers DEF Grown
    <2>4. Publishing(v) => call[v].commit \in DOMAIN commits
      BY <2>1, <2>2 DEF CallFits, Publishing
    <2>5. Publishing(v)' <=> Publishing(v)
      BY <2>1 DEF Publishing
    <2>6. ASSUME Publishing(v)' PROVE (Closure(call[v].commit) \subseteq session[v].names)'
      <3>1. Closure(call[v].commit) \subseteq session[v].names
        BY <2>1, <2>5, <2>6 DEF CallFits
      <3>2. call'[v].commit = call[v].commit
            /\ commits'[call[v].commit] = commits[call[v].commit]
        BY <2>1, <2>4, <2>5, <2>6 DEF Grown
      <3> QED BY <2>1, <3>1, <3>2 DEF Closure, Content
    <2>7. (Publishing(v) => Closure(call[v].commit) \subseteq session[v].names)'
      BY <2>6
    <2> QED BY <2>1, <2>2, <2>7 DEF CallFits
  <1> QED BY <1>1, <1>2 DEF LeaseInv

LEMMA SameCommits == ASSUME LeaseInv, commits' = commits PROVE Grown /\ commits' \in Seq(Made)
  BY Numbers DEF Grown, LeaseInv

\* A step that moves the call alone.
LEMMA Steps1 ==
  ASSUME LeaseInv, NEW w \in Writers, NEW q \in Calls,
         call' = [call EXCEPT ![w] = q], session' = session,
         commits' = commits, refs' \in [Refs -> 0 .. Len(commits)], retained' \subseteq DOMAIN commits,
         q.kind \in {"publish", "upload", "import"} => q.tree \in Trees,
         q.step \in {"begin", "offer", "put", "record", "page", "lease", "look", "move",
                     "graduate", "end"} => q.kind \in {"publish", "upload", "import"},
         q.cur \in 0 .. Len(commits), q.commit \in 0 .. Len(commits),
         q.step \in {"lease", "look", "move", "graduate"} => q.commit # 0,
         q.step = "begin" => q.kind # "import",
         q.step = "lease" => q.kind = "publish",
         q.step = "page" => q.kind = "upload",
         q.step = "look" => q.kind = "import",
         q.kind = "publish" /\ q.step # "begin" => session[w].live,
         q.kind = "publish" /\ q.step \in {"move", "graduate"} =>
             Closure(q.commit) \subseteq session[w].names
  PROVE  LeaseInv'
  <1>1. call'[w] = q /\ session[w] \in Sessions
    BY DEF LeaseInv
  <1>2. session' = [session EXCEPT ![w] = session[w]]
    BY DEF LeaseInv
  <1>4. (Publishing(w) => Closure(call[w].commit) \subseteq session[w].names)'
    <2> SUFFICES ASSUME Publishing(w)' PROVE (Closure(call[w].commit) \subseteq session[w].names)'
      OBVIOUS
    <2>1. Closure(q.commit) \subseteq session[w].names
      BY <1>1 DEF Publishing
    <2> QED BY <1>1, <2>1 DEF Closure, Content
  <1>5. CallFits(w)'
    BY <1>1, <1>4 DEF CallFits
  <1> QED BY <1>1, <1>2, <1>5, SameCommits, Moves

LEMMA IdleFits == Idle \in Calls /\ Idle.kind = "none" /\ Idle.step = "idle" /\ Idle.cur = 0 /\ Idle.commit = 0
  <1>1. (CHOOSE r \in Refs : TRUE) \in Refs
    BY CollectorAssumption
  <1> QED BY <1>1 DEF Idle, Calls, Kinds, Steps

\* What is known of the writer that moves.
LEMMA Facts ==
  ASSUME LeaseInv, NEW w \in Writers
  PROVE  /\ call[w] \in Calls /\ session[w] \in Sessions /\ CallFits(w)
         /\ refs \in [Refs -> 0 .. Len(commits)] /\ retained \subseteq DOMAIN commits
         /\ Len(commits) \in Nat /\ DOMAIN commits = 1 .. Len(commits)
  BY Numbers DEF LeaseInv

LEMMA StepFits ==
  ASSUME LeaseInv, NEW w \in Writers, NEW step \in Steps, Goto(w, step),
         session' = session, commits' = commits,
         refs' \in [Refs -> 0 .. Len(commits)], retained' \subseteq DOMAIN commits,
         call[w].step # "begin",
         step \in {"refs", "ops", "replace", "graduate", "end"},
         step = "graduate" => call[w].step = "move",
         step = "end" => call[w].step \in {"lease", "move", "graduate"}
  PROVE  LeaseInv'
  <1> DEFINE q == [call[w] EXCEPT !.step = step]
  <1>1. q \in Calls /\ q.step = step /\ q.kind = call[w].kind /\ q.tree = call[w].tree
        /\ q.cur = call[w].cur /\ q.commit = call[w].commit
    BY Facts DEF Calls
  <1>2. call' = [call EXCEPT ![w] = q]
    BY DEF Goto
  <1>3. /\ q.kind \in {"publish", "upload", "import"} => q.tree \in Trees
        /\ q.step \in {"graduate", "end"} => q.kind \in {"publish", "upload", "import"}
        /\ q.cur \in 0 .. Len(commits) /\ q.commit \in 0 .. Len(commits)
        /\ q.step = "graduate" => q.commit # 0
        /\ q.kind = "publish" => session[w].live
    BY <1>1, Facts DEF CallFits
  <1>4. q.kind = "publish" /\ q.step = "graduate" => Closure(q.commit) \subseteq session[w].names
    BY <1>1, Facts DEF CallFits, Publishing
  <1> HIDE DEF q
  <1> QED BY <1>1, <1>2, <1>3, <1>4, Steps1

LEMMA ReturnFits ==
  ASSUME LeaseInv, NEW w \in Writers, Return(w), session' = session, commits' = commits,
         refs' \in [Refs -> 0 .. Len(commits)], retained' \subseteq DOMAIN commits
  PROVE  LeaseInv'
  <1>1. 0 \in 0 .. Len(commits)
    BY Facts
  <1> QED BY <1>1, IdleFits, Steps1 DEF Return

\* The writes before the ref moves.
LEMMA AskWriteFits ==
  ASSUME LeaseInv, NEW w \in Writers, NEW kind \in Does[w], NEW r \in Refs, NEW t \in Trees,
         AskWrite(w, kind, r, t)
  PROVE  LeaseInv'
  <1>1. PICK c \in 0 .. Len(commits), step \in {"offer", "begin"} :
           c = (IF kind = "import" THEN 0 ELSE refs[r])
           /\ step = (IF kind = "import" THEN "offer" ELSE "begin")
    BY Facts
  <1> DEFINE q == [Idle EXCEPT !.kind = kind, !.ref = r, !.tree = t, !.cur = c, !.step = step]
  <1>2. kind \in {"publish", "upload", "import"} /\ call' = [call EXCEPT ![w] = q]
        /\ session' = session /\ commits' = commits /\ refs' = refs /\ retained' = retained
    BY <1>1 DEF AskWrite, meta
  <1>3. c \in Nat /\ kind \in Kinds /\ step \in Steps
    BY <1>1, <1>2, Facts DEF Kinds, Steps
  <1>4. q \in Calls
    BY <1>3, IdleFits DEF Calls
  <1>5. q.kind = kind /\ q.tree = t /\ q.commit = 0 /\ q.step = step /\ q.cur = c
    BY IdleFits DEF Calls
  <1>6. refs' \in [Refs -> 0 .. Len(commits)] /\ retained' \subseteq DOMAIN commits
        /\ 0 \in 0 .. Len(commits)
    BY <1>2, Facts
  <1>7. (step = "begin" => kind # "import") /\ (kind = "publish" => step = "begin")
    BY <1>1
  <1> HIDE DEF q
  <1> QED BY <1>1, <1>2, <1>4, <1>5, <1>6, <1>7, Steps1

LEMMA BeginWriteFits ==
  ASSUME LeaseInv, NEW w \in Writers, BeginWrite(w)
  PROVE  LeaseInv'
  <1> DEFINE q == [call[w] EXCEPT !.step = "offer"]
             s == [live |-> TRUE, names |-> {}]
  <1>1. call[w].step = "begin" /\ call' = [call EXCEPT ![w] = q] /\ session' = [session EXCEPT ![w] = s]
        /\ commits' = commits /\ refs' = refs /\ retained' = retained
    BY DEF BeginWrite, Goto
  <1>2. q \in Calls /\ s \in Sessions
    BY Facts DEF Calls, Steps, Sessions
  <1>3. call'[w] = q /\ session'[w] = s
    BY <1>1 DEF LeaseInv
  <1>4. CallFits(w)'
    BY <1>1, <1>3, Facts DEF CallFits, Publishing, Calls
  <1> QED BY <1>1, <1>2, <1>4, Facts, SameCommits, Moves

LEMMA OfferFits ==
  ASSUME LeaseInv, NEW w \in Writers, Offer(w)
  PROVE  LeaseInv'
  <1>1. call[w].step = "offer" /\ session' = session /\ commits' = commits /\ refs' = refs
        /\ retained' = retained
    BY DEF Offer, meta
  <1>2. PICK todo \in SUBSET Content(call[w].tree) :
           call' = [call EXCEPT ![w].step = "put", ![w].todo = todo]
    BY DEF Offer
  <1>3. call[w].tree \in Trees
    BY <1>1, Facts DEF CallFits
  <1>4. todo \subseteq Anything
    BY <1>2, <1>3, CollectorAssumption DEF Content, Anything
  <1> DEFINE q == [call[w] EXCEPT !.step = "put", !.todo = todo]
  <1>5. call' = [call EXCEPT ![w] = q]
    BY <1>2, Facts DEF LeaseInv
  <1>6. q \in Calls /\ q.step = "put" /\ q.kind = call[w].kind /\ q.tree = call[w].tree
        /\ q.cur = call[w].cur /\ q.commit = call[w].commit
    BY <1>4, Facts DEF Calls, Steps
  <1> HIDE DEF q
  <1> QED BY <1>1, <1>5, <1>6, Facts, Steps1 DEF CallFits

LEMMA StoredFits ==
  ASSUME LeaseInv, NEW w \in Writers, NEW o \in Anything, Stored(w, o),
         call[w].step \in {"put", "record"}, session' = session, commits' = commits,
         refs' = refs, retained' = retained
  PROVE  LeaseInv'
  <1> DEFINE q == [call[w] EXCEPT !.todo = @ \ {o},
                                  !.item = IF call[w].kind = "upload" THEN {o} ELSE {},
                                  !.step = IF call[w].kind = "upload" THEN "page" ELSE "put"]
  <1>1. call' = [call EXCEPT ![w] = q]
    BY Facts DEF Stored, LeaseInv
  <1>2. q \in Calls /\ q.kind = call[w].kind /\ q.tree = call[w].tree
        /\ q.step = (IF call[w].kind = "upload" THEN "page" ELSE "put")
        /\ q.cur = call[w].cur /\ q.commit = call[w].commit
    BY Facts DEF Calls, Steps
  <1> HIDE DEF q
  <1> QED BY <1>1, <1>2, Facts, Steps1 DEF CallFits

LEMMA PutFits ==
  ASSUME LeaseInv, NEW w \in Writers, NEW o \in Objects, Put(w, o)
  PROVE  LeaseInv'
  <1>1. call[w].step = "put" /\ session' = session /\ commits' = commits /\ refs' = refs
        /\ retained' = retained
    BY DEF Put, meta
  <1>2. o \in Anything
    BY CollectorAssumption DEF Objects, Names, Anything
  <1>3. CASE Stored(w, o)
    BY <1>1, <1>2, <1>3, StoredFits
  <1>4. CASE call' = [call EXCEPT ![w].step = "record", ![w].item = {o}]
    <2> DEFINE q == [call[w] EXCEPT !.step = "record", !.item = {o}]
    <2>1. call' = [call EXCEPT ![w] = q]
      BY <1>4, Facts DEF LeaseInv
    <2>2. q \in Calls /\ q.kind = call[w].kind /\ q.tree = call[w].tree /\ q.step = "record"
          /\ q.cur = call[w].cur /\ q.commit = call[w].commit
      BY <1>2, Facts DEF Calls, Steps
    <2> HIDE DEF q
    <2> QED BY <1>1, <2>1, <2>2, Facts, Steps1 DEF CallFits
  <1> QED BY <1>3, <1>4 DEF Put

LEMMA RecordFits ==
  ASSUME LeaseInv, NEW w \in Writers, Record(w)
  PROVE  LeaseInv'
  <1>1. PICK o \in call[w].item : Stored(w, o)
    BY DEF Record
  <1>2. o \in Anything
    BY Facts DEF Calls
  <1> QED BY <1>1, <1>2, StoredFits DEF Record, meta

LEMMA PageFits ==
  ASSUME LeaseInv, NEW w \in Writers, Page(w)
  PROVE  LeaseInv'
  <1> DEFINE q == [call[w] EXCEPT !.item = {}, !.step = IF call[w].commit = 0 THEN "put" ELSE "move"]
             s == [session[w] EXCEPT !.names = @ \cup call[w].item]
  <1>1. call[w].step = "page" /\ call' = [call EXCEPT ![w] = q] /\ session' = [session EXCEPT ![w] = s]
        /\ commits' = commits /\ refs' = refs /\ retained' = retained
    BY Facts DEF Page, LeaseInv
  <1>2. q \in Calls /\ s \in Sessions /\ s.live = session[w].live
    BY Facts DEF Calls, Steps, Sessions
  <1>3. call'[w] = q /\ session'[w] = s
    BY <1>1 DEF LeaseInv
  <1>4. q.kind = "upload" /\ q.tree \in Trees /\ q.commit = call[w].commit /\ q.cur = call[w].cur
        /\ q.step = IF call[w].commit = 0 THEN "put" ELSE "move"
    BY <1>1, Facts DEF CallFits, Calls
  <1>5. CallFits(w)'
    <2> HIDE DEF q, s
    <2> QED BY <1>1, <1>3, <1>4, Facts DEF CallFits, Publishing
  <1> QED BY <1>1, <1>2, <1>5, Facts, SameCommits, Moves

LEMMA PutCommitFits ==
  ASSUME LeaseInv, NEW w \in Writers, PutCommit(w)
  PROVE  LeaseInv'
  <1> DEFINE k == Len(commits) + 1
             made == [tree |-> call[w].tree, past |-> {k} \cup
                        IF call[w].cur = 0 THEN {} ELSE commits[call[w].cur].past]
             step == CASE call[w].kind = "publish" -> "lease"
                       [] call[w].kind = "upload" -> "page"
                       [] call[w].kind = "import" -> "look"
             q == [call[w] EXCEPT !.commit = k, !.item = IF call[w].kind = "upload" THEN {k} ELSE {},
                                  !.step = step]
  <1>1. call[w].step = "put" /\ commits' = Append(commits, made) /\ call' = [call EXCEPT ![w] = q]
        /\ refs' = refs /\ retained' = retained /\ session' = session
    <2>1. call[w] \in Calls /\ call \in [Writers -> Calls]
      BY DEF LeaseInv
    <2>2. call' = [call EXCEPT ![w].commit = k,
                      ![w].item = IF call[w].kind = "upload" THEN {k} ELSE {},
                      ![w].step = step]
      BY DEF PutCommit
    <2>3. call' = [call EXCEPT ![w] = q]
      <3> HIDE DEF step, k
      <3> QED BY <2>1, <2>2
    <2> QED BY <2>3 DEF PutCommit
  <1>2. call[w].kind \in {"publish", "upload", "import"} /\ call[w].tree \in Trees
    BY <1>1, Facts DEF CallFits
  <1>3. k \in Nat \ {0} /\ k \in Anything
    BY Facts DEF Anything
  <1>4. made \in Made
    <2>1. call[w].cur \in 0 .. Len(commits)
      BY Facts DEF CallFits
    <2>2. call[w].cur # 0 => commits[call[w].cur] \in Made
      BY <2>1, Numbers
    <2> QED BY <1>2, <1>3, <2>2 DEF Made
  <1>5. /\ commits' \in Seq(Made) /\ Len(commits') = k /\ DOMAIN commits' = 1 .. k
        /\ \A i \in DOMAIN commits : commits'[i] = commits[i]
    BY <1>1, <1>4, Numbers DEF LeaseInv
  <1>6. step \in {"lease", "page", "look"}
        /\ (step = "lease" => call[w].kind = "publish")
        /\ (step = "page" => call[w].kind = "upload")
        /\ (step = "look" => call[w].kind = "import")
    <2>1. CASE call[w].kind = "publish"
      BY <2>1
    <2>2. CASE call[w].kind = "upload"
      BY <2>2
    <2>3. CASE call[w].kind = "import"
      BY <2>3
    <2> QED BY <1>2, <2>1, <2>2, <2>3
  <1>7. Grown
    BY <1>3, <1>5, Numbers DEF Grown
  <1> HIDE DEF step
  <1>8. q \in Calls /\ q.step = step /\ q.kind = call[w].kind /\ q.tree = call[w].tree
        /\ q.cur = call[w].cur /\ q.commit = k
    BY <1>3, <1>6, Facts DEF Calls, Steps
  <1>9. session' = [session EXCEPT ![w] = session[w]] /\ call'[w] = q /\ session'[w] = session[w]
        /\ session[w] \in Sessions
    BY <1>1 DEF LeaseInv
  <1>10. refs' \in [Refs -> 0 .. Len(commits')] /\ retained' \subseteq DOMAIN commits'
    BY <1>1, <1>3, <1>5, Facts
  <1>11. call[w].cur \in 0 .. Len(commits') /\ k \in 0 .. Len(commits')
         /\ (call[w].kind = "publish" => session[w].live)
    BY <1>1, <1>3, <1>5, Facts DEF CallFits
  <1> HIDE DEF q
  <1>12. CallFits(w)'
    BY <1>2, <1>3, <1>6, <1>8, <1>9, <1>11 DEF CallFits, Publishing
  <1> QED BY <1>1, <1>5, <1>7, <1>8, <1>9, <1>10, <1>12, Moves

LEMMA LeaseFits ==
  ASSUME LeaseInv, NEW w \in Writers, Lease(w)
  PROVE  LeaseInv'
  <1>1. call[w].step = "lease" /\ commits' = commits /\ refs' = refs /\ retained' = retained
    BY DEF Lease
  <1>2. CASE Goto(w, "end") /\ session' = session
    BY <1>1, <1>2, Facts, StepFits DEF Steps
  <1>3. CASE /\ session' = [session EXCEPT ![w].names = @ \cup Closure(call[w].commit)]
             /\ Goto(w, "move")
    <2> DEFINE q == [call[w] EXCEPT !.step = "move"]
               s == [session[w] EXCEPT !.names = @ \cup Closure(call[w].commit)]
    <2>1. call' = [call EXCEPT ![w] = q] /\ session' = [session EXCEPT ![w] = s]
      BY <1>3, Facts DEF Goto, LeaseInv
    <2>2. call[w].commit \in DOMAIN commits /\ call[w].kind = "publish" /\ session[w].live
          /\ call[w].tree \in Trees /\ call[w].commit # 0
      BY <1>1, Facts DEF CallFits
    <2>3. Closure(call[w].commit) \subseteq Anything
      BY <2>2, ClosureFits
    <2>4. q \in Calls /\ q.step = "move" /\ q.kind = "publish" /\ q.tree = call[w].tree
          /\ q.cur = call[w].cur /\ q.commit = call[w].commit
      BY <2>2, Facts DEF Calls, Steps
    <2>5. s \in Sessions /\ s.live /\ Closure(call[w].commit) \subseteq s.names
      BY <2>2, <2>3, Facts DEF Sessions
    <2>6. call'[w] = q /\ session'[w] = s
      BY <2>1 DEF LeaseInv
    <2> HIDE DEF q, s
    <2>7. (Closure(call[w].commit) \subseteq session[w].names)'
      BY <1>1, <2>4, <2>5, <2>6 DEF Closure, Content
    <2>8. CallFits(w)'
      BY <1>1, <2>2, <2>4, <2>5, <2>6, <2>7, Facts DEF CallFits
    <2> QED BY <1>1, <2>1, <2>4, <2>5, <2>8, Facts, SameCommits, Moves
  <1> QED BY <1>2, <1>3 DEF Lease

LEMMA LookFits ==
  ASSUME LeaseInv, NEW w \in Writers, Look(w)
  PROVE  LeaseInv'
  <1> DEFINE q == [call[w] EXCEPT !.cur = refs[call[w].ref], !.step = "move"]
  <1>1. call[w].step = "look" /\ call' = [call EXCEPT ![w] = q] /\ session' = session
        /\ commits' = commits /\ refs' = refs /\ retained' = retained
    BY Facts DEF Look, LeaseInv, objects, meta
  <1>2. call[w].ref \in Refs /\ refs[call[w].ref] \in 0 .. Len(commits)
    BY Facts DEF Calls
  <1>3. call[w].kind = "import" /\ call[w].tree \in Trees /\ call[w].commit # 0
        /\ call[w].commit \in 0 .. Len(commits)
    BY <1>1, Facts DEF CallFits
  <1>4. q \in Calls /\ q.step = "move" /\ q.kind = "import" /\ q.tree = call[w].tree
        /\ q.cur = refs[call[w].ref] /\ q.commit = call[w].commit
    <2>1. refs[call[w].ref] \in Nat /\ "move" \in Steps /\ call[w] \in Calls
      BY <1>2, Facts DEF Steps
    <2> QED BY <1>3, <2>1 DEF Calls
  <1> HIDE DEF q
  <1>5. refs' \in [Refs -> 0 .. Len(commits)] /\ retained' \subseteq DOMAIN commits
    BY <1>1, Facts
  <1> QED BY <1>1, <1>2, <1>3, <1>4, <1>5, Steps1

\* The log and the refs name commits that were made.
LEMMA RefMoves ==
  ASSUME LeaseInv, NEW r \in Refs, NEW b \in 0 .. Len(commits), NEW a \in 0 .. Len(commits),
         MoveRef(r, a, b)
  PROVE  refs' \in [Refs -> 0 .. Len(commits)] /\ retained' \subseteq DOMAIN commits
  <1>1. refs' = [refs EXCEPT ![r] = b] /\ retained' = retained \cup ({a, b} \ {0})
    BY DEF MoveRef
  <1>2. refs \in [Refs -> 0 .. Len(commits)] /\ retained \subseteq DOMAIN commits
        /\ Len(commits) \in Nat /\ DOMAIN commits = 1 .. Len(commits)
    BY Numbers DEF LeaseInv
  <1>3. {a, b} \ {0} \subseteq 1 .. Len(commits)
    BY <1>2
  <1> QED BY <1>1, <1>2, <1>3

LEMMA MoveFits ==
  ASSUME LeaseInv, NEW w \in Writers, Move(w)
  PROVE  LeaseInv'
  <1>1. call[w].step = "move" /\ session' = session /\ commits' = commits
    BY DEF Move
  <1>2. CASE MoveRef(call[w].ref, call[w].cur, call[w].commit)
             /\ Goto(w, IF call[w].kind = "upload" THEN "end" ELSE "graduate")
    <2>1. call[w].ref \in Refs /\ call[w].cur \in 0 .. Len(commits) /\ call[w].commit \in 0 .. Len(commits)
      BY Facts DEF Calls, CallFits
    <2>2. refs' \in [Refs -> 0 .. Len(commits)] /\ retained' \subseteq DOMAIN commits
      BY <1>2, <2>1, RefMoves
    <2>3. CASE call[w].kind = "upload"
      BY <1>1, <1>2, <2>2, <2>3, StepFits DEF Steps
    <2>4. CASE call[w].kind # "upload"
      BY <1>1, <1>2, <2>2, <2>4, StepFits DEF Steps
    <2> QED BY <2>3, <2>4
  <1>3. CASE (IF call[w].kind = "import" THEN Return(w) ELSE Goto(w, "end")) /\ UNCHANGED <<refs, retained>>
    <2>1. refs' \in [Refs -> 0 .. Len(commits)] /\ retained' \subseteq DOMAIN commits
      BY <1>3, Facts
    <2>2. CASE call[w].kind = "import"
      BY <1>1, <1>3, <2>1, <2>2, ReturnFits
    <2>3. CASE call[w].kind # "import"
      BY <1>1, <1>3, <2>1, <2>3, StepFits DEF Steps
    <2> QED BY <2>2, <2>3
  <1> QED BY <1>2, <1>3 DEF Move

LEMMA GraduateFits ==
  ASSUME LeaseInv, NEW w \in Writers, Graduate(w)
  PROVE  LeaseInv'
  <1>1. call[w].step = "graduate" /\ session' = session /\ commits' = commits
        /\ refs' \in [Refs -> 0 .. Len(commits)] /\ retained' \subseteq DOMAIN commits
    BY Facts DEF Graduate, meta
  <1>2. CASE Goto(w, "end")
    BY <1>1, <1>2, StepFits DEF Steps
  <1>3. CASE Return(w)
    BY <1>1, <1>3, ReturnFits
  <1> QED BY <1>2, <1>3 DEF Graduate

LEMMA EndFits ==
  ASSUME LeaseInv, NEW w \in Writers, End(w)
  PROVE  LeaseInv'
  <1>1. call' = [call EXCEPT ![w] = Idle] /\ session' = [session EXCEPT ![w] = Ended]
        /\ commits' = commits /\ refs' = refs /\ retained' = retained
    BY DEF End, Return
  <1>2. Ended \in Sessions /\ 0 \in 0 .. Len(commits)
    BY Facts DEF Ended, Sessions
  <1>3. call'[w] = Idle
    BY <1>1 DEF LeaseInv
  <1>4. CallFits(w)'
    BY <1>1, <1>2, <1>3, IdleFits DEF CallFits, Publishing
  <1> QED BY <1>1, <1>2, <1>4, IdleFits, Facts, SameCommits, Moves

\* Rebuilds, undo, and a writer that dies.
LEMMA AskDiscardFits ==
  ASSUME LeaseInv, NEW w \in Writers, NEW r \in Refs, AskDiscard(w, r)
  PROVE  LeaseInv'
  <1> DEFINE q == [Idle EXCEPT !.kind = "discard", !.step = "drop", !.ref = r, !.cur = refs[r]]
  <1>1. call' = [call EXCEPT ![w] = q] /\ session' = session /\ commits' = commits
        /\ refs' = refs /\ retained' = retained
    BY DEF AskDiscard, meta
  <1>2. refs[r] \in 0 .. Len(commits) /\ refs[r] \in Nat /\ 0 \in 0 .. Len(commits)
        /\ "drop" \in Steps /\ "discard" \in Kinds
    BY Facts DEF Steps, Kinds
  <1>3. q \in Calls
    BY <1>2, IdleFits DEF Calls
  <1>4. q.kind = "discard" /\ q.step = "drop" /\ q.cur = refs[r] /\ q.commit = 0
    BY IdleFits DEF Calls
  <1>5. refs' \in [Refs -> 0 .. Len(commits)] /\ retained' \subseteq DOMAIN commits
    BY <1>1, Facts
  <1> HIDE DEF q
  <1> QED BY <1>1, <1>2, <1>3, <1>4, <1>5, Steps1

LEMMA HeadsFit == ASSUME LeaseInv PROVE Heads \subseteq Nat /\ retained \subseteq Nat
  BY Numbers DEF LeaseInv, Heads

LEMMA DiscardReads ==
  ASSUME LeaseInv, NEW w \in Writers, NEW roots \in SUBSET Nat, NEW step \in {"ops", "replace"},
         call[w].step \in {"refs", "ops"},
         call' = [call EXCEPT ![w].roots = roots, ![w].step = step],
         session' = session, commits' = commits, refs' = refs, retained' = retained
  PROVE  LeaseInv'
  <1> DEFINE q == [call[w] EXCEPT !.roots = roots, !.step = step]
  <1>1. call' = [call EXCEPT ![w] = q]
    BY Facts DEF LeaseInv
  <1>2. q \in Calls /\ q.step = step /\ q.kind = call[w].kind /\ q.tree = call[w].tree
        /\ q.cur = call[w].cur /\ q.commit = call[w].commit
    BY Facts DEF Calls, Steps
  <1>3. refs' \in [Refs -> 0 .. Len(commits)] /\ retained' \subseteq DOMAIN commits
    BY Facts
  <1>4. /\ q.kind \in {"publish", "upload", "import"} => q.tree \in Trees
        /\ q.cur \in 0 .. Len(commits) /\ q.commit \in 0 .. Len(commits)
        /\ q.kind = "publish" => session[w].live
    BY <1>2, Facts DEF CallFits
  <1> HIDE DEF q
  <1> QED BY <1>1, <1>2, <1>3, <1>4, Steps1

LEMMA DiscardFits ==
  ASSUME LeaseInv, NEW w \in Writers, Discard(w)
  PROVE  LeaseInv'
  <1>1. session' = session /\ commits' = commits
    BY DEF Discard
  <1>2. CASE call[w].step = "drop" /\ MoveRef(call[w].ref, call[w].cur, 0) /\ Goto(w, "refs")
    <2>1. call[w].ref \in Refs /\ call[w].cur \in 0 .. Len(commits) /\ 0 \in 0 .. Len(commits)
      BY Facts DEF Calls, CallFits
    <2>2. refs' \in [Refs -> 0 .. Len(commits)] /\ retained' \subseteq DOMAIN commits
      BY <1>2, <2>1, RefMoves
    <2> QED BY <1>1, <1>2, <2>2, StepFits DEF Steps
  <1>3. CASE Return(w) /\ UNCHANGED <<refs, retained>>
    <2>1. refs' \in [Refs -> 0 .. Len(commits)] /\ retained' \subseteq DOMAIN commits
      BY <1>3, Facts
    <2> QED BY <1>1, <1>3, <2>1, ReturnFits
  <1>4. CASE /\ call[w].step = "refs" /\ UNCHANGED <<refs, retained>>
             /\ call' = [call EXCEPT ![w].roots = Heads, ![w].step = "ops"]
    BY <1>1, <1>4, HeadsFit, DiscardReads
  <1>5. CASE /\ call[w].step = "ops" /\ UNCHANGED <<refs, retained>>
             /\ call' = [call EXCEPT ![w].roots = ReadOps(call[w].roots), ![w].step = "replace"]
    <2>1. ReadOps(call[w].roots) \in SUBSET Nat
      BY HeadsFit, Facts DEF ReadOps, Calls
    <2> QED BY <1>1, <1>5, <2>1, DiscardReads
  <1> QED BY <1>2, <1>3, <1>4, <1>5 DEF Discard

\* Steps that touch no call: the collector's, and time's.
LEMMA CallsStay ==
  ASSUME LeaseInv, call' = call, session' = session, commits' = commits,
         refs' \in [Refs -> 0 .. Len(commits)], retained' \subseteq DOMAIN commits
  PROVE  LeaseInv'
  <1>1. ASSUME NEW w \in Writers PROVE CallFits(w)'
    BY Facts DEF CallFits, Publishing, Closure, Content
  <1> QED BY <1>1 DEF LeaseInv

LEMMA ExpireFits ==
  ASSUME LeaseInv, NEW w \in Writers, Expire(w)
  PROVE  LeaseInv'
  <1> DEFINE s == [session[w] EXCEPT !.live = FALSE]
  <1>1. call[w] = Idle /\ session' = [session EXCEPT ![w] = s] /\ call' = call
        /\ commits' = commits /\ refs' = refs /\ retained' = retained
    BY Facts DEF Expire, LeaseInv
  <1>2. s \in Sessions /\ call' = [call EXCEPT ![w] = Idle]
    BY <1>1, Facts DEF Sessions, LeaseInv
  <1>3. CallFits(w)'
    BY <1>1, IdleFits, Facts DEF CallFits, Publishing
  <1> QED BY <1>1, <1>2, <1>3, IdleFits, Facts, SameCommits, Moves

LEMMA LeaseStarts == Init => LeaseInv
  <1> SUFFICES ASSUME Init PROVE LeaseInv
    OBVIOUS
  <1>1. Len(commits) = 0 /\ DOMAIN commits = {} /\ commits \in Seq(Made)
    BY DEF Init
  <1>2. session \in [Writers -> Sessions] /\ call \in [Writers -> Calls]
    BY IdleFits DEF Init, Ended, Sessions
  <1>3. ASSUME NEW w \in Writers PROVE CallFits(w)
    BY <1>1, IdleFits DEF Init, CallFits, Publishing
  <1> QED BY <1>1, <1>2, <1>3 DEF Init, LeaseInv

LEMMA LeaseStep == ASSUME LeaseInv, [Next]_vars PROVE LeaseInv'
  <1>1. refs \in [Refs -> 0 .. Len(commits)] /\ retained \subseteq DOMAIN commits
        /\ Len(commits) \in Nat /\ DOMAIN commits = 1 .. Len(commits)
    BY Numbers DEF LeaseInv
  <1>2. ASSUME NEW w \in Writers, Write(w) PROVE LeaseInv'
    BY <1>2, BeginWriteFits, OfferFits, PutFits, RecordFits, PageFits, PutCommitFits, LeaseFits,
       LookFits, MoveFits, GraduateFits, EndFits DEF Write
  <1>3. ASSUME NEW w \in Writers, NEW r \in Refs, NEW k \in Names \cup {0}, Undo(w, r, k) PROVE LeaseInv'
    <2>1. k \in 0 .. Len(commits) /\ refs[r] \in 0 .. Len(commits)
      BY <1>1, <1>3 DEF Undo
    <2>2. refs' \in [Refs -> 0 .. Len(commits)] /\ retained' \subseteq DOMAIN commits
      BY <1>3, <2>1, RefMoves DEF Undo
    <2> QED BY <1>3, <2>2, CallsStay DEF Undo
  <1>4. ASSUME NEW w \in Writers, Crash(w) PROVE LeaseInv'
    BY <1>1, <1>4, ReturnFits DEF Crash, meta
  <1>5. CASE Collect \/ Die \/ (\E o \in Objects : Age(o)) \/ UNCHANGED vars
    <2>1. call' = call /\ session' = session /\ commits' = commits /\ refs' = refs /\ retained' = retained
      BY <1>5 DEF Collect, Wake, Refresh, ReadLeases, Plan, Bury, Delete, Forget, Die, Age, vars,
         objects, meta
    <2> QED BY <1>1, <2>1, CallsStay
  <1>6. ASSUME NEW k \in Names, AgeOp(k) PROVE LeaseInv'
    <2>1. refs' = refs /\ retained' \subseteq DOMAIN commits
      BY <1>1, <1>6 DEF AgeOp
    <2> QED BY <1>1, <1>6, <2>1, CallsStay DEF AgeOp
  <1> QED BY <1>2, <1>3, <1>4, <1>5, <1>6, AskWriteFits, AskDiscardFits, DiscardFits, ExpireFits
      DEF Next

-----------------------------------------------------------------------------
\* What the collector leaves alone

LEMMA SpareStep == ASSUME LeaseInv, SpareInv, [SparedNext]_sparedVars PROVE SpareInv'
  <1>1. CASE UNCHANGED sparedVars
    BY <1>1 DEF sparedVars, vars, SpareInv
  <1>3. ASSUME SparedNext PROVE SpareInv'
    <2>0. gc \in Cycles /\ Asleep \in Cycles /\ Asleep.step = "idle"
      BY DEF SpareInv, Asleep, Cycles
    <2>1. CASE ReadLeases
      <3> DEFINE g == [gc EXCEPT !.old = AgedRows, !.leased = Leased, !.step = "plan"]
      <3>1. gc.step = "leases" /\ gc' = g
        BY <2>1 DEF ReadLeases
      <3>2. AgedRows \subseteq Objects /\ Leased \subseteq Anything
        BY DEF AgedRows, Leased, LeaseInv, Sessions
      <3>3. g \in Cycles /\ g.step = "plan" /\ g.old = AgedRows /\ g.leased = Leased
        BY <2>0, <3>2 DEF Cycles
      <3>4. spared' = Protected
        BY <1>3, <3>1, <3>3 DEF SparedNext
      <3> QED BY <3>1, <3>3, <3>4 DEF SpareInv, Protected, AgedRows
    <2>2. CASE Plan
      <3>1. gc.step = "plan"
        BY <2>2 DEF Plan
      <3>2. CASE gc' = Asleep
        BY <2>0, <3>2 DEF SpareInv
      <3>3. CASE gc' = [Asleep EXCEPT !.todo = Candidates, !.swept = Candidates, !.step = "bury"]
        <4>1. Candidates \subseteq Objects
          BY <2>0 DEF Candidates, Cycles
        <4>2. gc' \in Cycles /\ gc'.step = "bury" /\ gc'.todo = Candidates
          BY <2>0, <3>3, <4>1 DEF Cycles
        <4>3. spared' = spared \cup keep
          BY <1>3, <3>1, <4>2 DEF SparedNext
        <4> QED BY <3>1, <4>2, <4>3 DEF SpareInv, Candidates, Live
      <3> QED BY <2>2, <3>2, <3>3 DEF Plan
    <2>3. CASE Bury
      <3>1. gc.step = "bury" /\ gc' = [gc EXCEPT !.step = "delete"]
        BY <2>3 DEF Bury
      <3>2. gc' \in Cycles /\ gc'.step = "delete" /\ gc'.todo = gc.todo
        BY <2>0, <3>1 DEF Cycles
      <3>3. spared' = spared
        BY <1>3, <3>1 DEF SparedNext
      <3> QED BY <3>1, <3>2, <3>3 DEF SpareInv
    <2>4. ASSUME NEW o \in Objects, Delete(o) PROVE SpareInv'
      <3>1. PICK step \in {"forget", "delete"} :
               gc.step = "delete" /\ gc' = [gc EXCEPT !.todo = @ \ {o}, !.step = step]
        BY <2>4 DEF Delete
      <3>2. gc' \in Cycles /\ gc'.step = step /\ gc'.todo = gc.todo \ {o}
        BY <2>0, <3>1 DEF Cycles
      <3>3. spared' = spared
        BY <1>3, <3>1 DEF SparedNext
      <3> QED BY <3>1, <3>2, <3>3 DEF SpareInv
    <2>5. CASE Forget \/ Die
      BY <2>0, <2>5 DEF Forget, Die, SpareInv
    <2>6. CASE Wake \/ Refresh
      <3>1. PICK step \in {"refs", "ops", "replace", "leases"}, roots \in SUBSET Nat :
               gc' = [gc EXCEPT !.step = step, !.roots = roots]
        <4>1. gc.roots \in SUBSET Nat /\ Heads \in SUBSET Nat /\ ReadOps(gc.roots) \in SUBSET Nat
          BY <2>0, HeadsFit DEF Cycles, ReadOps
        <4>2. ASSUME NEW step \in {"refs", "leases"}, gc' = [gc EXCEPT !.step = step]
              PROVE  gc' = [gc EXCEPT !.step = step, !.roots = gc.roots]
          BY <2>0, <4>2 DEF Cycles
        <4>3. CASE Wake
          BY <4>1, <4>2, <4>3 DEF Wake
        <4>4. CASE Refresh
          <5>1. CASE gc' = [gc EXCEPT !.roots = Heads, !.step = "ops"]
            BY <2>0, <4>1, <5>1 DEF Cycles
          <5>2. CASE gc' = [gc EXCEPT !.roots = ReadOps(gc.roots), !.step = "replace"]
            BY <2>0, <4>1, <5>2 DEF Cycles
          <5>3. CASE gc' = [gc EXCEPT !.roots = {}, !.step = "leases"]
            BY <2>0, <5>3 DEF Cycles
          <5> QED BY <4>4, <5>1, <5>2, <5>3 DEF Refresh
        <4> QED BY <2>6, <4>3, <4>4
      <3>2. gc' \in Cycles /\ gc'.step = step
        BY <2>0, <3>1 DEF Cycles
      <3> QED BY <3>2 DEF SpareInv
    <2>7. CASE gc' = gc
      <3>1. spared' = spared
        BY <1>3, <2>7 DEF SparedNext
      <3> QED BY <2>7, <3>1 DEF SpareInv
    <2>8. ASSUME ~(Collect \/ Die) PROVE gc' = gc
      <3>1. ASSUME NEW w \in Writers, Write(w) PROVE gc' = gc
        BY <3>1 DEF Write, BeginWrite, Offer, Put, Record, Page, PutCommit, Lease, Look, Move,
           Graduate, End
      <3>2. ASSUME NEW w \in Writers, Discard(w) \/ Crash(w) \/ Expire(w) PROVE gc' = gc
        BY <3>2 DEF Discard, Crash, Expire
      <3>3. ASSUME NEW w \in Writers, NEW r \in Refs,
                   AskDiscard(w, r) \/ (\E k \in Names \cup {0} : Undo(w, r, k))
                     \/ (\E kind \in Does[w], t \in Trees : AskWrite(w, kind, r, t))
            PROVE  gc' = gc
        BY <3>3 DEF AskDiscard, Undo, AskWrite
      <3> QED BY <1>3, <2>8, <3>1, <3>2, <3>3 DEF SparedNext, Next, Age, AgeOp
    <2> QED BY <2>1, <2>2, <2>3, <2>4, <2>5, <2>6, <2>7, <2>8 DEF Collect
  <1> QED BY <1>1, <1>3 DEF sparedVars

\* What a step deletes was listed: the rest of the store stays.
LEMMA OnlyListedGo ==
  ASSUME [SparedNext]_sparedVars
  PROVE  \A o \in stored : o \in stored' \/ (gc.step = "delete" /\ o \in gc.todo)
  <1>1. ASSUME NEW w \in Writers, Write(w) PROVE stored \subseteq stored'
    BY <1>1 DEF Write, BeginWrite, Offer, Put, Record, Page, PutCommit, Lease, Look, Move,
       Graduate, End, WriteBytes, objects
  <1>2. ASSUME NEW w \in Writers, Discard(w) \/ Crash(w) \/ Expire(w) PROVE stored' = stored
    BY <1>2 DEF Discard, Crash, Expire, objects
  <1>3. ASSUME NEW w \in Writers, NEW r \in Refs,
               AskDiscard(w, r) \/ (\E k \in Names \cup {0} : Undo(w, r, k))
                 \/ (\E kind \in Does[w], t \in Trees : AskWrite(w, kind, r, t))
        PROVE  stored' = stored
    BY <1>3 DEF AskDiscard, Undo, AskWrite, objects
  <1>4. CASE Wake \/ Refresh \/ ReadLeases \/ Plan \/ Bury \/ Forget \/ Die
    BY <1>4 DEF Wake, Refresh, ReadLeases, Plan, Bury, Forget, Die, objects
  <1>5. ASSUME NEW o \in Objects, Delete(o)
        PROVE  gc.step = "delete" /\ o \in gc.todo /\ stored' = stored \ {o}
    BY <1>5 DEF Delete, Unlink
  <1>6. CASE UNCHANGED sparedVars \/ (\E o \in Objects : Age(o)) \/ (\E k \in Names : AgeOp(k))
    BY <1>6 DEF Age, AgeOp, sparedVars, vars, objects
  <1> QED BY <1>1, <1>2, <1>3, <1>4, <1>5, <1>6 DEF SparedNext, Next, Collect

-----------------------------------------------------------------------------
\* The theorems

\* CommitService.publish records all a commit reaches against its write
\* session before it moves the ref (commits.py), and the session is live until
\* the objects are in the keep-set: whatever other writers and collectors do,
\* and wherever they die.
THEOREM PublicationsStayLeased == Spec => []PublishedIsLeased
  <1>1. LeaseInv => PublishedIsLeased
    <2>1. ASSUME LeaseInv, NEW w \in Writers, Publishing(w)
          PROVE  session[w].live /\ Closure(call[w].commit) \subseteq session[w].names
      BY <2>1 DEF LeaseInv, CallFits, Publishing
    <2> QED BY <2>1 DEF PublishedIsLeased
  <1> QED BY <1>1, LeaseStarts, LeaseStep, PTL DEF Spec

\* A cycle of the collector deletes nothing that was leased, or that its grace
\* period covered, when plan read the leases and the clock (gc.py), and nothing
\* that was kept when it read the keep-set; all that a publication under way
\* reaches is among it, whatever arises.
THEOREM CollectionsSpareTheProtected ==
    SparedSpec => [][ /\ stored \cap spared \subseteq stored'
                      /\ gc.step = "leases" /\ gc'.step = "plan" =>
                            \A w \in Writers : Publishing(w) => Closure(call[w].commit) \subseteq spared'
                    ]_sparedVars
  <1> DEFINE Spares == /\ stored \cap spared \subseteq stored'
                       /\ gc.step = "leases" /\ gc'.step = "plan" =>
                             \A w \in Writers : Publishing(w) => Closure(call[w].commit) \subseteq spared'
  <1>1. SparedInit => LeaseInv /\ SpareInv
    BY LeaseStarts DEF SparedInit, Init, SpareInv, Asleep, Cycles
  <1>2. LeaseInv /\ SpareInv /\ [SparedNext]_sparedVars => LeaseInv' /\ SpareInv'
    BY LeaseStep, SpareStep DEF SparedNext, sparedVars
  <1>3. LeaseInv /\ SpareInv /\ [SparedNext]_sparedVars => [Spares]_sparedVars
    <2> SUFFICES ASSUME LeaseInv, SpareInv, SparedNext PROVE Spares
      OBVIOUS
    <2>1. stored \cap spared \subseteq stored'
      BY OnlyListedGo DEF SpareInv
    <2>2. ASSUME gc.step = "leases", gc'.step = "plan", NEW w \in Writers, Publishing(w)
          PROVE  Closure(call[w].commit) \subseteq spared'
      <3>1. spared' = Protected
        BY <2>2 DEF SparedNext
      <3>2. session[w].live /\ Closure(call[w].commit) \subseteq session[w].names
        BY <2>2 DEF LeaseInv, CallFits, Publishing
      <3>3. session[w].names \subseteq Leased
        BY <3>2 DEF Leased
      <3> QED BY <3>1, <3>2, <3>3 DEF Protected
    <2> QED BY <2>1, <2>2
  <1> QED BY <1>1, <1>2, <1>3, PTL DEF SparedSpec
=============================================================================
