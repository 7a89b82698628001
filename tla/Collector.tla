------------------------------ MODULE Collector ------------------------------
(***************************************************************************)
(* The object store (src/src/store), the writes that fill it under a write *)
(* session (src/src/service/commits.py, src/src/api/routes.py,             *)
(* src/src/migrate/from_git.py) and the garbage collector that empties it  *)
(* (src/src/maintenance/gc.py), over one environment.                      *)
(*                                                                         *)
(* Objects, catalog, tombstones, keep-set and metadata live in databases   *)
(* of their own, so every statement is a step and no step spans two of     *)
(* them.  Time is abstracted to what is compared with it: an object is     *)
(* older than the grace period or not, a log entry is retained or not, a   *)
(* lease is live or not.                                                   *)
(*                                                                         *)
(* Abstracted: a tree is one node over its blobs; the circuit breaker is   *)
(* below its floor; the bound of the history walk is not reached.          *)
(***************************************************************************)
EXTENDS Naturals, FiniteSets, Sequences

CONSTANTS
    Writers,     \* threads and clients, each with room for one session
    Refs,        \* ref names
    Blobs, Trees,
    Leaves,      \* the blobs of each tree
    NoTree,
    Does,        \* what each writer does
    Allowed,     \* the unlucky circumstances that may arise, named below
    MaxCommits   \* bound: commits made, and writes begun that may still make one

\* reuse:   old content is taken up while a sweep runs that may have listed it,
\*          or is not leased yet when the sweep looks
\* orphan:  a failed write leaves objects of different ages that nothing else
\*          needs: it took up old content, or a sweep comes when part is old
\* leak:    an object is left without its row: its writer dies before it is
\*          recorded, or a sweep that deleted it forgets the row of a new copy
\* rebuild: a ref moves after a rebuild has read the log and before it is done
\*          (before the sweep is planned, if its objects do not graduate)
\* stump:   a sweep dies after it deleted an object and before it forgot its row
\* skip:    a sweep is run without its maintenance
Circumstances == {"reuse", "orphan", "leak", "rebuild", "stump", "skip"}

ASSUME CollectorAssumption ==
    /\ Leaves \in [Trees -> SUBSET Blobs]
    /\ Blobs \cap Trees = {} /\ (Blobs \cup Trees) \cap Nat = {}
    /\ NoTree \notin Trees
    /\ IsFiniteSet(Writers) /\ Refs # {}
    /\ Does \in [Writers -> SUBSET {"publish", "upload", "import", "discard", "undo"}]
    /\ Allowed \subseteq Circumstances
    /\ MaxCommits \in Nat

VARIABLES
    stored,   \* objects whose bytes are in the backend
    catalog,  \* per object, its write-catalog row: none, young, old
    tombs,    \* tombstoned objects
    keep,     \* the environment's keep-set
    known,    \* trees the index of git's names has a row for
    commits,  \* the commits made: tree and ancestry
    refs,     \* per ref, the commit it names (0: no such ref)
    retained, \* commits the retained operation log names
    session,  \* per writer, its write session
    call,     \* what each writer is doing
    gc        \* what the collector is doing

objects == <<stored, catalog, tombs, keep, known>>
meta == <<commits, refs, retained, session>>
vars == <<objects, meta, call, gc>>

Names == 1 .. MaxCommits
Objects == Blobs \cup Trees \cup Names

Content(t) == {t} \cup Leaves[t]
Closure(k) == {k} \cup Content(commits[k].tree)

\* What a commit needs: its closure and its ancestors'.
Reach(k) == UNION {Closure(j) : j \in commits[k].past}

Heads == {refs[r] : r \in Refs} \ {0}

Ended == [live |-> FALSE, names |-> {}]
Idle == [kind |-> "none", step |-> "idle", ref |-> CHOOSE r \in Refs : TRUE, cur |-> 0,
         tree |-> NoTree, todo |-> {}, item |-> {}, commit |-> 0, roots |-> {}]
Asleep == [step |-> "idle", roots |-> {}, leased |-> {}, old |-> {}, todo |-> {}, swept |-> {}]

Init ==
    /\ stored = {}
    /\ catalog = [o \in Objects |-> "none"]
    /\ tombs = {}
    /\ keep = {}
    /\ known = {}
    /\ commits = <<>>
    /\ refs = [r \in Refs |-> 0]
    /\ retained = {}
    /\ session = [w \in Writers |-> Ended]
    /\ call = [w \in Writers |-> Idle]
    /\ gc = Asleep

-----------------------------------------------------------------------------
\* The databases, each with its statements

\* The backend: a file per object, written whole or not at all.
Existing(S) == S \cap stored
WriteBytes(o) == stored' = stored \cup {o}
Unlink(o) == stored' = stored \ {o}

\* Tombstones.  Which of them have expired is not told apart.
Tombstoned(S) == S \cap tombs
RecordTombs(S) == tombs' = tombs \cup S
ClearTombs(S) == tombs' = tombs \ S
PurgeTombs == \E expired \in SUBSET tombs : ClearTombs(expired)

\* The write catalog.  A row that is there stays as it is.
RecordRows(S) ==
    catalog' = [o \in Objects |-> IF o \in S /\ catalog[o] = "none" THEN "young" ELSE catalog[o]]
ForgetRows(S) == catalog' = [o \in Objects |-> IF o \in S THEN "none" ELSE catalog[o]]
AgedRows == {o \in Objects : catalog[o] = "old"}

\* The keep-set: a merge adds to it, a rebuild puts another in its place.
MergeKeep(S) == keep' = keep \cup S
ReplaceKeep(S) == keep' = S
Live(S) == S \cap keep

\* The index of what git's trees became.
Remember(S) == known' = known \cup (S \cap Trees)
ForgetNames(S) == known' = known \ S

-----------------------------------------------------------------------------
\* Circumstances

Goto(w, step) == call' = [call EXCEPT ![w].step = step]
Return(w) == call' = [call EXCEPT ![w] = Idle]

\* Content a writer has taken up that the grace period does not protect.
TakenUp(w) ==
    IF call[w].tree = NoTree \/ call[w].step \in {"begin", "offer", "end"} THEN {}
    ELSE {o \in Content(call[w].tree) \ call[w].todo : catalog[o] = "old"}

MayFail(w) == "orphan" \in Allowed \/ call[w].step = "graduate" \/ TakenUp(w) = {}

Leased == UNION {session[w].names : w \in {v \in Writers : session[v].live}}

Sweeping == gc.step \in {"plan", "bury", "delete", "forget"}
MayTakeUp(S) ==
    "reuse" \in Allowed \/ ~Sweeping \/ \A o \in S \cap stored : catalog[o] # "old"
Rebuilding == gc.step = "replace" \/ \E w \in Writers : call[w].step = "replace"
MayStayOut == "rebuild" \in Allowed \/ gc.step \notin {"leases", "plan"}

-----------------------------------------------------------------------------
\* Writes

Uncommitted(w) == call[w].tree # NoTree /\ call[w].commit = 0

\* A write starts from the ref as it is: CommitService.publish and a client
\* read it first, a git import only when it comes to move it.
AskWrite(w, kind, r, t) ==
    /\ call[w] = Idle
    /\ ~session[w].live
    /\ kind \in Does[w] \cap {"publish", "upload", "import"}
    /\ Len(commits) + Cardinality({v \in Writers : Uncommitted(v)}) < MaxCommits
    /\ call' = [call EXCEPT ![w] =
                  [Idle EXCEPT !.kind = kind, !.ref = r, !.tree = t,
                               !.cur = IF kind = "import" THEN 0 ELSE refs[r],
                               !.step = IF kind = "import" THEN "offer" ELSE "begin"]]
    /\ UNCHANGED <<objects, meta, gc>>

BeginWrite(w) ==
    /\ call[w].step = "begin"
    /\ session' = [session EXCEPT ![w] = [live |-> TRUE, names |-> {}]]
    /\ Goto(w, "offer")
    /\ UNCHANGED <<objects, commits, refs, retained, gc>>

\* Faulty variant: a tombstoned object counts as present.
MissingBytes(S) == S \ stored

\* The one existence predicate.
Missing(S) == (S \ Existing(S)) \cup Tombstoned(S)

\* What is to be put: everything, by a local build; what is missing, by a
\* client; and by an import nothing, if it is known what the tree became and
\* that is not missing itself.
Offer(w) ==
    LET q == call[w]
        all == Content(q.tree)
    IN  /\ q.step = "offer"
        /\ \E todo \in SUBSET all :
              /\ \/ q.kind = "upload" /\ todo = Missing(all)
                 \/ q.kind = "import" /\ todo = {} /\ q.tree \in known \ Missing({q.tree})
                 \/ q.kind # "upload" /\ todo = all
              /\ MayTakeUp(all \ todo)
              /\ call' = [call EXCEPT ![w].step = "put", ![w].todo = todo]
        /\ UNCHANGED <<objects, meta, gc>>

\* A put object leaves the list; a client's is then leased, and a tree that an
\* import converted is remembered.
Stored(w, o) ==
    /\ Remember(IF call[w].kind = "import" THEN {o} ELSE {})
    /\ call' = [call EXCEPT ![w].todo = @ \ {o},
                            ![w].item = IF call[w].kind = "upload" THEN {o} ELSE {},
                            ![w].step = IF call[w].kind = "upload" THEN "page" ELSE "put"]

\* put_encoded: an object that is there is not written, nor its row touched;
\* one that is not is written, and recorded next.  A tree is put last.
Put(w, o) ==
    LET q == call[w]
    IN  /\ q.step = "put"
        /\ o \in q.todo
        /\ o \in Trees => q.todo = {o}
        /\ MayTakeUp({o})
        /\ \/ /\ o \in Existing({o})
              /\ ClearTombs({o})
              /\ Stored(w, o)
              /\ stored' = stored
           \/ /\ o \notin Existing({o})
              /\ "leak" \in Allowed \/ o \notin gc.swept
              /\ WriteBytes(o)
              /\ call' = [call EXCEPT ![w].step = "record", ![w].item = {o}]
              /\ UNCHANGED <<tombs, known>>
        /\ UNCHANGED <<catalog, keep, meta, gc>>

\* ... the tombstone cleared, and the row inserted unless there is one.
Record(w) ==
    /\ call[w].step = "record"
    /\ ClearTombs(call[w].item)
    /\ RecordRows(call[w].item)
    /\ \E o \in call[w].item : Stored(w, o)
    /\ UNCHANGED <<stored, keep, meta, gc>>

\* record_uploaded of one object, put under a session.
Page(w) ==
    /\ call[w].step = "page"
    /\ session' = [session EXCEPT ![w].names = @ \cup call[w].item]
    /\ call' = [call EXCEPT ![w].item = {},
                            ![w].step = IF call[w].commit = 0 THEN "put" ELSE "move"]
    /\ UNCHANGED <<objects, commits, refs, retained, gc>>

\* The commit object.  It is new, so its put writes it.
PutCommit(w) ==
    LET q == call[w]
        k == Len(commits) + 1
    IN  /\ q.step = "put" /\ q.todo = {}
        /\ commits' = Append(commits, [tree |-> q.tree, past |-> {k} \cup
                                         IF q.cur = 0 THEN {} ELSE commits[q.cur].past])
        /\ WriteBytes(k)
        /\ RecordRows({k})
        /\ call' = [call EXCEPT ![w].commit = k,
                      ![w].item = IF q.kind = "upload" THEN {k} ELSE {},
                      ![w].step = CASE q.kind = "publish" -> "lease"
                                    [] q.kind = "upload" -> "page"
                                    [] q.kind = "import" -> "look"]
        /\ UNCHANGED <<tombs, keep, known, refs, retained, session, gc>>

\* publish records all it reaches against the session before the ref moves;
\* it reads the tree for that, and fails if it cannot.
Lease(w) ==
    /\ call[w].step = "lease"
    /\ IF call[w].tree \in stored
       THEN /\ session' = [session EXCEPT ![w].names = @ \cup Closure(call[w].commit)]
            /\ Goto(w, "move")
       ELSE Goto(w, "end") /\ session' = session
    /\ UNCHANGED <<objects, commits, refs, retained, gc>>

Look(w) ==
    /\ call[w].step = "look"
    /\ call' = [call EXCEPT ![w].cur = refs[call[w].ref], ![w].step = "move"]
    /\ UNCHANGED <<objects, meta, gc>>

\* Faulty variant: "no commit" is logged as if it were one.
MoveRefLogged(r, a, b) ==
    /\ "rebuild" \in Allowed \/ ~Rebuilding
    /\ refs' = [refs EXCEPT ![r] = b]
    /\ retained' = retained \cup {a, b}

\* The ref goes from a to b, and the log says so.
MoveRef(r, a, b) ==
    /\ "rebuild" \in Allowed \/ ~Rebuilding
    /\ refs' = [refs EXCEPT ![r] = b]
    /\ retained' = retained \cup ({a, b} \ {0})

\* create_ref or update_ref; a conflict ends the session.  The generation that
\* is compared may have changed though the target is the same again.
Move(w) ==
    LET q == call[w]
    IN  /\ q.step = "move"
        /\ \/ /\ refs[q.ref] = q.cur
              /\ q.kind = "upload" => MayStayOut
              /\ MoveRef(q.ref, q.cur, q.commit)
              /\ Goto(w, IF q.kind = "upload" THEN "end" ELSE "graduate")
           \/ /\ MayFail(w)
              /\ IF q.kind = "import" THEN Return(w) ELSE Goto(w, "end")
              /\ UNCHANGED <<refs, retained>>
        /\ UNCHANGED <<objects, commits, session, gc>>

\* The objects pass from the lease to the keep-set, and the session ends.
Graduate(w) ==
    /\ call[w].step = "graduate"
    /\ MergeKeep(IF call[w].tree \in stored THEN Closure(call[w].commit) ELSE {})
    /\ IF call[w].kind = "publish" THEN Goto(w, "end") ELSE Return(w)
    /\ UNCHANGED <<stored, catalog, tombs, known, meta, gc>>

End(w) ==
    /\ call[w].step = "end"
    /\ session' = [session EXCEPT ![w] = Ended]
    /\ Return(w)
    /\ UNCHANGED <<objects, commits, refs, retained, gc>>

\* The process dies; its session stays, until it expires.
Crash(w) ==
    /\ call[w] # Idle
    /\ MayFail(w)
    /\ call[w].step = "record" => "leak" \in Allowed
    /\ call[w].step = "graduate" /\ call[w].kind = "import" => MayStayOut
    /\ Return(w)
    /\ UNCHANGED <<objects, meta, gc>>

-----------------------------------------------------------------------------
\* Rebuilding the keep-set

\* The heads are read first and the log after them: a ref that moves in
\* between is in the log.
ReadOps(roots) == roots \cup retained

\* A commit and its content, if its tree can be read.
Read(k) == IF commits[k].tree \in stored THEN Closure(k) ELSE {k}

\* Faulty variant: the tips alone.
WalkedTips(roots) == UNION {Read(k) : k \in roots \cap stored}

\* _walk_history: from each root down, as far as the commits are there.
Walked(roots) ==
    UNION {Read(j) : j \in {i \in Names : \E k \in roots :
        i \in commits[k].past /\ \A m \in commits[k].past : m >= i => m \in stored}}

\* RefService.delete: delete the ref, and then rebuild.
AskDiscard(w, r) ==
    /\ call[w] = Idle
    /\ "discard" \in Does[w]
    /\ refs[r] # 0
    /\ call' = [call EXCEPT ![w] = [Idle EXCEPT !.kind = "discard", !.step = "drop",
                                               !.ref = r, !.cur = refs[r]]]
    /\ UNCHANGED <<objects, meta, gc>>

Discard(w) ==
    LET q == call[w]
    IN  /\ \/ /\ q.step = "drop" /\ refs[q.ref] = q.cur
              /\ MoveRef(q.ref, q.cur, 0)
              /\ Goto(w, "refs")
              /\ keep' = keep
           \/ /\ q.step = "drop"
              /\ Return(w)
              /\ UNCHANGED <<keep, refs, retained>>
           \/ /\ q.step = "refs"
              /\ call' = [call EXCEPT ![w].roots = Heads, ![w].step = "ops"]
              /\ UNCHANGED <<keep, refs, retained>>
           \/ /\ q.step = "ops"
              /\ call' = [call EXCEPT ![w].roots = ReadOps(q.roots), ![w].step = "replace"]
              /\ UNCHANGED <<keep, refs, retained>>
           \/ /\ q.step = "replace"
              /\ ReplaceKeep(Walked(q.roots))
              /\ Return(w)
              /\ UNCHANGED <<refs, retained>>
        /\ UNCHANGED <<stored, catalog, tombs, known, commits, session, gc>>

\* Undo moves a ref to a commit the retained log names, or deletes it.
Undo(w, r, k) ==
    /\ call[w] = Idle
    /\ "undo" \in Does[w]
    /\ k \in retained \cup {0} /\ k # refs[r]
    /\ MoveRef(r, refs[r], k)
    /\ UNCHANGED <<objects, commits, session, call, gc>>

-----------------------------------------------------------------------------
\* The collector

\* The command purges the tombstones that have expired and recomputes the
\* keep-set, unless it is told to skip maintenance.
Wake ==
    /\ gc.step = "idle"
    /\ \/ /\ PurgeTombs
          /\ gc' = [gc EXCEPT !.step = "refs"]
       \/ /\ "skip" \in Allowed
          /\ gc' = [gc EXCEPT !.step = "leases"]
          /\ tombs' = tombs
    /\ UNCHANGED <<stored, catalog, keep, known, meta, call>>

Refresh ==
    /\ \/ /\ gc.step = "refs"
          /\ gc' = [gc EXCEPT !.roots = Heads, !.step = "ops"]
          /\ keep' = keep
       \/ /\ gc.step = "ops"
          /\ gc' = [gc EXCEPT !.roots = ReadOps(gc.roots), !.step = "replace"]
          /\ keep' = keep
       \/ /\ gc.step = "replace"
          /\ ReplaceKeep(Walked(gc.roots))
          /\ gc' = [gc EXCEPT !.roots = {}, !.step = "leases"]
    /\ UNCHANGED <<stored, catalog, tombs, known, meta, call>>

\* plan: the clock and the leases first ...
ReadLeases ==
    /\ gc.step = "leases"
    /\ "reuse" \in Allowed \/ \A w \in Writers : TakenUp(w) \subseteq Leased \cup keep
    /\ gc' = [gc EXCEPT !.old = AgedRows,
                        !.leased = Leased,
                        !.step = "plan"]
    /\ UNCHANGED <<objects, meta, call>>

Candidates == gc.old \ (Live(gc.old) \cup gc.leased)

\* ... and then the keep-set and the catalog.
Plan ==
    /\ gc.step = "plan"
    /\ gc' = IF Candidates = {} THEN Asleep
             ELSE [Asleep EXCEPT !.todo = Candidates, !.swept = Candidates, !.step = "bury"]
    /\ UNCHANGED <<objects, meta, call>>

Bury ==
    /\ gc.step = "bury"
    /\ RecordTombs(gc.swept)
    /\ gc' = [gc EXCEPT !.step = "delete"]
    /\ UNCHANGED <<stored, catalog, keep, known, meta, call>>

\* The backend deletes one key after another.
Delete(o) ==
    /\ gc.step = "delete"
    /\ o \in gc.todo
    /\ Unlink(o)
    /\ gc' = [gc EXCEPT !.todo = @ \ {o},
                        !.step = IF gc.todo = {o} THEN "forget" ELSE "delete"]
    /\ UNCHANGED <<catalog, tombs, keep, known, meta, call>>

Forget ==
    /\ gc.step = "forget"
    /\ ForgetRows(gc.swept)
    /\ ForgetNames(gc.swept)
    /\ gc' = Asleep
    /\ UNCHANGED <<stored, tombs, keep, meta, call>>

Die ==
    /\ gc.step # "idle"
    /\ "stump" \in Allowed \/ gc.todo = gc.swept
    /\ gc' = Asleep
    /\ UNCHANGED <<objects, meta, call>>

-----------------------------------------------------------------------------
\* Time.  A lease outlasts its call, the grace period any lease and any cycle
\* of the collector, and the log's retention the grace period.

InUse(o) == \E w \in Writers : call[w].tree # NoTree
                /\ o \in Content(call[w].tree) \cup {call[w].commit}

Age(o) ==
    /\ catalog[o] = "young"
    /\ ~InUse(o) /\ o \notin Leased /\ gc.step = "idle"
    /\ "orphan" \in Allowed \/ \A t \in Trees \ keep : catalog[t] = "young" => o \notin Leaves[t]
    /\ catalog' = [catalog EXCEPT ![o] = "old"]
    /\ UNCHANGED <<stored, tombs, keep, known, meta, call, gc>>

AgeOp(k) ==
    /\ k \in retained
    /\ \A o \in Closure(k) : catalog[o] # "young" /\ \A w \in Writers : o \notin call[w].item
    /\ ~InUse(k) /\ gc.step = "idle"
    /\ \A w \in Writers : call[w].step \notin {"refs", "ops", "replace"}
    /\ retained' = retained \ {k}
    /\ UNCHANGED <<objects, commits, refs, session, call, gc>>

Expire(w) ==
    /\ session[w].live
    /\ call[w] = Idle /\ gc.step = "idle"
    /\ session' = [session EXCEPT ![w].live = FALSE]
    /\ UNCHANGED <<objects, commits, refs, retained, call, gc>>

-----------------------------------------------------------------------------

Write(w) ==
    \/ BeginWrite(w) \/ Offer(w) \/ \E o \in Objects : Put(w, o)
    \/ Record(w) \/ Page(w) \/ PutCommit(w) \/ Lease(w)
    \/ Look(w) \/ Move(w) \/ Graduate(w) \/ End(w)

Collect == Wake \/ Refresh \/ ReadLeases \/ Plan \/ Bury \/ (\E o \in Objects : Delete(o)) \/ Forget

Next ==
    \/ \E w \in Writers :
          \/ \E kind \in Does[w], r \in Refs, t \in Trees : AskWrite(w, kind, r, t)
          \/ Write(w)
          \/ \E r \in Refs : AskDiscard(w, r) \/ \E k \in Names \cup {0} : Undo(w, r, k)
          \/ Discard(w) \/ Crash(w) \/ Expire(w)
    \/ Collect \/ Die
    \/ \E o \in Objects : Age(o)
    \/ \E k \in Names : AgeOp(k)

Spec == Init /\ [][Next]_vars

-----------------------------------------------------------------------------
\* Properties

\* The shape of the databases: the keep-set, the leases and the tombstones
\* are sets of objects, and commits refer to earlier commits only.
TypeOK ==
    /\ stored \subseteq Objects
    /\ catalog \in [Objects -> {"none", "young", "old"}]
    /\ tombs \subseteq Objects /\ keep \subseteq Objects /\ known \subseteq Trees
    /\ \A k \in DOMAIN commits : commits[k].tree \in Trees /\ commits[k].past \subseteq 1 .. k
    /\ refs \in [Refs -> 0 .. Len(commits)]
    /\ retained \subseteq DOMAIN commits
    /\ \A w \in Writers : session[w].names \subseteq Objects /\ call[w].todo \subseteq Objects
    /\ gc.swept \subseteq Objects

\* Nothing in use is ever deleted: every ref, and every commit undo may still
\* restore, has its history and all its content in the store.
RootsIntact == \A k \in Heads \cup retained : Reach(k) \subseteq stored

\* What the existence predicate calls present is whole: a tree that
\* deduplication would hand back has its blobs.
PresentIsWhole == \A t \in Trees \ Missing(Trees) : Leaves[t] \subseteq stored

\* The databases of the store fit together between the steps of a sweep and of
\* a write.
CollectorInv == TypeOK /\ PresentIsWhole
=============================================================================
