----------------------------- MODULE JjBackend -----------------------------
(***************************************************************************)
(* jj over one environment: the backend that jj loads (jj-backend/src) and *)
(* the endpoints it calls (api/jj.py).  jj writes one object a request, up *)
(* to several at once, and holds no lease: what a request has stored is    *)
(* put in the environment's keep-set, and only what is in it is shown.     *)
(* Refs are moved through the ordinary endpoint.                           *)
(*                                                                         *)
(* An object's name stands for its content, so that here it is its         *)
(* content.  A day passing is one step; the steps of a collection and of a *)
(* local commit are in Collector.                                          *)
(*                                                                         *)
(* Abstracted: a file is one chunk, a directory one node; the description  *)
(* and the change id, which pass through; what is refused for what it is,  *)
(* a submodule or a signature.                                             *)
(***************************************************************************)
EXTENDS Naturals, Sequences, FiniteSets

CONSTANTS
    Texts,        \* contents of files
    EmptyText,    \* the one without bytes
    TextLength,   \* per text, its size
    EntryNames,   \* names in a directory
    Signatures,   \* of authors and committers: name, email, millis, tz
    RootId,       \* jj's root commit, which no store holds
    Nothing,      \* no ref
    Slots,        \* requests jj may have under way
    LocalMicros,  \* when a local commit is made
    MaxJjWrites, MaxJjLosses, MaxUpkeeps   \* bounds

VARIABLES
    corpus,    \* objects stored
    aged,      \* those past the grace period
    keepset,   \* the environment's keep-set
    head,      \* the commit the ref names
    logged,    \* commits in the operation log
    requests,  \* per slot, the write under way
    told,      \* what jj was answered: ids and what they stand for
    upkeep,    \* the collection under way
    fresh,     \* history: ids jj was answered that nothing known may take
    safe,      \* history: commits that the last rebuild found whole
    jjCount    \* how often each thing bounded has happened

jjVars == <<corpus, aged, keepset, head, logged, requests, told, upkeep, fresh, safe, jjCount>>

ASSUME JjAssumption == EmptyText \in Texts => TextLength[EmptyText] = 0

Waiting == [step |-> "idle"]
NoUpkeep == [step |-> "idle", reach |-> {}, whole |-> {}, todo |-> {}]

JjInit ==
    /\ corpus = {} /\ aged = {} /\ keepset = {} /\ told = {} /\ fresh = {} /\ safe = {}
    /\ head = Nothing /\ logged = {}
    /\ requests = [q \in Slots |-> Waiting]
    /\ upkeep = NoUpkeep
    /\ jjCount = [writes |-> 0, losses |-> 0, upkeeps |-> 0]

-----------------------------------------------------------------------------
\* Objects

Piece(f) == [type |-> "chunk", text |-> f]
Pieces(f) == IF f = EmptyText THEN {} ELSE {Piece(f)}
FileOf(f) == [type |-> "blob", text |-> f]
TreeOf(entries) == [type |-> "tree", entries |-> entries]

Kind(o) == o.type

RECURSIVE TreeClosure(_)
TreeClosure(t) ==
    {t} \cup UNION {IF e.kind = "tree" THEN TreeClosure(e.target)
                    ELSE {e.target} \cup Pieces(e.target.text) : e \in t.entries}

\* tree_closure: chunks are recorded, never fetched; anything else has to be there.
Closing(t) ==
    LET all == TreeClosure(t)
    IN  IF {o \in all : Kind(o) # "chunk"} \subseteq corpus THEN all ELSE {}

\* The commits a walk from c comes by: it ends at those that are not there.
RECURSIVE Ancestry(_)
Ancestry(c) ==
    IF c = RootId \/ c \notin corpus THEN {}
    ELSE {c} \cup UNION {Ancestry(c.parents[i]) : i \in DOMAIN c.parents}

-----------------------------------------------------------------------------
\* Conversions.  A value of jj's: a file's text; a directory, from names to
\* kind, id and, of a file, whether it is executable; a commit.

\* from_tree_value, and _tree_entry, which looks a file's size up.
Entry(name, v) ==
    [name |-> name, kind |-> v.kind, target |-> v.id,
     mode |-> IF v.kind # "file" THEN "none" ELSE IF v.executable THEN "exec" ELSE "regular",
     size |-> IF v.kind = "tree" THEN 0 ELSE TextLength[v.id.text]]
EncodedTree(d) == TreeOf({Entry(n, d[n]) : n \in DOMAIN d})

\* Faulty variant: an executable file comes back as any other.
ListedPlain(t) ==
    [n \in {e.name : e \in t.entries} |->
        LET e == CHOOSE e \in t.entries : e.name = n
        IN  [kind |-> e.kind, id |-> e.target, executable |-> FALSE]]

\* read_tree, and to_tree_value.
Listed(t) ==
    [n \in {e.name : e \in t.entries} |->
        LET e == CHOOSE e \in t.entries : e.name = n
        IN  [kind |-> e.kind, id |-> e.target, executable |-> e.kind = "file" /\ e.mode = "exec"]]

\* Ledger's one author string.
Rendered(s) == [name |-> s.name, email |-> s.email]

\* write_commit: what Ledger's commit has no room for rides in the metadata.
EncodedCommit(c) ==
    [type |-> "commit", tree |-> c.tree[1], parents |-> c.parents,
     author |-> Rendered(c.author), committer |-> Rendered(c.committer),
     micros |-> c.committer.millis * 1000,
     metadata |-> [author |-> <<c.author>>, committer |-> <<c.committer>>,
                   predecessors |-> c.predecessors]]

\* Faulty variant: the missing parts are always made up.
SignatureSynthesized(recorded, fallback, micros) ==
    [name |-> fallback.name, email |-> fallback.email, millis |-> micros \div 1000, tz |-> 0]

\* _read_signature: as recorded, or made up from what Ledger has.
Signature(recorded, fallback, micros) ==
    IF recorded # <<>> THEN recorded[1]
    ELSE [name |-> fallback.name, email |-> fallback.email, millis |-> micros \div 1000, tz |-> 0]

\* _commit_body, and to_commit.
Decoded(o) ==
    [tree |-> <<o.tree>>, parents |-> o.parents, predecessors |-> o.metadata.predecessors,
     author |-> Signature(o.metadata.author, o.author, o.micros),
     committer |-> Signature(o.metadata.committer, o.committer, o.micros)]

Meaning(o) ==
    CASE Kind(o) = "blob" -> o.text
      [] Kind(o) = "tree" -> Listed(o)
      [] Kind(o) = "commit" -> Decoded(o)

-----------------------------------------------------------------------------
\* jj writes

Ids(kind) == {a.id : a \in {b \in told : Kind(b.id) = kind}}

\* What jj makes of what it was told.
Directories ==
    LET values == {[kind |-> "tree", id |-> t, executable |-> FALSE] : t \in Ids("tree")} \cup
                  {[kind |-> "symlink", id |-> f, executable |-> FALSE] : f \in Ids("blob")} \cup
                  {[kind |-> "file", id |-> f, executable |-> x] : f \in Ids("blob"), x \in BOOLEAN}
    IN  UNION {[S -> values] : S \in SUBSET EntryNames}
JjCommits ==
    [tree : {<<t>> : t \in Ids("tree")} \cup {<<t, t>> : t \in Ids("tree")},
     parents : {<<p>> : p \in {RootId} \cup Ids("commit")},
     predecessors : {<<>>} \cup {<<p>> : p \in Ids("commit")},
     author : Signatures, committer : Signatures]

StartWrite(q, id, value, puts) ==
    /\ requests[q] = Waiting
    /\ jjCount.writes < MaxJjWrites /\ jjCount' = [jjCount EXCEPT !.writes = @ + 1]
    /\ requests' = [requests EXCEPT ![q] = [step |-> "put", id |-> id, value |-> value, todo |-> puts]]
    /\ UNCHANGED <<corpus, aged, keepset, head, logged, told, upkeep, fresh, safe>>

\* ingest_bytes: the chunk, and then the blob over it.  A symlink's target is
\* a file like any other.
WriteFile(q, f) ==
    StartWrite(q, FileOf(f), f, IF f = EmptyText THEN <<FileOf(f)>> ELSE <<Piece(f), FileOf(f)>>)

\* /info: jj learns the name of the empty directory, which is stored, and not
\* put in the keep-set.
Connect ==
    LET empty == TreeOf({})
    IN  /\ jjCount.writes < MaxJjWrites /\ jjCount' = [jjCount EXCEPT !.writes = @ + 1]
        /\ corpus' = corpus \cup {empty}
        /\ told' = told \cup {[id |-> empty, value |-> Listed(empty)]}
        /\ UNCHANGED <<aged, keepset, head, logged, requests, upkeep, fresh, safe>>

\* A file that is not there has no size; a directory is not looked at.
WriteTree(q, d) ==
    /\ {d[n].id : n \in {m \in DOMAIN d : d[m].kind # "tree"}} \subseteq corpus
    /\ StartWrite(q, EncodedTree(d), d, <<EncodedTree(d)>>)

\* A conflicted tree is refused; that tree and parents are there is not asked.
WriteCommit(q, c) ==
    /\ Len(c.tree) = 1
    /\ StartWrite(q, EncodedCommit(c), c, <<EncodedCommit(c)>>)

\* put_encoded: an object that is there keeps its age.
PutPart(q) ==
    LET r == requests[q]
    IN  /\ r.step = "put"
        /\ corpus' = corpus \cup {Head(r.todo)}
        /\ requests' = [requests EXCEPT ![q].todo = Tail(@),
                                        ![q].step = IF Len(r.todo) = 1 THEN "retain" ELSE "put"]
        /\ UNCHANGED <<aged, keepset, head, logged, told, upkeep, fresh, safe, jjCount>>

Lose == jjCount.losses < MaxJjLosses /\ jjCount' = [jjCount EXCEPT !.losses = @ + 1]

\* The answer reaches jj, or is lost.  That the object still is in the store,
\* and in no sweep's list, is not asked.
Reply(q) ==
    /\ requests' = [requests EXCEPT ![q] = Waiting]
    /\ \/ /\ told' = told \cup {[id |-> requests[q].id, value |-> requests[q].value]}
          /\ fresh' = fresh \cup ({requests[q].id} \cap (corpus \ upkeep.todo))
          /\ jjCount' = jjCount
       \/ Lose /\ UNCHANGED <<told, fresh>>

\* Faulty variant: the keep-set is replaced, where it should be added to.
RetainReplacing(q) ==
    /\ requests[q].step = "retain"
    /\ keepset' = {requests[q].id}
    /\ Reply(q)
    /\ UNCHANGED <<corpus, aged, head, logged, upkeep, safe>>

\* _retain: of a file the blob alone.
Retain(q) ==
    /\ requests[q].step = "retain"
    /\ keepset' = keepset \cup {requests[q].id}
    /\ Reply(q)
    /\ UNCHANGED <<corpus, aged, head, logged, upkeep, safe>>

\* The service dies, or jj gives the request up before it is served.
DropRequest(q) ==
    /\ requests[q] # Waiting
    /\ requests' = [requests EXCEPT ![q] = Waiting]
    /\ Lose
    /\ UNCHANGED <<corpus, aged, keepset, head, logged, told, upkeep, fresh, safe>>

\* read_commit and read_tree of what the ref names, if it is shown and there.
Fetch ==
    /\ head # Nothing
    /\ {head, head.tree} \subseteq keepset \cap corpus
    /\ told' = told \cup {[id |-> o, value |-> Meaning(o)] : o \in {head, head.tree}}
    /\ UNCHANGED <<corpus, aged, keepset, head, logged, requests, upkeep, fresh, safe, jjCount>>

\* The ref is moved to a commit of jj's; whether it is there is not asked.
Push(c) ==
    /\ c \in Ids("commit") \ {head}
    /\ head' = c
    /\ logged' = logged \cup ({c, head} \ {Nothing})
    /\ UNCHANGED <<corpus, aged, keepset, requests, told, upkeep, fresh, safe, jjCount>>

-----------------------------------------------------------------------------
\* The rest of the system

\* A local commit of a directory with one file: no parts of it are jj's.
CommitLocally(f, n, mode, s) ==
    LET t == TreeOf({[name |-> n, kind |-> "file", target |-> FileOf(f), mode |-> mode,
                      size |-> TextLength[f]]})
        c == [type |-> "commit", tree |-> t, parents |-> IF head = Nothing THEN <<>> ELSE <<head>>,
              author |-> Rendered(s), committer |-> Rendered(s), micros |-> LocalMicros,
              metadata |-> [author |-> <<>>, committer |-> <<>>, predecessors |-> <<>>]]
        all == {c} \cup TreeClosure(t)
    IN  /\ jjCount.writes < MaxJjWrites /\ jjCount' = [jjCount EXCEPT !.writes = @ + 1]
        /\ corpus' = corpus \cup all /\ keepset' = keepset \cup all
        /\ head' = c /\ logged' = logged \cup ({c, head} \ {Nothing})
        /\ UNCHANGED <<aged, requests, told, upkeep, fresh, safe>>

\* Requests are over in less than the grace period, and so are collections.
Day ==
    /\ \A q \in Slots : requests[q] = Waiting
    /\ upkeep = NoUpkeep
    /\ aged' = corpus
    /\ UNCHANGED <<corpus, keepset, head, logged, requests, told, upkeep, fresh, safe, jjCount>>

Whole(c) == Ancestry(c) # {} /\ \A a \in Ancestry(c) : TreeClosure(a.tree) \subseteq corpus

\* Faulty variant: a walk that misses a commit leaves the keep-set as it is.
RebuiltOrLeft(roots) ==
    LET commits == UNION {Ancestry(c) : c \in roots}
        ends == UNION {{c.parents[i] : i \in DOMAIN c.parents} : c \in commits}
    IN  IF ends \subseteq corpus THEN commits \cup UNION {Closing(c.tree) : c \in commits} ELSE keepset

\* rebuild_keep_set, which passes over commits and trees that cannot be read.
Rebuilt(roots) ==
    LET commits == UNION {Ancestry(c) : c \in roots}
    IN  commits \cup UNION {Closing(c.tree) : c \in commits}

StartUpkeep ==
    /\ upkeep = NoUpkeep
    /\ jjCount.upkeeps < MaxUpkeeps /\ jjCount' = [jjCount EXCEPT !.upkeeps = @ + 1]
    /\ LET roots == ({head} \ {Nothing}) \cup logged
       IN  \/ upkeep' = [NoUpkeep EXCEPT !.step = "replace", !.reach = Rebuilt(roots),
                                         !.whole = {c \in roots : Whole(c)}]
           \/ upkeep' = [NoUpkeep EXCEPT !.step = "plan"]   \* told to skip maintenance
    /\ UNCHANGED <<corpus, aged, keepset, head, logged, requests, told, fresh, safe>>

ReplaceKeepSet ==
    /\ upkeep.step = "replace"
    /\ keepset' = upkeep.reach /\ fresh' = fresh \cap upkeep.reach /\ safe' = upkeep.whole
    /\ upkeep' = [NoUpkeep EXCEPT !.step = "plan"]
    /\ UNCHANGED <<corpus, aged, head, logged, requests, told, jjCount>>

PlanSweep ==
    /\ upkeep.step = "plan"
    /\ upkeep' = [NoUpkeep EXCEPT !.step = "sweep", !.todo = aged \ keepset]
    /\ UNCHANGED <<corpus, aged, keepset, head, logged, requests, told, fresh, safe, jjCount>>

\* Faulty variant: the rows of what is deleted stay.
SweepBytesOnly ==
    /\ upkeep.step = "sweep"
    /\ corpus' = corpus \ upkeep.todo /\ aged' = aged
    /\ upkeep' = NoUpkeep
    /\ UNCHANGED <<keepset, head, logged, requests, told, fresh, safe, jjCount>>

Sweep ==
    /\ upkeep.step = "sweep"
    /\ corpus' = corpus \ upkeep.todo /\ aged' = aged \ upkeep.todo
    /\ upkeep' = NoUpkeep
    /\ UNCHANGED <<keepset, head, logged, requests, told, fresh, safe, jjCount>>

JjNext ==
    \/ \E q \in Slots :
          \/ \E f \in Texts : WriteFile(q, f)
          \/ \E d \in Directories : WriteTree(q, d)
          \/ \E c \in JjCommits : WriteCommit(q, c)
          \/ PutPart(q) \/ Retain(q) \/ DropRequest(q)
    \/ Connect \/ Fetch
    \/ \E c \in Ids("commit") : Push(c)
    \/ \E f \in Texts, n \in EntryNames, mode \in {"exec", "regular"}, s \in Signatures :
          CommitLocally(f, n, mode, s)
    \/ Day \/ StartUpkeep \/ ReplaceKeepSet \/ PlanSweep \/ Sweep

JjSpec == JjInit /\ [][JjNext]_jjVars

-----------------------------------------------------------------------------
\* Properties

\* The shape of the state: what is aged is stored, what is told has a meaning.
JjTypeOK ==
    /\ aged \subseteq corpus
    /\ \A o \in corpus : Kind(o) \in {"chunk", "blob", "tree", "commit"}
    /\ \A q \in Slots : requests[q].step \in {"idle", "put", "retain"}
    /\ head # Nothing => head \in logged

\* An object jj was answered with is stored and shown, whatever other requests
\* and collections do at the same time; but a rebuild drops what no ref reached
\* when it walked, and a sweep takes what it listed before the request retained
\* it.  Of a file this is the blob, and not its bytes.
AnsweredIsThere == fresh \subseteq keepset \cap corpus

\* jj gets back exactly what it wrote.
WrittenComesBack == \A a \in told : Meaning(a.id) = a.value

\* A directory that jj reads and writes back unchanged, whoever made it, keeps
\* its name.
SameDirectorySameName == \A t \in {o \in corpus : Kind(o) = "tree"} : EncodedTree(Listed(t)) = t

\* A commit that a ref, or the log, named and that was whole when the latest
\* rebuild walked stays whole in the sweeps after, though the history of what
\* jj wrote ends in a parent that no store holds.
WalkedSurvives == \A c \in safe : Whole(c)

\* "collection protects it": the commit a ref names is not made less than whole.
CollectionProtects == [][head # Nothing /\ head' = head /\ Whole(head) => Whole(head)']_jjVars

\* "the collector could take it mid-write" without the keep-set: with it, what
\* jj is answered with is in the store.
AnsweredIsStored == [][\A a \in told' \ told : a.id \in corpus']_jjVars

\* "anything readable here is by construction something collection will not
\* take": what is shown has all its parts, if it ever had.
ShownIsWhole == \A o \in keepset \cap corpus : Kind(o) = "blob" => Pieces(o.text) \subseteq corpus

\* "The commit remains an ordinary Ledger commit: `ledger log` reads it": the
\* walk from a ref along first parents comes to its end.
LogReadsIt ==
    head # Nothing /\ Whole(head) =>
        \A c \in Ancestry(head) : c.parents = <<>> \/ c.parents[1] \in corpus

\* What holds for jj between its requests.  Answered objects stay there, save
\* for a rebuild that did not reach them and a sweep that had them listed; what
\* a rebuild reached whole stays whole; and nothing is lost between jj's values
\* and Ledger's objects, either way.
JjInv ==
    /\ JjTypeOK /\ AnsweredIsThere /\ WalkedSurvives
    /\ WrittenComesBack /\ SameDirectorySameName
=============================================================================
