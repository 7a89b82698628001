----------------------------- MODULE GitImport ------------------------------
(***************************************************************************)
(* Converting a git repository (src/src/migrate/from_git.py): commits      *)
(* oldest first, each with its tree, whose parts are looked up by their    *)
(* git names before they are converted and remembered once they are; a     *)
(* refusal, or a list, of what cannot be converted; one ref update at the  *)
(* end, and the keep-set after it.  Imports run beside each other, die     *)
(* anywhere and are run again, and what nothing keeps is collected.        *)
(*                                                                         *)
(* An object's name is its content, so an object stands for its name.      *)
(*                                                                         *)
(* Abstracted: bytes, sizes, counters, authors, times and messages; the    *)
(* order of a tree's entries, which is by name.  Sweeps run while no       *)
(* import does: what they do beside imports is Collector's.                *)
(***************************************************************************)
EXTENDS Naturals, Sequences, FiniteSets, SequencesExt

CONSTANTS
    Trees, Blobs, Commits,  \* the objects of a git repository
    Listing,     \* per tree, its items, in git's order
    Pointers,    \* blobs that are LFS pointers
    RootOf,      \* per commit, its tree
    ParentsOf,   \* per commit, its parents
    RevList,     \* per commit, what git rev-list says of it, newest first
    Quoted,      \* per name, how git ls-tree prints it
    Importers,
    Skips,       \* the importers made to skip what is unsupported
    Mortal,      \* the importers that may die
    Requests,    \* what they are asked for: a commit, and at most how many
    NoObject,     \* no object, no ref
    Refreshing,  \* of BOOLEAN: whether collections recompute the keep-set first
    MaxImports, MaxSwept  \* bounds: imports begun, objects swept

ItemModes == {"file", "exec", "symlink", "directory", "submodule"}
Shas == Trees \cup Blobs \cup Commits

\* What is asked of git: parents come before children, and the tip is last.
ASSUME GitAssumption ==
    /\ \A t \in Trees : \A n \in DOMAIN Listing[t] :
          /\ Listing[t][n].mode \in ItemModes
          /\ Listing[t][n].mode = "directory" => Listing[t][n].sha \in Trees
          /\ Listing[t][n].mode \in {"file", "exec", "symlink"} => Listing[t][n].sha \in Blobs
    /\ Pointers \subseteq Blobs /\ Skips \subseteq Importers /\ Mortal \subseteq Importers
    /\ \A c \in Commits :
          /\ c = Head(RevList[c])
          /\ \A n \in DOMAIN RevList[c] : \A p \in ToSet(ParentsOf[RevList[c][n]]) :
                \E m \in DOMAIN RevList[c] : m > n /\ RevList[c][m] = p
    /\ \A r \in Requests : r.from \in Commits /\ r.limit \in Nat
    /\ \A n, m \in DOMAIN Quoted : Quoted[n] = Quoted[m] => n = m

VARIABLES
    stored,   \* the object store
    index,    \* per git object, the object it became, as far as is remembered
    ref,      \* where imports publish: NoObject, or a head and a generation
    job,     \* per importer, what it is doing
    keepset,  \* the environment's keep-set
    log,      \* the heads published, each with what was asked for and reported
    torn,     \* history: trees from under which a collection took something
    held,     \* history: heads that were whole when a collection recomputed
    begun, swept

importVars == <<stored, index, ref, job, keepset, log, torn, held, begun, swept>>

Idle == [step |-> "idle", request |-> NoObject, left |-> <<>>, translated |-> <<>>,
         stack |-> <<>>, at |-> NoObject, made |-> NoObject, report |-> {}, expected |-> NoObject]

ImportInit ==
    /\ stored = {}
    /\ index = [s \in Shas |-> NoObject]
    /\ ref = NoObject
    /\ job = [i \in Importers |-> Idle]
    /\ keepset = {} /\ log = {}
    /\ torn = {} /\ held = {} /\ begun = 0 /\ swept = 0

-----------------------------------------------------------------------------
\* Objects

BlobOf(b) == [kind |-> "blob", of |-> b]

Entry(item, object) ==
    [name |-> Quoted[item.name], mode |-> item.mode, object |-> object]

TreeObject(entries) == [kind |-> "tree", entries |-> entries]

CommitObject(c, tree, parents) ==
    [kind |-> "commit", sha |-> c, tree |-> tree, parents |-> parents]

RECURSIVE Reached(_)
Reached(o) ==
    {o} \cup (IF o.kind = "tree" THEN UNION {Reached(e.object) : e \in o.entries} ELSE {})

\* commit_closure: the commit and what its tree reaches, and no other commit.
CommitClosure(o) == {o} \cup Reached(o.tree)

\* What an object cannot do without.
Parts(o) == IF o.kind = "commit" THEN CommitClosure(o) ELSE Reached(o)

RECURSIVE History(_)
History(o) == CommitClosure(o) \cup UNION {History(p) : p \in ToSet(o.parents)}

-----------------------------------------------------------------------------
\* Helpers of the importer

\* Faulty variant: the row is taken for the object.
RecalledUnconfirmed(s) == index[s]

\* _recall: a hint, confirmed against the store.
Recalled(s) == IF index[s] \in stored THEN index[s] ELSE NoObject

Works(i, w) == job' = [job EXCEPT ![i] = w]

Top(w) == Last(w.stack)
ItemAt(w) == Head(Top(w).left)
Path(w) == Append(Top(w).path, Quoted[ItemAt(w).name])

\* The item at hand has been dealt with: object is what it became, if anything.
Passed(w, object) ==
    LET f == Top(w)
        g == [f EXCEPT !.left = Tail(@),
                       !.entries = IF object = NoObject THEN @
                                   ELSE @ \cup {Entry(ItemAt(w), object)}]
    IN  [w EXCEPT !.stack = Append(Front(@), g), !.step = "entries"]

\* The tree at hand has become an object.
Returned(w, object) ==
    IF w.stack = <<>> THEN [w EXCEPT !.step = "commit", !.made = object]
    ELSE Passed(w, object)

-----------------------------------------------------------------------------
\* import_repository

\* rev_list, cut to the newest and turned round.
Taken(request) ==
    Reverse(SubSeq(RevList[request.from], 1,
                   IF request.limit < Len(RevList[request.from]) THEN request.limit
                   ELSE Len(RevList[request.from])))

\* A ref that names no commits is refused.
BeginImport(i, request) ==
    /\ job[i].step = "idle" /\ begun < MaxImports
    /\ Taken(request) # <<>>
    /\ Works(i, [Idle EXCEPT !.step = "next", !.request = request, !.left = Taken(request)])
    /\ begun' = begun + 1
    /\ UNCHANGED <<stored, index, ref, keepset, log, torn, held, swept>>

ReadCommit(i) ==
    /\ job[i].step = "next" /\ job[i].left # <<>>
    /\ Works(i, [job[i] EXCEPT !.step = "tree",
                                !.at = [sha |-> RootOf[Head(job[i].left)], path |-> <<>>]])
    /\ UNCHANGED <<stored, index, ref, keepset, log, torn, held, begun, swept>>

\* _convert_tree: recalled, or listed.
ReadTree(i) ==
    LET w == job[i]
        known == Recalled(w.at.sha)
        frame == [tree |-> w.at.sha, path |-> w.at.path, left |-> Listing[w.at.sha], entries |-> {}]
    IN  /\ w.step = "tree"
        /\ Works(i, IF known # NoObject THEN Returned(w, known)
                    ELSE [w EXCEPT !.step = "entries", !.stack = Append(@, frame)])
        /\ UNCHANGED <<stored, index, ref, keepset, log, torn, held, begun, swept>>

\* _refuse: the import stops, or goes on with a longer list, which its caller
\* sees when the import has ended.
RefuseItem(i) ==
    LET w == job[i]
    IN  Works(i, IF i \in Skips THEN [Passed(w, NoObject) EXCEPT !.report = @ \cup {Path(w)}] ELSE Idle)

\* _convert_entry
ConvertEntry(i) ==
    LET w == job[i]
        item == ItemAt(w)
    IN  /\ w.step = "entries" /\ Top(w).left # <<>>
        /\ \/ item.mode = "submodule" /\ RefuseItem(i) /\ stored' = stored
           \/ /\ item.mode = "directory"
              /\ Works(i, [w EXCEPT !.step = "tree", !.at = [sha |-> item.sha, path |-> Path(w)]])
              /\ stored' = stored
           \/ /\ item.mode \in {"file", "exec", "symlink"} /\ Recalled(item.sha) # NoObject
              /\ Works(i, Passed(w, Recalled(item.sha)))
              /\ stored' = stored
           \/ /\ item.mode \in {"file", "exec", "symlink"} /\ Recalled(item.sha) = NoObject
              /\ IF item.sha \in Pointers THEN RefuseItem(i) /\ stored' = stored
                 ELSE /\ stored' = stored \cup {BlobOf(item.sha)}
                      /\ Works(i, [w EXCEPT !.step = "blob made", !.made = BlobOf(item.sha)])
        /\ UNCHANGED <<index, ref, keepset, log, torn, held, begun, swept>>

MakeTree(i) ==
    LET o == TreeObject(Top(job[i]).entries)
    IN  /\ job[i].step = "entries" /\ Top(job[i]).left = <<>>
        /\ stored' = stored \cup {o}
        /\ Works(i, [job[i] EXCEPT !.step = "tree made", !.made = o])
        /\ UNCHANGED <<index, ref, keepset, log, torn, held, begun, swept>>

\* Faulty variant: a parent that was ever imported is a parent.
ParentsRecalled(w) ==
    LET ps == SelectSeq(ParentsOf[Head(w.left)], LAMBDA p : Recalled(p) # NoObject)
    IN  [n \in DOMAIN ps |-> Recalled(ps[n])]

\* The parents this import has translated: there may be a limit.
Parents(w) ==
    LET ps == SelectSeq(ParentsOf[Head(w.left)], LAMBDA p : p \in DOMAIN w.translated)
    IN  [n \in DOMAIN ps |-> w.translated[ps[n]]]

\* _convert_commit, once its tree is there.
PutCommit(i) ==
    LET w == job[i]
        o == CommitObject(Head(w.left), w.made, Parents(w))
    IN  /\ w.step = "commit"
        /\ stored' = stored \cup {o}
        /\ Works(i, [w EXCEPT !.step = "commit made", !.made = o])
        /\ UNCHANGED <<index, ref, keepset, log, torn, held, begun, swept>>

\* _remember: what was made is found by its git name from now on.
Remember(i) ==
    LET w == job[i]
        c == Head(w.left)
        row(s) == index' = [index EXCEPT ![s] = w.made]
    IN  /\ \/ /\ w.step = "blob made" /\ row(ItemAt(w).sha)
              /\ Works(i, Passed(w, w.made))
           \/ /\ w.step = "tree made" /\ row(Top(w).tree)
              /\ Works(i, Returned([w EXCEPT !.stack = Front(@)], w.made))
           \/ /\ w.step = "commit made" /\ row(c)
              /\ Works(i, [w EXCEPT !.step = "next", !.left = Tail(@),
                                    !.translated = [s \in DOMAIN @ \cup {c} |->
                                        IF s = c THEN w.made ELSE @[s]]])
        /\ UNCHANGED <<stored, ref, keepset, log, torn, held, begun, swept>>

\* _publish: the ref is read, and then created or moved from what was read.
Look(i) ==
    /\ job[i].step = "next" /\ job[i].left = <<>>
    /\ Works(i, [job[i] EXCEPT !.step = "publish", !.expected = ref])
    /\ UNCHANGED <<stored, index, ref, keepset, log, torn, held, begun, swept>>

PublishHead(i) ==
    LET w == job[i]
    IN  /\ w.step = "publish"
        /\ IF ref = w.expected
           THEN /\ ref' = [head |-> w.made,
                           generation |-> IF ref = NoObject THEN 1 ELSE ref.generation + 1]
                /\ log' = log \cup {[head |-> w.made, request |-> w.request, report |-> w.report]}
                /\ Works(i, [w EXCEPT !.step = "graduate"])
           ELSE Works(i, Idle) /\ UNCHANGED <<ref, log>>
        /\ UNCHANGED <<stored, index, keepset, torn, held, begun, swept>>

\* What the head reaches is kept: its history is not asked for.  Where the
\* closure cannot be read the import ends in an error, published.
Graduate(i) ==
    LET closure == CommitClosure(job[i].made)
    IN
    /\ job[i].step = "graduate"
    /\ keepset' = keepset \cup (IF closure \subseteq stored THEN closure ELSE {})
    /\ Works(i, Idle)
    /\ UNCHANGED <<stored, index, ref, log, torn, held, begun, swept>>

-----------------------------------------------------------------------------
\* What else happens

\* The process dies: what was stored and remembered stays.
Interrupt(i) ==
    /\ i \in Mortal /\ job[i].step # "idle"
    /\ Works(i, Idle)
    /\ UNCHANGED <<stored, index, ref, keepset, log, torn, held, begun, swept>>


\* _walk_history: a commit that is not there adds nothing, and a tree that cannot
\* be read adds nothing but its commit.
RECURSIVE Walked(_)
Walked(head) ==
    IF head \notin stored THEN {}
    ELSE {head} \cup (IF Reached(head.tree) \subseteq stored THEN Reached(head.tree) ELSE {})
         \cup UNION {Walked(p) : p \in ToSet(head.parents)}

\* rebuild_keep_set: every head the log retains, and what came before it.
RebuiltKeepSet == UNION {Walked(e.head) : e \in log}

Whole(head) == History(head) \subseteq stored

\* A collection takes an object that is not kept, in any order and whatever its
\* age, with the keep-set recomputed first or not; its rows go with it, unless
\* the collector dies before.
CollectOne ==
    \E o \in stored, refreshed \in Refreshing, forgotten \in BOOLEAN :
        /\ \A i \in Importers : job[i].step = "idle"
        /\ swept < MaxSwept
        /\ keepset' = IF refreshed THEN RebuiltKeepSet ELSE keepset
        /\ o \notin keepset'
        /\ stored' = stored \ {o}
        /\ index' = IF forgotten THEN [s \in Shas |-> IF index[s] = o THEN NoObject ELSE index[s]]
                    ELSE index
        /\ torn' = torn \cup {t \in stored' : t.kind = "tree" /\ o \in Reached(t)}
        /\ held' = IF refreshed THEN held \cup {h \in {e.head : e \in log} : Whole(h)} ELSE held
        /\ swept' = swept + 1
        /\ UNCHANGED <<ref, job, log, begun>>

ImportNext ==
    \/ \E i \in Importers :
          \/ \E request \in Requests : BeginImport(i, request)
          \/ ReadCommit(i) \/ ReadTree(i) \/ ConvertEntry(i) \/ MakeTree(i) \/ PutCommit(i)
          \/ Remember(i) \/ Look(i) \/ PublishHead(i) \/ Graduate(i) \/ Interrupt(i)
    \/ CollectOne

ImportSpec == ImportInit /\ [][ImportNext]_importVars

-----------------------------------------------------------------------------
\* What git means, said without the importer

Dropped(item) == item.mode = "submodule" \/ item.sha \in Pointers

\* A tree, with what cannot be converted left out.
RECURSIVE Meaning(_)
Meaning(t) ==
    TreeObject({[name |-> item.name, mode |-> item.mode,
                 object |-> IF item.mode = "directory" THEN Meaning(item.sha) ELSE BlobOf(item.sha)]
                 : item \in {x \in ToSet(Listing[t]) : ~Dropped(x)}})

\* A commit and its ancestors among those taken.
RECURSIVE HistoryOf(_, _)
HistoryOf(c, taken) ==
    LET ps == SelectSeq(ParentsOf[c], LAMBDA p : p \in taken)
    IN  CommitObject(c, Meaning(RootOf[c]), [n \in DOMAIN ps |-> HistoryOf(ps[n], taken)])

\* The items left out of a tree.
RECURSIVE LeftOut(_)
LeftOut(t) ==
    {<<t, item.name>> : item \in {x \in ToSet(Listing[t]) : Dropped(x)}}
    \cup UNION {LeftOut(item.sha) : item \in {x \in ToSet(Listing[t]) : x.mode = "directory"}}

LeftOutOf(request) == UNION {LeftOut(RootOf[c]) : c \in ToSet(Taken(request))}

-----------------------------------------------------------------------------
\* Properties

\* What an import publishes is there to be checked out, its history too, however
\* often imports died and were repeated and whatever was swept in between: the
\* rows it went by were confirmed (_recall).  Save for what a collection took
\* from under a tree that stayed, since only the tree is confirmed.
PublishedIsWhole ==
    [][\A e \in log' \ log : \A o \in History(e.head) \ stored :
           \E t \in torn : o \in Reached(t)]_importVars


\* The history that the ref names can be read to its end, whatever was collected:
\* gc.py:3, an object is retained while it is reachable from a live ref.
HistoryStays == ref # NoObject => Whole(ref.head)

\* However often imports were interrupted, swept behind and run again, and with
\* whatever limits, what they publish is git's history: the commits taken, with
\* their parents among them and with their trees, name by name
\* (src/tests/integration/test_git_import.py:143-145, "Materializing the imported
\* head must reproduce a git checkout byte for byte").
HeadIsHistory ==
    \A e \in log : e.head = HistoryOf(e.request.from, ToSet(Taken(e.request)))

\* An import that lists nothing left nothing out: from_git.py:22-29, what cannot be
\* represented is refused, or the full list of it returned.
SkippedOnPurpose == \A e \in log : e.report = {} => LeftOutOf(e.request) = {}
=============================================================================
