------------------------------ MODULE Checkout ------------------------------
(***************************************************************************)
(* Directories to trees and back.  An ingest walks a directory, one look   *)
(* at the disk after another (runtime/ingest.py); a checkout assembles a   *)
(* tree in a staging directory and renames it into place, moving aside     *)
(* what is there (runtime/materialize.py).  Several processes do so at     *)
(* once, files are rewritten while they are walked, and any step can fail  *)
(* or be a process's last.                                                 *)
(*                                                                         *)
(* An object stands for its name, and is not swept: Collector's subject.   *)
(* How files become chunks is Content's, how directories become nodes is   *)
(* Shape's: a file is its bytes here and a directory its entries.          *)
(***************************************************************************)
EXTENDS Naturals, Sequences, SequencesExt, FiniteSets, Functions

CONSTANTS
    Processes,   \* that ingest and check out
    FirstSource, FirstDestinations,  \* what is on the disk to begin with
    Rewrites,    \* what the source's files may be rewritten to
    ExcludedNames,
    FileSize(_), \* how long contents are
    ExecModes,   \* the modes a file's owner may run it with
    NoTree,
    MaxIngests, MaxCheckouts, MaxRewrites, MaxFailures, MaxLosses   \* bounds

VARIABLES
    disk,        \* the source, the destination, and what checkouts put beside it
    job,         \* what each process is doing
    ingested,    \* [tree, from]: what was ingested, and from what
    occupied,    \* whether there ever was something at the destination
    used         \* how much of the bounds is used

checkoutVars == <<disk, job, ingested, occupied, used>>

Absent == [kind |-> "absent"]
EmptyDir == [kind |-> "dir", entries |-> <<>>]
NoJob == [step |-> "idle"]

\* An ingest was undisturbed if what it walked is as it was throughout.
Changed(place) ==
    [p \in Processes |-> IF job[p].step = "walk" /\ job[p].place = place
                         THEN [job[p] EXCEPT !.from = NoTree] ELSE job[p]]

CheckoutInit ==
    /\ \E d \in FirstDestinations :
          /\ disk = [source |-> FirstSource, destination |-> d,
                     staging |-> [p \in Processes |-> Absent],
                     displaced |-> [p \in Processes |-> Absent]]
          /\ occupied = (d # Absent)
    /\ job = [p \in Processes |-> NoJob]
    /\ ingested = {}
    /\ used = [ingests |-> 0, checkouts |-> 0, rewrites |-> 0, failures |-> 0, deaths |-> 0]

\* What is at a path now.
At(node, path) ==
    FoldLeft(LAMBDA n, name : IF n.kind = "dir" /\ name \in DOMAIN n.entries
                              THEN n.entries[name] ELSE Absent,
             node, path)

-----------------------------------------------------------------------------
\* Ingesting

\* os.scandir, sorted and filtered: which children there are, and of what kind.
Scanned(node, path) ==
    LET d     == At(node, path)
        names == DOMAIN d.entries \ ExcludedNames
    IN  [path |-> path, entries |-> <<>>,
         todo |-> [i \in 1 .. Cardinality(names) |->
                     LET name == SetToSortSeq(names, <)[i]
                     IN  [name |-> name, kind |-> d.entries[name].kind]]]

AskIngest(p, place) ==
    /\ job[p] = NoJob
    /\ used.ingests < MaxIngests /\ used' = [used EXCEPT !.ingests = @ + 1]
    /\ disk[place].kind = "dir"
    /\ job' = [job EXCEPT ![p] =
          [step |-> "walk", place |-> place, from |-> disk[place],
           stack |-> <<Scanned(disk[place], <<>>)>>, looked |-> Absent]]
    /\ UNCHANGED <<disk, ingested, occupied>>

\* The child whose turn it is.
Child(p) ==
    LET top == Last(job[p].stack)
        c   == Head(top.todo)
    IN  [name |-> c.name, kind |-> c.kind, path |-> Append(top.path, c.name)]

Now(p) == At(disk[job[p].place], Child(p).path)
Walking(p, kind) ==
    job[p].step = "walk" /\ Last(job[p].stack).todo # <<>> /\ Child(p).kind = kind

Failed(p) == job' = [job EXCEPT ![p] = NoJob]

\* The top frame of a stack with its child done.
Done(stack, name, entry) ==
    LET top == Last(stack)
    IN  Append(Front(stack), [top EXCEPT !.todo = Tail(@), !.entries = (name :> entry) @@ @])

\* A link is its target's path, and is not followed.
TakeLink(p) ==
    /\ Walking(p, "link")
    /\ IF Now(p).kind # "link" THEN Failed(p)
       ELSE job' = [job EXCEPT ![p].stack = Done(@, Child(p).name,
                [kind |-> "symlink", target |-> Now(p).target, exec |-> FALSE,
                 size |-> FileSize(Now(p).target)])]
    /\ UNCHANGED <<disk, ingested, occupied, used>>

EnterDir(p) ==
    /\ Walking(p, "dir")
    /\ IF Now(p).kind # "dir" THEN Failed(p)
       ELSE job' = [job EXCEPT ![p].stack = Append(@, Scanned(disk[job[p].place], Child(p).path))]
    /\ UNCHANGED <<disk, ingested, occupied, used>>

\* A socket or a device has nothing to version.
RefuseOther(p) ==
    /\ Walking(p, "socket") /\ Failed(p)
    /\ UNCHANGED <<disk, ingested, occupied, used>>

\* Mode and size are looked up before the bytes are read.
StatFile(p) ==
    /\ Walking(p, "file") /\ job[p].looked = Absent
    /\ IF Now(p).kind # "file" THEN Failed(p)
       ELSE job' = [job EXCEPT ![p].looked = Now(p)]
    /\ UNCHANGED <<disk, ingested, occupied, used>>

ReadWhole(p) ==
    /\ Walking(p, "file") /\ job[p].looked # Absent
    /\ IF Now(p).kind # "file" THEN Failed(p)
       ELSE job' = [job EXCEPT ![p].looked = Absent, ![p].stack = Done(@, Child(p).name,
                [kind |-> "blob", target |-> Now(p).bytes, exec |-> job[p].looked.mode \in ExecModes,
                 size |-> FileSize(job[p].looked.bytes)])]
    /\ UNCHANGED <<disk, ingested, occupied, used>>

\* Faulty variant: a directory without entries is left out, as git would.
LeaveDirUnlessEmpty(p) ==
    LET q    == job[p]
        tree == Last(q.stack).entries
        rest == Front(q.stack)
        name == Head(Last(rest).todo).name
    IN  /\ q.step = "walk" /\ Last(q.stack).todo = <<>>
        /\ IF rest = <<>>
           THEN ingested' = ingested \cup {[tree |-> tree, from |-> q.from]} /\ Failed(p)
           ELSE /\ job' = [job EXCEPT ![p].stack =
                     IF tree = <<>> THEN Append(Front(rest), [Last(rest) EXCEPT !.todo = Tail(@)])
                     ELSE Done(rest, name, [kind |-> "tree", target |-> tree, exec |-> FALSE, size |-> 0])]
                /\ UNCHANGED ingested
        /\ UNCHANGED <<disk, occupied, used>>

\* build_tree, and back to the directory above.
LeaveDir(p) ==
    LET q    == job[p]
        tree == Last(q.stack).entries
        rest == Front(q.stack)
        name == Head(Last(rest).todo).name
    IN  /\ q.step = "walk" /\ Last(q.stack).todo = <<>>
        /\ IF rest = <<>>
           THEN ingested' = ingested \cup {[tree |-> tree, from |-> q.from]} /\ Failed(p)
           ELSE /\ job' = [job EXCEPT ![p].stack =
                     Done(rest, name, [kind |-> "tree", target |-> tree, exec |-> FALSE, size |-> 0])]
                /\ UNCHANGED ingested
        /\ UNCHANGED <<disk, occupied, used>>

\* Somebody rewrites one of the source's files.
Rewrite(path, node) ==
    /\ used.rewrites < MaxRewrites /\ used' = [used EXCEPT !.rewrites = @ + 1]
    /\ disk.source.entries[path].kind = "file"
    /\ disk' = [disk EXCEPT !.source.entries[path] = node]
    /\ job' = Changed("source")
    /\ UNCHANGED <<ingested, occupied>>

-----------------------------------------------------------------------------
\* Checking out

\* The entries of a tree, each directory before what it holds.
RECURSIVE Listed(_, _)
Listed(tree, path) ==
    LET names == SetToSortSeq(DOMAIN tree, <)
        below(name) ==
            IF tree[name].kind = "tree" THEN Listed(tree[name].target, Append(path, name)) ELSE <<>>
    IN  FoldLeft(LAMBDA s, name : s \o <<[path |-> Append(path, name), entry |-> tree[name]]>>
                                    \o below(name), <<>>, names)

AskCheckout(p, tree, overwrite) ==
    /\ job[p] = NoJob
    /\ used.checkouts < MaxCheckouts /\ used' = [used EXCEPT !.checkouts = @ + 1]
    /\ disk.destination = Absent \/ overwrite
    /\ disk' = [disk EXCEPT !.staging[p] = EmptyDir]
    /\ job' = [job EXCEPT ![p] = [step |-> "write", todo |-> Listed(tree, <<>>), moved |-> FALSE]]
    /\ UNCHANGED <<ingested, occupied>>

\* What an entry is on the disk; a directory is filled later.
Written(entry) ==
    CASE entry.kind = "tree" -> EmptyDir
      [] entry.kind = "symlink" -> [kind |-> "link", target |-> entry.target]
      [] entry.kind = "blob" ->
            [kind |-> "file", bytes |-> entry.target, mode |-> IF entry.exec THEN "755" ELSE "644"]

RECURSIVE PutAt(_, _, _)
PutAt(node, path, new) ==
    IF path = <<>> THEN new
    ELSE LET below == IF Head(path) \in DOMAIN node.entries THEN node.entries[Head(path)] ELSE EmptyDir
         IN  [node EXCEPT !.entries = (Head(path) :> PutAt(below, Tail(path), new)) @@ @]

WriteEntry(p) ==
    /\ job[p].step = "write" /\ job[p].todo # <<>>
    /\ LET e == Head(job[p].todo)
       IN  disk' = [disk EXCEPT !.staging[p] = PutAt(@, e.path, Written(e.entry))]
    /\ job' = [job EXCEPT ![p].todo = Tail(@)]
    /\ UNCHANGED <<ingested, occupied, used>>

\* Faulty variant: the destination is published before it is filled.
LookAgainEarly(p) ==
    /\ job[p].step = "write"
    /\ job' = [job EXCEPT ![p].step = IF disk.destination = Absent THEN "place" ELSE "displace"]
    /\ UNCHANGED <<disk, ingested, occupied, used>>

\* Once it is complete: is there something at the destination?
LookAgain(p) ==
    /\ job[p].step = "write" /\ job[p].todo = <<>>
    /\ job' = [job EXCEPT ![p].step = IF disk.destination = Absent THEN "place" ELSE "displace"]
    /\ UNCHANGED <<disk, ingested, occupied, used>>

\* Faulty variant: what was staged stays.
CleanUpNothing(p) == Failed(p) /\ UNCHANGED disk

\* The rest of a checkout that cannot go on.
CleanUp(p) ==
    /\ disk' = [disk EXCEPT !.staging[p] = Absent]
    /\ Failed(p)

\* Faulty variant: what is there is removed to make room.
DisplaceByRemoving(p) ==
    /\ job[p].step = "displace"
    /\ disk' = [disk EXCEPT !.destination = Absent]
    /\ job' = [Changed("destination") EXCEPT ![p].step = "place"]
    /\ UNCHANGED <<ingested, occupied, used>>

\* The first rename, which needs something to move.
Displace(p) ==
    /\ job[p].step = "displace"
    /\ IF disk.destination = Absent THEN CleanUp(p)
       ELSE /\ disk' = [disk EXCEPT !.destination = Absent, !.displaced[p] = disk.destination]
            /\ job' = [Changed("destination") EXCEPT ![p].step = "place", ![p].moved = TRUE]
    /\ UNCHANGED <<ingested, occupied, used>>

\* The second, which replaces nothing but an empty directory.
Place(p) ==
    /\ job[p].step = "place"
    /\ IF disk.destination \notin {Absent, EmptyDir}
       THEN CleanUp(p) /\ UNCHANGED occupied
       ELSE /\ disk' = [disk EXCEPT !.destination = disk.staging[p], !.staging[p] = Absent]
            /\ job' = [Changed("destination") EXCEPT
                  ![p] = IF @.moved THEN [step |-> "discard"] ELSE NoJob]
            /\ occupied' = TRUE
    /\ UNCHANGED <<ingested, used>>

\* What was moved aside goes.
DiscardOld(p) ==
    /\ job[p].step = "discard"
    /\ disk' = [disk EXCEPT !.displaced[p] = Absent]
    /\ Failed(p)
    /\ UNCHANGED <<ingested, occupied, used>>

-----------------------------------------------------------------------------
\* A step fails: a file cannot be read or written, an object is missing.
Fail(p) ==
    /\ job[p].step \in {"walk", "write", "displace", "place"}
    /\ used.failures < MaxFailures /\ used' = [used EXCEPT !.failures = @ + 1]
    /\ IF job[p].step = "walk" THEN Failed(p) /\ UNCHANGED disk ELSE CleanUp(p)
    /\ UNCHANGED <<ingested, occupied>>

\* The process dies, and its files stay; only its last ones are kept here.
DieAtOnce(p) ==
    /\ job[p] # NoJob
    /\ used.deaths < MaxLosses /\ used' = [used EXCEPT !.deaths = @ + 1]
    /\ Failed(p)
    /\ UNCHANGED <<disk, ingested, occupied>>

CheckoutNext ==
    \/ \E p \in Processes :
          \/ \E place \in {"source", "destination"} : AskIngest(p, place)
          \/ TakeLink(p) \/ EnterDir(p) \/ RefuseOther(p) \/ StatFile(p) \/ ReadWhole(p) \/ LeaveDir(p)
          \/ \E t \in {i.tree : i \in ingested}, o \in BOOLEAN : AskCheckout(p, t, o)
          \/ WriteEntry(p) \/ LookAgain(p) \/ Displace(p) \/ Place(p) \/ DiscardOld(p)
          \/ Fail(p) \/ DieAtOnce(p)
    \/ \E name \in DOMAIN disk.source.entries, node \in Rewrites : Rewrite(name, node)
-----------------------------------------------------------------------------
\* Properties

\* What a tree is on the disk, and what of a directory is versioned.
RECURSIVE OnDisk(_), Versioned(_)
OnDisk(tree) ==
    [kind |-> "dir",
     entries |-> [name \in DOMAIN tree |->
        IF tree[name].kind = "tree" THEN OnDisk(tree[name].target) ELSE Written(tree[name])]]
Versioned(node) ==
    CASE node.kind = "dir" -> [node EXCEPT !.entries =
            [name \in DOMAIN @ \ ExcludedNames |-> Versioned(@[name])]]
      [] node.kind = "file" -> [node EXCEPT !.mode = IF @ \in ExecModes THEN "755" ELSE "644"]
      [] OTHER -> node

\* The shape of the state; a process that does nothing has nothing staged,
\* unless one died.
CheckoutTypeOK ==
    /\ \A p \in Processes :
          /\ job[p].step \in {"idle", "walk", "write", "displace", "place", "discard"}
          /\ job[p].step \in {"idle", "walk", "discard"} /\ used.deaths = 0
             => disk.staging[p] = Absent
    /\ occupied \in BOOLEAN

\* Whatever is at the destination is whole: a tree somebody checked out, or
\* what was there to begin with.
WholeOrAbsent ==
    disk.destination \in {Absent} \cup FirstDestinations \cup {OnDisk(i.tree) : i \in ingested}

\* The tree that is replaced outlives its replacing: once there is something
\* at the destination it is there, or beside it, whoever dies in between.
OldOutlivesNew ==
    occupied => disk.destination # Absent \/ \E p \in Processes : disk.displaced[p] # Absent

\* What is ingested from a directory nobody changed meanwhile comes back from
\* a checkout, but for what is excluded and the finer modes, and its sizes are
\* those of its files: a checkout ingested again is the same tree.
RECURSIVE SizesTrue(_)
SizesTrue(tree) ==
    \A name \in DOMAIN tree :
        LET e == tree[name]
        IN  IF e.kind = "tree" THEN SizesTrue(e.target) ELSE e.size = FileSize(e.target)
RoundTrips ==
    \A i \in ingested : i.from # NoTree =>
        OnDisk(i.tree) = Versioned(i.from) /\ SizesTrue(i.tree)

\* A checkout is all or nothing at its destination, whoever dies or fails in
\* the middle of it.
CheckoutInv == CheckoutTypeOK /\ WholeOrAbsent /\ OldOutlivesNew
=============================================================================
