------------------------------ MODULE FileTree ------------------------------
(***************************************************************************)
(* The directories of an environment: edits at a path (fs/edit.py) rebuild *)
(* the nodes on it (format/shape.py), while a client pages through the     *)
(* version it opened (fs/tree.py), versions are compared (fs/diff.py) and  *)
(* the objects of one are enumerated for its protection (fs/closure.py).   *)
(* A name is a number; a node's hash stands here as the node itself.       *)
(***************************************************************************)
EXTENDS Shape, FiniteSets

CONSTANTS
    Names,          \* entry names, in byte order
    NameBytes(_),   \* how long a name is
    Leaves,         \* files: [kind, target, mode, size], target a stored blob
    Paths,          \* bound: the paths edits name, with all their prefixes
    Start,          \* bound: the names a version may start with
    PageLimit,      \* entries of one page
    MaxEdits        \* bound: edits of one behaviour

NoEntry == [kind |-> "none"]
Empty == [level |-> 0, entries |-> <<>>]

VARIABLES
    tree,      \* the current version's root
    was,       \* the version before the last edit
    content,   \* what the edits ask for: path -> leaf, or "tree", or NoEntry
    before,    \* what they asked for in the version before
    written,   \* the nodes the last edit wrote
    refused,   \* why the last edit was refused, or ""
    edits,     \* how many there were
    listing    \* a client's walk through the root directory of one version

treeVars == <<tree, was, content, before, written, refused, edits, listing>>

Dir == [kind |-> "tree", target |-> Empty, mode |-> 0, size |-> 0]
TreeEntry(name, x) ==
    [name |-> name, kind |-> x.kind, target |-> x.target, mode |-> x.mode, size |-> x.size]
SubtreeEntry(name, node) ==
    [name |-> name, kind |-> "tree", target |-> node, mode |-> 0, size |-> 0]

-----------------------------------------------------------------------------
\* Building

EntryBytes(e) == 44 + NameBytes(e.name)
NodeBytes(node) ==
    NodeHeaderBytes + FoldLeft(LAMBDA n, e : n + EntryBytes(e), 0, node.entries)

TreeRuns(entries, level) ==
    RunsOf(entries, Partition([i \in DOMAIN entries |-> entries[i].name],
                              [i \in DOMAIN entries |-> EntryBytes(entries[i])], level))

\* The nodes of one level.
NodesOf(entries, level) ==
    IF entries = <<>> THEN <<[level |-> level, entries |-> <<>>]>>
    ELSE LET runs == TreeRuns(entries, level)
         IN  [i \in DOMAIN runs |-> [level |-> level, entries |-> runs[i]]]

\* A node is routed to by the last name it covers.
RoutedTo(nodes) ==
    [i \in DOMAIN nodes |-> SubtreeEntry(Last(nodes[i].entries).name, nodes[i])]

\* The levels above the nodes of one, until a single node remains.
RECURSIVE Raise(_, _, _)
Raise(nodes, level, below) ==
    IF Len(nodes) = 1 THEN [root |-> nodes[1], written |-> below \cup Range(nodes)]
    ELSE Raise(NodesOf(RoutedTo(nodes), level + 1), level + 1, below \cup Range(nodes))

BuildTree(entries) == Raise(NodesOf(entries, 0), 0, {})

-----------------------------------------------------------------------------
\* Reading

\* The entries after a name, in order; a subtree that ends at or before it is
\* not entered.
RECURSIVE IterEntries(_, _)
IterEntries(node, after) ==
    IF node.level = 0 THEN SelectSeq(node.entries, LAMBDA e : e.name > after)
    ELSE LET left == SelectSeq(node.entries, LAMBDA e : e.name > after)
         IN  FlattenSeq([i \in DOMAIN left |-> IterEntries(left[i].target, after)])

\* Every name is above this one.
FromStart == 0
ASSUME NamesAssumption ==
    /\ \A n \in Names : n \in Nat /\ n > FromStart
    /\ \A p \in Paths : p \in Seq(Names) /\ (Len(p) > 1 => Front(p) \in Paths)
    /\ Start \subseteq Names

\* Faulty variant: routing by the first name a subtree covers.
RECURSIVE LookupByFirst(_, _)
LookupByFirst(node, name) ==
    LET fit == SelectSeq(node.entries, LAMBDA e :
                  IF node.level = 0 THEN e.name = name ELSE e.name < name)
    IN  IF fit = <<>> THEN NoEntry
        ELSE IF node.level = 0 THEN Head(fit)
        ELSE LookupByFirst(Head(fit).target, name)

\* One entry by name: the only subtree that can hold it is the first one that
\* ends at or after it.
RECURSIVE Lookup(_, _)
Lookup(node, name) ==
    LET fit == SelectSeq(node.entries, LAMBDA e :
                  IF node.level = 0 THEN e.name = name ELSE name <= e.name)
    IN  IF fit = <<>> THEN NoEntry
        ELSE IF node.level = 0 THEN Head(fit)
        ELSE Lookup(Head(fit).target, name)

\* A path of names; NoEntry where the code raises NotFound.
RECURSIVE ResolvePath(_, _)
ResolvePath(root, path) ==
    LET entry == Lookup(root, Head(path))
    IN  IF Len(path) = 1 \/ entry = NoEntry THEN entry
        ELSE IF entry.kind # "tree" THEN NoEntry
        ELSE ResolvePath(entry.target, Tail(path))

\* Faulty variant: a full page is always taken to have a successor, and the
\* cursor to be the entry that would come next.
ListDirNext(root, after, limit) ==
    LET left == IterEntries(root, after)
    IN  IF Len(left) <= limit
        THEN [entries |-> left, cursor |-> NoEntry]
        ELSE [entries |-> SubSeq(left, 1, limit),
              cursor |-> [kind |-> "name", name |-> left[limit + 1].name]]

\* One page, and the cursor to the next if there is one.
ListDir(root, after, limit) ==
    LET left == IterEntries(root, after)
    IN  IF Len(left) <= limit
        THEN [entries |-> left, cursor |-> NoEntry]
        ELSE [entries |-> SubSeq(left, 1, limit),
              cursor |-> [kind |-> "name", name |-> left[limit].name]]

\* Every object under a tree: its nodes, and the blobs of its files, whose
\* chunks are named in them.
RECURSIVE TreeClosure(_)
TreeClosure(node) ==
    {node} \cup UNION {
        IF node.level > 0 \/ node.entries[i].kind = "tree" THEN TreeClosure(node.entries[i].target)
        ELSE {node.entries[i].target} : i \in DOMAIN node.entries}

-----------------------------------------------------------------------------
\* Comparing

Change(path, kind, old, new) == [path |-> path, kind |-> kind, before |-> old, after |-> new]

\* Every file of a subtree, added or removed.
RECURSIVE Under(_, _, _)
Under(entry, prefix, kind) ==
    LET path == Append(prefix, entry.name)
        all  == IterEntries(entry.target, FromStart)
    IN  IF entry.kind = "tree" THEN UNION {Under(all[i], path, kind) : i \in DOMAIN all}
        ELSE IF kind = "added" THEN {Change(path, kind, NoEntry, entry)}
        ELSE {Change(path, kind, entry, NoEntry)}

\* Faulty variant: a file whose content is the same has not changed.
SameContent(a, b) == a.target = b.target /\ a.kind = b.kind

SameEntry(a, b) == a.target = b.target /\ a.mode = b.mode /\ a.kind = b.kind

\* The changes between two directories: identical ones are not entered, a
\* file for a directory is a removal and an addition.
RECURSIVE DiffTrees(_, _, _)
DiffTrees(old, new, prefix) ==
    LET left    == IterEntries(old, FromStart)
        right   == IterEntries(new, FromStart)
        names(s) == {s[i].name : i \in DOMAIN s}
        at(s, n) == s[CHOOSE i \in DOMAIN s : s[i].name = n]
        compare(a, b) ==
            IF SameEntry(a, b) THEN {}
            ELSE IF a.kind = "tree" /\ b.kind = "tree"
                 THEN DiffTrees(a.target, b.target, Append(prefix, a.name))
            ELSE IF a.kind # b.kind
                 THEN Under(a, prefix, "removed") \cup Under(b, prefix, "added")
            ELSE {Change(Append(prefix, a.name), "modified", a, b)}
    IN  IF old = new THEN {}
        ELSE UNION {Under(at(left, n), prefix, "removed") : n \in names(left) \ names(right)}
             \cup UNION {Under(at(right, n), prefix, "added") : n \in names(right) \ names(left)}
             \cup UNION {compare(at(left, n), at(right, n)) : n \in names(left) \cap names(right)}

-----------------------------------------------------------------------------
\* Editing

Unchanged(root) == [root |-> root, written |-> {}, fault |-> ""]
Fault(root, why) == [root |-> root, written |-> {}, fault |-> why]

Without(entries, name) == SelectSeq(entries, LAMBDA e : e.name # name)
\* Faulty variant: an entry goes to the end, whatever its name.
Appended(entries, entry) == Without(entries, entry.name) \o <<entry>>
With(entries, entry) ==
    SelectSeq(entries, LAMBDA e : e.name < entry.name) \o <<entry>>
    \o SelectSeq(entries, LAMBDA e : e.name > entry.name)

\* Faulty variant: only the directory edited last counts as written.
RebuiltAlone(root, entries, below) ==
    LET built == BuildTree(entries)
    IN  [root |-> built.root, written |-> built.written, fault |-> ""]

Encodable(nodes) == \A node \in nodes : NodeBytes(node) <= MaxNodeBytes

\* A node too large to encode stops the edit.
Rebuilt(root, entries, below) ==
    LET built == BuildTree(entries)
    IN  IF ~Encodable(built.written)
        THEN Fault(root, "oversized")
        ELSE [root |-> built.root, written |-> built.written \cup below, fault |-> ""]

\* The last name of the path: put, replaced or taken out, if that changes
\* anything.
SetLast(root, existing, child, name, x) ==
    IF child = (IF x = NoEntry THEN NoEntry ELSE TreeEntry(name, x)) THEN Unchanged(root)
    ELSE Rebuilt(root, IF x = NoEntry THEN Without(existing, name)
                       ELSE With(existing, TreeEntry(name, x)), {})

\* A directory on the way takes up what became of the one below it.
TakeUp(root, existing, child, name, below) ==
    IF below.fault # "" THEN Fault(root, below.fault)
    ELSE IF child # NoEntry /\ below.root = child.target THEN Unchanged(root)
    ELSE Rebuilt(root, With(existing, SubtreeEntry(name, below.root)),
                 below.written \cup (IF child = NoEntry THEN {Empty} ELSE {}))

\* The tree with x at the path, or without the path if x is NoEntry.  What
\* changes nothing returns the tree itself.
RECURSIVE Apply(_, _, _)
Apply(root, path, x) ==
    LET existing == IterEntries(root, FromStart)
        name     == Head(path)
        child    == Lookup([level |-> 0, entries |-> existing], name)
    IN  IF Len(path) = 1 THEN SetLast(root, existing, child, name, x)
        ELSE IF child # NoEntry /\ child.kind # "tree" THEN Fault(root, "a file")
        ELSE IF child = NoEntry /\ x = NoEntry THEN Unchanged(root)
        ELSE TakeUp(root, existing, child, name,
                    Apply(IF child = NoEntry THEN Empty ELSE child.target, Tail(path), x))

-----------------------------------------------------------------------------
\* What the edits ask for, beside what they do

Above(p, q) == IsStrictPrefix(p, q)

Asked(c, path, x) ==
    [p \in Paths |->
        IF p = path THEN x
        ELSE IF Above(path, p) THEN NoEntry
        ELSE IF Above(p, path) /\ c[p] = NoEntry /\ x # NoEntry THEN Dir
        ELSE c[p]]

\* The tree built from nothing that has a content.
RECURSIVE TreeOf(_, _)
TreeOf(c, prefix) ==
    LET here == {n \in Names : Append(prefix, n) \in Paths /\ c[Append(prefix, n)] # NoEntry}
        entry(n) == LET x == c[Append(prefix, n)]
                    IN  IF x = Dir THEN SubtreeEntry(n, TreeOf(c, Append(prefix, n)))
                        ELSE TreeEntry(n, x)
        ordered  == SetToSortSeq(here, LAMBDA a, b : a < b)
    IN  BuildTree([i \in DOMAIN ordered |-> entry(ordered[i])]).root

NoListing == [root |-> Empty, after |-> FromStart, got |-> <<>>, open |-> FALSE, done |-> FALSE]

TreeIdle ==
    /\ content = [p \in Paths |-> NoEntry] /\ before = content
    /\ tree = Empty /\ was = Empty
    /\ written = {} /\ refused = "" /\ edits = 0 /\ listing = NoListing

\* A version is published: any files in its root, as an ingest builds them.
Publish(names, x) ==
    /\ edits = 0
    /\ LET c == [p \in Paths |-> IF Len(p) = 1 /\ p[1] \in names THEN x ELSE NoEntry]
       IN  /\ Encodable({TreeOf(c, <<>>)})
           /\ content' = c /\ before' = c
           /\ tree' = TreeOf(c, <<>>) /\ was' = tree'
    /\ edits' = 1
    /\ UNCHANGED <<written, refused, listing>>

\* What came of an edit: a new version, or why there is none.
Settle(done, path, x) ==
    IF done.fault # ""
    THEN refused' = done.fault /\ UNCHANGED <<tree, was, content, before, written>>
    ELSE /\ refused' = ""
         /\ tree' = done.root /\ written' = done.written /\ was' = tree
         /\ content' = Asked(content, path, x) /\ before' = content

\* set_path and remove_path: x is NoEntry for the latter.
Edit(path, x) ==
    /\ edits > 0 /\ edits <= MaxEdits
    /\ edits' = edits + 1
    /\ Settle(Apply(tree, path, x), path, x)
    /\ UNCHANGED listing

\* A client lists the root directory, page by page, of the version it opened.
OpenListing ==
    /\ edits > 0 /\ ~listing.open
    /\ listing' = [NoListing EXCEPT !.root = tree, !.open = TRUE]
    /\ UNCHANGED <<tree, was, content, before, written, refused, edits>>

NextPage ==
    /\ listing.open /\ ~listing.done
    /\ LET page == ListDir(listing.root, listing.after, PageLimit)
       IN  listing' = [listing EXCEPT
              !.got = @ \o page.entries,
              !.done = page.cursor = NoEntry,
              !.after = IF page.cursor = NoEntry THEN @ ELSE page.cursor.name]
    /\ UNCHANGED <<tree, was, content, before, written, refused, edits>>

\* The environment is closed.
Finish ==
    /\ edits > MaxEdits /\ (listing.open => listing.done)
    /\ content' = [p \in Paths |-> NoEntry] /\ before' = content'
    /\ tree' = Empty /\ was' = Empty
    /\ written' = {} /\ refused' = "" /\ edits' = 0 /\ listing' = NoListing

TreeNext ==
    \/ \E names \in SUBSET Start, x \in Leaves : Publish(names, x)
    \/ \E p \in Paths, x \in Leaves \cup {NoEntry} : Edit(p, x)
    \/ OpenListing \/ NextPage \/ Finish

-----------------------------------------------------------------------------
\* Properties

\* What decode accepts of a node: names ascend, and a node above others has
\* at least two, each one level below and named by the last name in it.
RECURSIVE WellFormed(_)
WellFormed(node) ==
    LET es == node.entries
    IN  /\ \A i \in DOMAIN es : i > 1 => es[i - 1].name < es[i].name
        /\ node.level > 0 =>
              /\ Len(es) >= 2
              /\ \A i \in DOMAIN es : /\ es[i].target.level = node.level - 1
                                      /\ es[i].name = Last(es[i].target.entries).name
        /\ \A i \in DOMAIN es : es[i].kind = "tree" => WellFormed(es[i].target)

\* The shape of a version, of an edit's outcome and of a listing.
TreeTypeOK ==
    /\ WellFormed(tree)
    /\ \A p \in Paths : content[p] \in Leaves \cup {Dir, NoEntry}
    /\ edits \in 0 .. MaxEdits + 1
    /\ refused \in {"", "a file", "oversized"}
    /\ listing.open \/ listing = NoListing

\* A directory's nodes are decided by its entries alone: after any edits the
\* tree is the one a fresh build of its content gives, or one content would
\* have two names.
OneShapePerContent == tree = TreeOf(content, <<>>)

\* Every path resolves to what was last written there, through the files and
\* directories that replaced one another above it.
ResolvesWhatWasSet ==
    \A p \in Paths :
        LET found == ResolvePath(tree, p)
        IN  IF content[p] = NoEntry THEN found = NoEntry
            ELSE IF content[p] = Dir THEN found.kind = "tree"
            ELSE found = TreeEntry(Last(p), content[p])

FilesOf(c) == {<<p, c[p]>> : p \in {q \in Paths : c[q] \notin {NoEntry, Dir}}}
Leaf(e) == [kind |-> e.kind, target |-> e.target, mode |-> e.mode, size |-> e.size]

\* Carried out on the files of the older version, the changes of a diff give
\* the files of the newer one, and no path is reported without a difference.
DiffExplains ==
    LET changes == DiffTrees(was, tree, <<>>)
        gone    == {<<c.path, Leaf(c.before)>> : c \in {d \in changes : d.before # NoEntry}}
        come    == {<<c.path, Leaf(c.after)>> : c \in {d \in changes : d.after # NoEntry}}
    IN  /\ gone = FilesOf(before) \ FilesOf(content)
        /\ come = FilesOf(content) \ FilesOf(before)

\* A listing gives every entry of the version it opened once, in order, and
\* ends with its last page, whatever is edited between the pages.
ListingIsStable ==
    listing.open =>
        LET all == IterEntries(listing.root, FromStart)
        IN  /\ IsPrefix(listing.got, all)
            /\ listing.done <=> listing.got = all /\ (listing.done \/ all # <<>>)

\* What an edit writes and what the older version reaches protect the newer
\* one: nothing else can be needed to read it.
EditIsCovered ==
    TreeClosure(tree) \subseteq
        TreeClosure(was) \cup written \cup {x.target : x \in Leaves}

\* The split rule bounds the size of a node: no edit is refused for it.
SplitBoundsSize == refused # "oversized"

\* A version is what its edits ask for: in the shape that this content has,
\* and found at each path.  What an edit changed is what a diff reports, and what
\* it wrote is all that has to be protected.
VersionInv ==
    /\ TreeTypeOK /\ OneShapePerContent /\ ResolvesWhatWasSet
    /\ DiffExplains /\ EditIsCovered
=============================================================================
