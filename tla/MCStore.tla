------------------------------- MODULE MCStore -------------------------------
(* The item store, and the git importer that keeps its index in it, side by *)
(* side: each moves while the other is where it starts, so their states add *)
(* up.                                                                      *)
EXTENDS ItemStore, GitImport, TLC

CONSTANTS
    partA, partB, partC, shard1, shard2, keyA, nextA, keyB, keyC,
    top, latest, vendored, shared, sub,   \* git's trees, blobs and commits
    readme, script, pointer, first, left, right, merge, elsewhere

\* Three partitions in two shards.  What the clients of the store want: a
\* mutation with its event, a counter beside it; an unconditional put; a deletion;
\* a transaction across partitions; one in another shard; nothing.
MCPartitionOf == (keyA :> partA) @@ (nextA :> partA) @@ (keyB :> partB) @@ (keyC :> partC)
MCShardOf == (partA :> shard1) @@ (partB :> shard1) @@ (partC :> shard2)

PutOn(on) == [kind |-> "put", on |-> on]
DropOn(on) == [kind |-> "delete", on |-> on]
Wish(writes, emits) == [writes |-> writes, emits |-> emits]
MCWanted ==
    {Wish((keyA :> PutOn("absent")), {partA}),
     Wish((keyA :> PutOn("version")) @@ (nextA :> PutOn("none")), {partA}),
     Wish((keyA :> DropOn("generation")), {}),
     Wish((keyB :> PutOn("none")), {partB}),
     Wish((keyA :> PutOn("none")) @@ (keyC :> PutOn("none")), {}),
     Wish((keyC :> PutOn("absent")), {partC}),
     Wish(<<>>, {})}

\* Imports: a first commit, two branches of it and their merge; a tree that is
\* shared, one that is there twice, a pointer and a submodule.
Listed(name, mode, sha) == [name |-> name, mode |-> mode, sha |-> sha]
MCListing ==
    (top :> <<Listed("README", "file", readme), Listed("lib", "directory", shared)>>)
    @@ (latest :> <<Listed("latest", "symlink", readme), Listed("lib", "directory", shared)>>)
    @@ (shared :> <<Listed("run", "exec", script)>>)
    @@ (vendored :> <<Listed("a", "directory", sub), Listed("b", "directory", sub)>>)
    @@ (sub :> <<Listed("model", "file", pointer), Listed("module", "submodule", elsewhere),
                 Listed("run", "exec", script)>>)
MCRootOf == (first :> top) @@ (left :> latest) @@ (right :> vendored) @@ (merge :> top)
MCParentsOf == (first :> <<>>) @@ (left :> <<first>>) @@ (right :> <<first>>) @@ (merge :> <<left, right>>)
MCRevList ==
    (first :> <<first>>) @@ (left :> <<left, first>>) @@ (right :> <<right, first>>)
    @@ (merge :> <<merge, right, left, first>>)
Import(from, limit) == [from |-> from, limit |-> limit]
MCImports == {Import(first, 0), Import(left, 9), Import(left, 1), Import(right, 1), Import(merge, 2)}

\* git prints a name outside ASCII in quotes and escaped.
GitNames == {"README", "lib", "latest", "run", "a", "b", "model", "module"}
PlainNames == [n \in GitNames |-> n]
QuotedNames == [n \in GitNames |-> IF n = "latest" THEN "quoted" ELSE n]

Symmetry == Permutations(Clients)

BothInit == StoreInit /\ ImportInit

BothNext ==
    \/ ImportInit /\ StoreNext /\ UNCHANGED importVars
    \/ StoreInit /\ ImportNext /\ UNCHANGED allStoreVars

BothSpec == BothInit /\ [][BothNext]_<<allStoreVars, importVars>>
=============================================================================
