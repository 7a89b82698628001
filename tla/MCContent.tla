----------------------------- MODULE MCContent -----------------------------
(* The objects' codec, the files, the directories, the images and the      *)
(* checkouts, side by side: each starts while the others are at rest, so    *)
(* their states add up.                                                     *)
EXTENDS Codec, Content, FileTree, Images, Checkout

CONSTANTS
    obj1, obj2, blob1,   \* objects
    base, app, other,    \* contents of layers
    gzbase,              \* a compressed one
    one, two, wrong,     \* configs
    main, dev, key1

MCGear == (0 :> 3) @@ (1 :> 8)
MCBoundary(key, level) == (key + level) % 3 = 0

RECURSIVE MCDigest(_)
MCDigest(o) ==
    IF o.kind = "chunk" THEN FoldLeftDomain(LAMBDA n, i : n + i * (o.data[i] + 1), 0, o.data)
    ELSE FoldLeft(LAMBDA n, e : 2 * n + MCDigest(e.target), 1, o.entries)

MCNames == 1 .. 5
MCPaths == {<<n>> : n \in MCNames} \cup {<<2, 1>>, <<2, 2>>}
ShortNames(n) == 1
LongNames(n) == 100
MCLeaves == {[kind |-> "blob", target |-> blob1, mode |-> m, size |-> 1] : m \in {0, 1}}

\* Images: a build for two platforms behind an attestation and one index down,
\* its rebuild on another base, the same base in a docker archive, and damaged
\* archives.
MCDiffIds == (one :> <<base, app>>) @@ (two :> <<base>>) @@ (wrong :> <<base>>)
MCBlobSize == (one :> 3) @@ (two :> 2) @@ (wrong :> 1) @@ (base :> 1) @@ (app :> 0) @@ (other :> 2)
Amd == [architecture |-> "amd64", variant |-> Nowhere]
Arm(v) == [architecture |-> "arm64", variant |-> v]
Tar(t) == [kind |-> "tar", holds |-> t, digest |-> t]
Gz(t, d) == [kind |-> "tar", holds |-> t, digest |-> d]
Plain(t) == [kind |-> "tar", holds |-> t, digest |-> Nowhere]
Manifest(p, config, layers) ==
    [kind |-> "manifest", names |-> {"a"}, platform |-> p, config |-> config,
     claims |-> config, layers |-> layers, holds |-> <<>>]
Index(p, descriptors) == [Manifest(p, Nowhere, <<>>) EXCEPT !.kind = "index", !.holds = descriptors]
Attestation == Manifest([architecture |-> "unknown", variant |-> Nowhere], wrong, <<Tar(base)>>)
Oci(descriptors) == [layout |-> "oci", images |-> descriptors]

Built1 == Index(Nowhere, <<Attestation,
            Index(Amd, <<Manifest(Arm("v8"), wrong, <<Tar(base)>>),
                         Manifest(Amd, one, <<Gz(base, gzbase), Tar(app)>>)>>),
            Manifest(Arm("v8"), two, <<Tar(base)>>)>>)
Legacy == [layout |-> "docker", images |-> <<Manifest(Nowhere, two, <<Plain(base)>>)>>]
Damaged == Oci(<<Manifest(Amd, two, <<Gz(other, gzbase)>>)>>)
Misnamed == Oci(<<[Manifest(Amd, two, <<Tar(base)>>) EXCEPT !.claims = one]>>)
Short == Oci(<<Manifest(Amd, one, <<Tar(base)>>)>>)
Foreign == Oci(<<Manifest(Amd, two, <<[Tar(base) EXCEPT !.kind = "foreign"]>>)>>)
Several == Oci(<<[Built1 EXCEPT !.names = {"b"}], Manifest(Amd, two, <<Tar(base)>>)>>)

Asks(r, i, a, asked, wanted, key) ==
    [ref |-> r, image |-> i, archive |-> a, asked |-> asked, wanted |-> wanted, key |-> key]
MCRequests ==
    {Asks(main, 1, Several, "a", Arm(Nowhere), key1),
     Asks(main, 2, Oci(<<Built1>>), "a", Arm("v8"), NoAddKey),
     Asks(dev, 2, Several, "b", Amd, NoAddKey)}
    \cup {Asks(main, 1, a, Nowhere, Amd, NoAddKey) :
             a \in {Legacy, Damaged, Misnamed, Short, Foreign, Several}}

\* Checkouts: a directory with a program, a directory of its own, a link, an
\* empty directory and one that is never ingested.
OneFile(t, mode) == [kind |-> "file", bytes |-> t, mode |-> mode]
Folder(entries) == [kind |-> "dir", entries |-> entries]
MCSource == Folder(<<OneFile(base, "700"),
                     Folder(<<[kind |-> "link", target |-> other], EmptyDir>>),
                     Folder(<<OneFile(other, "644")>>)>>)
MCDestinations == {Absent, Folder(<<OneFile(other, "600")>>)}
MCRewrites == {OneFile(gzbase, "644"), [kind |-> "socket"]}
MCFileSize(t) == IF t = gzbase THEN 2 ELSE 1

Symmetry == Permutations(Adders) \cup Permutations(Processes)

codecVars == <<decoding>>
AtRest(m) ==
    /\ m = "codec" \/ (decoding = Nothing /\ UNCHANGED codecVars)
    /\ m = "file" \/ (file = Closed /\ UNCHANGED file)
    /\ m = "tree" \/ (edits = 0 /\ UNCHANGED treeVars)
    /\ m = "images" \/ (ImagesInit /\ UNCHANGED imageVars)
    /\ m = "checkout" \/ (CheckoutInit /\ UNCHANGED checkoutVars)

vars == <<decoding, file, treeVars, imageVars, checkoutVars>>

Init == decoding = Nothing /\ ContentInit /\ TreeIdle /\ ImagesInit /\ CheckoutInit

Next ==
    \/ AtRest("codec") /\ DecodeNext
    \/ AtRest("file") /\ ContentNext
    \/ AtRest("tree") /\ TreeNext
    \/ AtRest("images") /\ ImagesNext
    \/ AtRest("checkout") /\ CheckoutNext

Spec == Init /\ [][Next]_vars
=============================================================================
