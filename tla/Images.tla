------------------------------- MODULE Images -------------------------------
(***************************************************************************)
(* Container images in an environment.  An image is picked out of an       *)
(* archive (oci/source.py), its layers are stored uncompressed under the   *)
(* digests its config promises (oci/ingest.py), and it is published with   *)
(* the images already there as the next version of a ref (oci/layout.py,   *)
(* service/images.py).  The registry (api/oci.py) serves manifests and     *)
(* blobs from what refs name when they are asked for, one request at a     *)
(* time.                                                                   *)
(*                                                                         *)
(* A blob stands for its SHA-256.  A sweep takes what no ref's history     *)
(* reaches and no addition has taken up: its races with writers are        *)
(* Collector's subject.  Refs are never deleted here: RefStore's.          *)
(***************************************************************************)
EXTENDS Naturals, Sequences, SequencesExt, FiniteSets, FiniteSetsExt

CONSTANTS
    Adders,      \* threads that add images
    Branches,    \* refs
    ImageNames,  \* what an environment calls an image, in their order: numbers
    AddRequests, \* what is asked: [ref, image, archive, asked, wanted, key]
    DiffIds,     \* the layers each config promises, in order
    BlobSize,    \* the length of each blob
    AddKeys, NoAddKey,
    Nowhere,     \* no such thing
    MaxAdds, MaxReverts, MaxDeaths   \* bounds

\* A caller asks for one thing under a key.
ASSUME OneRequestPerKey ==
    \A q, r \in AddRequests : q.key = r.key /\ q.key # NoAddKey => q = r

VARIABLES
    blobs,       \* the contents the store holds
    rows,        \* the digest index: [digest, target]
    heads,       \* per ref, its generation and the versions behind it
    add,         \* what each adder is doing
    answered,    \* how the last addition ended
    recorded,    \* per key, the version its operation published
    forgetting,  \* contents a sweep has deleted and not forgotten yet
    pull,        \* a client's pull
    spent        \* how much of the bounds is used

imageVars == <<blobs, rows, heads, add, answered, recorded, forgetting, pull, spent>>

NoImages == [index |-> <<>>, files |-> {}]
NotAdding == [step |-> "idle", held |-> {}]
NotPulling == [step |-> "idle", todo |-> {}, disturbed |-> FALSE, failed |-> FALSE]

Version(r) == IF heads[r].past = <<>> THEN NoImages ELSE Last(heads[r].past)
Recent(v) == {v.index[i] : i \in DOMAIN v.index}

ImagesInit ==
    /\ blobs = {} /\ rows = {} /\ forgetting = {}
    /\ heads = [r \in Branches |-> [generation |-> 0, past |-> <<>>]]
    /\ add = [c \in Adders |-> NotAdding]
    /\ answered = "none"
    /\ recorded = [k \in AddKeys |-> Nowhere]
    /\ pull = NotPulling
    /\ spent = [adds |-> 0, reverts |-> 0, deaths |-> 0]

-----------------------------------------------------------------------------
\* Picking an image

\* Faulty variant: the first manifest an index holds is taken.
SelectPlatformFirst(descriptors, wanted) ==
    IF descriptors = <<>> THEN Nowhere ELSE Head(descriptors)

\* select_platform: the first runnable one for the platform; a variant counts
\* only when one is asked for.
SelectPlatform(descriptors, wanted) ==
    LET fits(d) ==
            /\ d.platform # Nowhere /\ d.platform.architecture # "unknown"
            /\ d.kind \in {"manifest", "index"}
            /\ d.platform.architecture = wanted.architecture
            /\ wanted.variant \in {Nowhere, d.platform.variant}
        found == SelectSeq(descriptors, fits)
    IN  IF found = <<>> THEN Nowhere ELSE Head(found)

\* _pick_named and _pick_legacy: an archive of one image needs no name.
PickNamed(descriptors, asked) ==
    LET found == SelectSeq(descriptors, LAMBDA d : asked \in d.names)
    IN  IF asked = Nowhere /\ Len(descriptors) = 1 THEN Head(descriptors)
        ELSE IF asked = Nowhere \/ found = <<>> THEN Nowhere
        ELSE Head(found)

MaxIndexDepth == 4

\* Down through nested indexes, by platform, which must end before the last
\* level it looks at.
Descended(picked, wanted) ==
    LET level[n \in 1 .. MaxIndexDepth] ==
            IF n = 1 THEN picked
            ELSE IF level[n - 1] # Nowhere /\ level[n - 1].kind = "index"
                 THEN SelectPlatform(level[n - 1].holds, wanted)
                 ELSE level[n - 1]
        last == level[MaxIndexDepth]
    IN  IF last # Nowhere /\ last.kind = "index" THEN Nowhere ELSE last

\* The descriptor of the image that is meant, or Nowhere; an archive of the
\* legacy kind holds one platform and no index.
Select(archive, asked, wanted) ==
    LET picked == PickNamed(archive.images, asked)
    IN  IF archive.layout = "docker" THEN picked
        ELSE Descended(picked, wanted)

-----------------------------------------------------------------------------
\* Storing it

Ended(c, outcome) ==
    /\ add' = [add EXCEPT ![c] = NotAdding]
    /\ answered' = outcome

\* ImageService.add: the ref is read first; the version built amends that one.
AskAdd(c, request) ==
    /\ add[c] = NotAdding
    /\ spent.adds < MaxAdds /\ spent' = [spent EXCEPT !.adds = @ + 1]
    /\ add' = [add EXCEPT ![c] =
          [step |-> "open", request |-> request,
           generation |-> heads[request.ref].generation, onto |-> Version(request.ref),
           source |-> Nowhere, layers |-> <<>>, files |-> {}, held |-> {}]]
    /\ answered' = "none"
    /\ UNCHANGED <<blobs, rows, heads, recorded, forgetting, pull>>

\* select, and _store_config: the config is stored as it is, if it is what the
\* manifest says; then it must promise as many layers as there are.
OpenArchive(c) ==
    LET q    == add[c]
        from == Select(q.request.archive, q.request.asked, q.request.wanted)
    IN  /\ q.step = "open"
        /\ IF from = Nowhere \/ from.claims \notin {Nowhere, from.config}
           THEN Ended(c, "invalid") /\ UNCHANGED blobs
           ELSE /\ blobs' = blobs \cup {from.config}
                /\ IF Len(DiffIds[from.config]) # Len(from.layers) THEN Ended(c, "invalid")
                   ELSE /\ add' = [add EXCEPT ![c].step = "layers", ![c].source = from,
                              ![c].held = {from.config},
                              ![c].files = {[digest |-> from.config, target |-> from.config]}]
                        /\ UNCHANGED answered
        /\ UNCHANGED <<rows, heads, recorded, forgetting, pull, spent>>

\* Faulty variant: the index is believed.
KnownUnchecked(digest) == {x \in rows : x.digest = digest}

\* _reuse: a row of the index is a hint, and the store decides.
Known(digest) == {x \in rows : x.digest = digest /\ x.target \in blobs}

\* A stored layer's descriptor: what it was compressed as stays on record.
Described(layer, digest) ==
    [digest |-> digest,
     compressed |-> IF layer.digest \in {Nowhere, digest} THEN Nowhere ELSE layer.digest]

Kept(c, layer, digest, target) ==
    add' = [add EXCEPT ![c].layers = Append(@, Described(layer, digest)),
                       ![c].files = @ \cup {[digest |-> digest, target |-> target]},
                       ![c].held = @ \cup {target}]

\* Faulty variant: what a layer unwraps to is not compared with its promise.
StoreLayerUnverified(c) ==
    LET q      == add[c]
        i      == Len(q.layers) + 1
        layer  == q.source.layers[i]
        digest == DiffIds[q.source.config][i]
    IN  /\ q.step = "layers" /\ i <= Len(q.source.layers)
        /\ IF layer.kind = "foreign" THEN Ended(c, "invalid") /\ UNCHANGED blobs
           ELSE blobs' = blobs \cup {layer.holds} /\ Kept(c, layer, digest, layer.holds)
                /\ UNCHANGED answered
        /\ UNCHANGED <<rows, heads, recorded, forgetting, pull, spent>>

\* _store_layer: taken from the store by its promised digest, or unwrapped,
\* stored and then compared with it.
StoreLayer(c) ==
    LET q      == add[c]
        i      == Len(q.layers) + 1
        layer  == q.source.layers[i]
        digest == DiffIds[q.source.config][i]
    IN  /\ q.step = "layers" /\ i <= Len(q.source.layers)
        /\ \/ /\ Known(digest) # {} /\ layer.kind # "foreign"
              /\ \E x \in Known(digest) : Kept(c, layer, digest, x.target)
              /\ UNCHANGED <<blobs, answered>>
           \/ /\ Known(digest) = {} /\ layer.kind # "foreign"
              /\ blobs' = blobs \cup {layer.holds}
              /\ IF layer.holds # digest THEN Ended(c, "invalid")
                 ELSE Kept(c, layer, digest, layer.holds) /\ UNCHANGED answered
           \/ layer.kind = "foreign" /\ Ended(c, "invalid") /\ UNCHANGED blobs
        /\ UNCHANGED <<rows, heads, recorded, forgetting, pull, spent>>

ManifestOf(q) == [config |-> q.source.config, layers |-> q.layers]

\* The manifest, rewritten to the layers as they are stored.
StoreManifest(c) ==
    LET q == add[c]
        m == ManifestOf(q)
    IN  /\ q.step = "layers" /\ Len(q.layers) = Len(q.source.layers)
        /\ blobs' = blobs \cup {m}
        /\ add' = [add EXCEPT ![c].step = "record",
              ![c].files = @ \cup {[digest |-> m, target |-> m]}, ![c].held = @ \cup {m}]
        /\ UNCHANGED <<rows, heads, answered, recorded, forgetting, pull, spent>>

\* DigestIndex.record, once the content is there.
RecordDigests(c) ==
    LET new == {[digest |-> add[c].layers[i].digest,
                 target |-> (CHOOSE x \in add[c].files : x.digest = add[c].layers[i].digest).target] :
                   i \in DOMAIN add[c].layers}
    IN  /\ add[c].step = "record"
        /\ rows' = {x \in rows : \A y \in new : x.digest # y.digest} \cup new
        /\ add' = [add EXCEPT ![c].step = "publish"]
        /\ UNCHANGED <<blobs, heads, answered, recorded, forgetting, pull, spent>>

-----------------------------------------------------------------------------
\* Publishing it

\* Faulty variant: images are listed in the order they came.
WithImageAppended(index, image, manifest) ==
    Append(SelectSeq(index, LAMBDA d : d.image # image), [image |-> image, manifest |-> manifest])

\* Faulty variant: an image added again stays where it was, too.
WithImageTwice(index, image, manifest) ==
    SortSeq(Append(index, [image |-> image, manifest |-> manifest]),
            LAMBDA d, e : d.image < e.image)

\* ImageIndex.with_image: added or replaced, in the order of names.
WithImage(index, image, manifest) ==
    LET kept == SelectSeq(index, LAMBDA d : d.image # image)
    IN  SortSeq(Append(kept, [image |-> image, manifest |-> manifest]),
                LAMBDA d, e : d.image < e.image)

\* Faulty variant: the files of the images already there are left behind.
FilesOfThis(old, new) == new

\* build_images_entry: by digest, and one of a kind, the newest.
FilesOfBoth(old, new) == {x \in old : \A y \in new : x.digest # y.digest} \cup new

Built(q) ==
    [index |-> WithImage(q.onto.index, q.request.image, ManifestOf(q)),
     files |-> FilesOfBoth(q.onto.files, q.files)]

\* Faulty variant: the ref is moved wherever it is.
PublishImageBlind(c) ==
    LET q == add[c]
    IN  /\ q.step = "publish"
        /\ heads' = [heads EXCEPT ![q.request.ref] =
              [generation |-> @.generation + 1, past |-> Append(@.past, Built(q))]]
        /\ Ended(c, "added")
        /\ UNCHANGED <<blobs, rows, recorded, forgetting, pull, spent>>

\* CommitService.publish: an operation recorded under the key answers it, if
\* it made the same version; else the ref moves if it has not moved.
PublishImage(c) ==
    LET q    == add[c]
        past == IF q.request.key = NoAddKey THEN Nowhere ELSE recorded[q.request.key]
    IN  /\ q.step = "publish"
        /\ IF past # Nowhere
           THEN /\ Ended(c, IF past = Built(q) THEN "replayed" ELSE "key conflict")
                /\ UNCHANGED <<heads, recorded>>
           ELSE IF heads[q.request.ref].generation # q.generation
           THEN Ended(c, "conflict") /\ UNCHANGED <<heads, recorded>>
           ELSE /\ heads' = [heads EXCEPT ![q.request.ref] =
                      [generation |-> @.generation + 1, past |-> Append(@.past, Built(q))]]
                /\ recorded' = IF q.request.key = NoAddKey THEN recorded
                               ELSE [recorded EXCEPT ![q.request.key] = Built(q)]
                /\ Ended(c, "added")
        /\ UNCHANGED <<blobs, rows, forgetting, pull, spent>>

\* The adder's process dies, or its caller stops listening.
Die(c) ==
    /\ add[c] # NotAdding
    /\ spent.deaths < MaxDeaths /\ spent' = [spent EXCEPT !.deaths = @ + 1]
    /\ Ended(c, "none")
    /\ UNCHANGED <<blobs, rows, heads, recorded, forgetting, pull>>

\* CommitService.revert: the ref names an earlier version again.
Revert(r) ==
    /\ spent.reverts < MaxReverts /\ spent' = [spent EXCEPT !.reverts = @ + 1]
    /\ \E i \in 1 .. Len(heads[r].past) - 1 :
          heads' = [heads EXCEPT ![r] = [generation |-> @.generation + 1,
                                         past |-> SubSeq(@.past, 1, i)]]
    /\ pull' = [pull EXCEPT !.disturbed = TRUE]
    /\ UNCHANGED <<blobs, rows, add, answered, recorded, forgetting>>

-----------------------------------------------------------------------------
\* Sweeping

TargetsOf(v) == {x.target : x \in v.files}
Live == UNION {TargetsOf(heads[r].past[i]) : <<r, i>> \in
                 {<<s, j>> \in Branches \X (1 .. MaxAdds) : j <= Len(heads[s].past)}}

\* The bytes go first ...
Sweep ==
    LET gone == blobs \ (Live \cup UNION {add[c].held : c \in Adders})
    IN  /\ gone # {}
        /\ blobs' = blobs \ gone
        /\ forgetting' = gone
        /\ UNCHANGED <<rows, heads, add, answered, recorded, pull, spent>>

\* ... and then the rows that name them, if the collector lives.
ForgetDigests ==
    /\ forgetting # {} /\ forgetting' = {}
    /\ \/ rows' = {x \in rows : x.target \notin forgetting}
       \/ rows' = rows
    /\ UNCHANGED <<blobs, heads, add, answered, recorded, pull, spent>>

-----------------------------------------------------------------------------
\* The registry

\* Faulty variant: the last n bytes are read as the bytes from n.
RangeOfSuffixAsFrom(first, last, size) ==
    LET start == IF first = Nowhere THEN last ELSE first
    IN  IF start # Nowhere /\ start < size THEN <<start, size - 1>> ELSE Nowhere

\* _parse_range: the last n bytes, from a byte on, or from one to another.
RangeOf(first, last, size) ==
    IF first = Nowhere
    THEN IF last = Nowhere \/ last = 0 THEN Nowhere
         ELSE <<IF last > size THEN 0 ELSE size - last, size - 1>>
    ELSE LET end == IF last = Nowhere THEN size - 1 ELSE last
         IN  IF first <= end /\ end < size THEN <<first, end>> ELSE Nowhere

\* get_manifest by tag: what the ref names now.
OffersByTag(r, image) == {d \in Recent(Version(r)) : d.image = image}

\* get_manifest by digest: wherever a ref has it under that name.
OffersByDigest(m, image) ==
    {d \in UNION {Recent(Version(r)) : r \in Branches} : d.image = image /\ d.manifest = m}

BeginPull(offers) ==
    /\ pull.step = "idle"
    /\ \E d \in offers :
          pull' = [NotPulling EXCEPT !.step = "blobs",
             !.todo = {d.manifest.config} \cup {l.digest : l \in ToSet(d.manifest.layers)}]
    /\ UNCHANGED <<blobs, rows, heads, add, answered, recorded, forgetting, spent>>

\* find_blob, in any version a ref names now.
Serving(digest) ==
    {x \in UNION {Version(r).files : r \in Branches} : x.digest = digest}

\* get_blob, in any order; a client that is refused one gives up.
PullBlob(digest) ==
    /\ pull.step = "blobs" /\ digest \in pull.todo
    /\ pull' = IF Serving(digest) = {} THEN [pull EXCEPT !.step = "idle", !.todo = {}, !.failed = TRUE]
               ELSE [pull EXCEPT !.todo = @ \ {digest},
                                 !.step = IF pull.todo = {digest} THEN "idle" ELSE "blobs"]
    /\ UNCHANGED <<blobs, rows, heads, add, answered, recorded, forgetting, spent>>

-----------------------------------------------------------------------------
ImagesNext ==
    \/ \E c \in Adders :
          \/ \E q \in AddRequests : AskAdd(c, q)
          \/ OpenArchive(c) \/ StoreLayer(c) \/ StoreManifest(c) \/ RecordDigests(c)
          \/ PublishImage(c) \/ Die(c)
    \/ \E r \in Branches : Revert(r)
    \/ Sweep \/ ForgetDigests
    \/ \E r \in Branches, i \in ImageNames : BeginPull(OffersByTag(r, i))
    \/ \E m \in {d.manifest : d \in UNION {Recent(Version(r)) : r \in Branches}}, i \in ImageNames :
          BeginPull(OffersByDigest(m, i))
    \/ \E d \in pull.todo : PullBlob(d)
-----------------------------------------------------------------------------
\* Properties

\* The shape of the state; a row of the index is true of its content.
ImagesTypeOK ==
    /\ \A c \in Adders :
          /\ add[c].step \in {"idle", "open", "layers", "record", "publish"}
          /\ add[c].held \subseteq blobs
    /\ answered \in {"none", "invalid", "added", "replayed", "key conflict", "conflict"}
    /\ \A x \in rows : x.digest = x.target
    /\ \A x, y \in rows : x.digest = y.digest => x = y
    /\ pull.step \in {"idle", "blobs"}

\* Every image a version lists can be pulled and run: its manifest, its config
\* and its layers are files of that version and in the store, and unpacking
\* them gives what the config promises, layer by layer.
Pullable ==
    \A r \in Branches : \A d \in Recent(Version(r)) :
        LET m    == d.manifest
            file(digest) == {x \in Version(r).files : x.digest = digest}
        IN  /\ \A digest \in {m, m.config} \cup {l.digest : l \in ToSet(m.layers)} :
                  \E x \in file(digest) : x.target = digest /\ x.target \in blobs
            /\ [i \in DOMAIN m.layers |-> m.layers[i].digest] = DiffIds[m.config]

\* A pull that got its manifest gets every blob of it, though images are added
\* and replaced meanwhile, unless a ref goes back to an earlier version.
PullCompletes == pull.failed => pull.disturbed

\* Two versions that list the same images have the same index, whatever order
\* they came in.  The index alone: of the rest a version keeps what images it
\* no longer lists have left behind (README).
SameImagesSameIndex ==
    \A v, w \in UNION {ToSet(heads[r].past) : r \in Branches} :
        Recent(v) = Recent(w) => v.index = w.index

\* An addition takes no other image away: whoever amended the version it did
\* not see has won, and it starts again.
NoImageLost ==
    [][\A r \in Branches : Len(heads'[r].past) > Len(heads[r].past) =>
          LET new == Last(heads'[r].past)
              names(v) == {d.image : d \in Recent(v)}
          IN  /\ names(Version(r)) \subseteq names(new)
              /\ Cardinality(Recent(Version(r)) \ Recent(new)) <= 1]_imageVars

\* An addition repeated under its key, onto the version it made, is recognised
\* and not taken for another request: building it again builds the same.
RetryRecognised ==
    [][\A c \in Adders :
          /\ add[c].step = "publish" /\ add[c].request.key # NoAddKey
          /\ recorded[add[c].request.key] = add[c].onto
          /\ add'[c] # add[c]
          => answered' # "key conflict"]_imageVars

\* The image taken out of an index runs on the platform asked for, however
\* deep it lies there and whatever comes before it.  (One an archive lists by
\* itself is taken at its word.)
RunsOnHost ==
    \A c \in Adders : add[c].step = "layers" =>
        LET q == add[c].request
            p == add[c].source.platform
        IN  \/ add[c].source \in ToSet(q.archive.images)
            \/ /\ p.architecture = q.wanted.architecture
               /\ q.wanted.variant \in {Nowhere, p.variant}

\* Bytes a range request is answered with are those it asks for, and one that
\* asks for some of a blob's bytes only is answered.
RangeServed ==
    pull.step = "blobs" =>
        \A digest \in pull.todo, first, last \in {Nowhere} \cup 0 .. 3 :
            LET size   == BlobSize[digest]
                answer == RangeOf(first, last, size)
                wanted == {i \in 0 .. size - 1 :
                             IF first = Nowhere THEN last # Nowhere /\ i + last >= size
                             ELSE i >= first /\ (last = Nowhere \/ i <= last)}
            IN  IF answer = Nowhere
                THEN wanted = {} \/ (last # Nowhere /\ last >= size)
                ELSE wanted = answer[1] .. answer[2]

\* Every image of every version can be pulled and is for the platform it was
\* asked for; versions that list the same images have the same index.  A pull
\* gets what its manifest names, whole or by ranges.
ImagesInv ==
    /\ ImagesTypeOK /\ Pullable /\ RunsOnHost /\ SameImagesSameIndex
    /\ PullCompletes /\ RangeServed

\* Additions compose: no image of another's is written over, and a retry onto
\* the version its first attempt made is recognised.  Once another has added to
\* that version a retry is a key conflict, as the code has it.
AddsCompose == NoImageLost /\ RetryRecognised
=============================================================================
