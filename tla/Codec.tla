------------------------------- MODULE Codec -------------------------------
(***************************************************************************)
(* The canonical encoding (format/codec.py over format/wire.py).  An       *)
(* object someone offers is decoded field by field; the bytes are chosen   *)
(* as they are read, so every input is met, and end where no more are      *)
(* chosen.  A field of fixed width, a name and a length-prefixed text are  *)
(* one token each: their widths decide where the next one starts.          *)
(***************************************************************************)
EXTENDS Integers, SequencesExt

CONSTANTS
    Targets,        \* object names
    Texts, BadText, \* texts by length, which is also their order; one is not UTF-8
    ForbiddenNames, \* texts no entry may have for its name
    ChunkLimit,     \* the longest chunk; its data is known by its length
    NodeSize,       \* the largest node, in tokens and letters of names
    MaxCount        \* bound: the largest count offered

ASSUME TextsAssumption ==
    0 \in Texts /\ ForbiddenNames \subseteq Texts /\ BadText > Max(Texts)

Offered == Texts \cup {BadText}
Kinds == {"chunk", "blob", "tree", "commit"}
EntryKinds == {"tree", "blob", "symlink", "conflict"}
FileModes == {"regular", "exec"}
Modes == {"regular", "zero", "other"}
Sizes == 0 .. 1
Versions == {1}

VARIABLE decoding   \* the decoding of one offered object

Nothing == [step |-> "idle"]

-----------------------------------------------------------------------------
\* Validation, called from both directions

ValidChunk(size) == size # 0 /\ size <= ChunkLimit

ValidLevel(level, count) == level > 0 => count >= 2

ValidName(n) == n # 0 /\ n \notin ForbiddenNames /\ n # BadText

StrictlyAscending(keys) ==
    \A i \in DOMAIN keys : i > 1 => keys[i - 1] < keys[i]

ValidEntry(level, e) ==
    /\ ValidName(e.name)
    /\ e.kind # "conflict"
    /\ IF level > 0 THEN e.kind = "tree" /\ e.mode = "zero" /\ e.size = 0
       ELSE CASE e.kind = "blob"    -> e.mode \in FileModes
              [] e.kind = "tree"    -> e.mode = "zero" /\ e.size = 0
              [] e.kind = "symlink" -> e.mode = "zero"

ValidEntries(o) ==
    /\ StrictlyAscending([i \in DOMAIN o.entries |-> o.entries[i].name])
    /\ \A i \in DOMAIN o.entries : ValidEntry(o.level, o.entries[i])

ValidCommit(o) ==
    /\ IsInjective(o.parents)
    /\ o.author # 0 /\ o.committer # 0
    /\ \A i \in DOMAIN o.metadata : o.metadata[i].key # 0
    /\ StrictlyAscending([i \in DOMAIN o.metadata |-> o.metadata[i].key])

-----------------------------------------------------------------------------
\* Encoding

Header(kind) == <<kind, 1>>
Count(s) == <<Len(s)>>

Tokens(o) ==
    Header(o.kind) \o
    CASE o.kind = "chunk" -> <<o.data>>
      [] o.kind = "blob" -> <<o.level>> \o Count(o.entries) \o
            FlattenSeq([i \in DOMAIN o.entries |-> <<o.entries[i].target, o.entries[i].size>>])
      [] o.kind = "tree" -> <<o.level>> \o Count(o.entries) \o
            FlattenSeq([i \in DOMAIN o.entries |-> LET e == o.entries[i]
                        IN  <<e.name, e.kind, e.target, e.mode, e.size>>])
      [] o.kind = "commit" -> <<o.tree>> \o Count(o.parents) \o o.parents
            \o <<o.author, o.committer, o.message>> \o Count(o.metadata)
            \o FlattenSeq([i \in DOMAIN o.metadata |-> <<o.metadata[i].key, o.metadata[i].value>>])

EncodedSize(o) ==
    Len(Tokens(o)) + (IF o.kind = "tree" THEN FoldLeft(LAMBDA n, e : n + e.name, 0, o.entries)
                      ELSE 0)

\* What encode raises for is not encoded.
Encodes(o) ==
    CASE o.kind = "chunk" -> ValidChunk(o.data)
      [] o.kind = "blob" -> /\ ValidLevel(o.level, Len(o.entries))
                            /\ \A i \in DOMAIN o.entries : o.entries[i].size > 0
                            /\ EncodedSize(o) <= NodeSize
      [] o.kind = "tree" -> /\ ValidLevel(o.level, Len(o.entries))
                            /\ ValidEntries(o)
                            /\ EncodedSize(o) <= NodeSize
      [] o.kind = "commit" -> ValidCommit(o)

-----------------------------------------------------------------------------
\* Decoding

Step(next, toks) == [decoding EXCEPT !.step = next, !.toks = @ \o toks]
Reject == decoding' = [decoding EXCEPT !.step = "rejected"]

\* decode: a known kind in a readable version, or nothing is read further.
ReadHeader(kind, version) ==
    /\ decoding = Nothing
    /\ LET d == [step |-> kind, toks |-> <<kind, version>>, left |-> 0, obj |-> [kind |-> kind]]
       IN  decoding' = IF kind \in Kinds /\ version \in Versions THEN d
                       ELSE [d EXCEPT !.step = "rejected"]

\* A chunk is everything that is left.
ReadChunk(data) ==
    /\ decoding.step = "chunk"
    /\ IF ~ValidChunk(data) THEN Reject
       ELSE decoding' = [Step("exhausted", <<data>>) EXCEPT !.obj = [kind |-> "chunk", data |-> data]]

\* A blob or a tree: its level and how many entries follow.
ReadNode(level, count) ==
    /\ decoding.step \in {"blob", "tree"}
    /\ decoding' = [Step("entries", <<level, count>>) EXCEPT
                       !.left = count,
                       !.obj = [kind |-> decoding.step, level |-> level, entries |-> <<>>]]

Entries(entry, toks) ==
    [Step("entries", toks) EXCEPT !.left = @ - 1, !.obj.entries = Append(@, entry)]

\* Faulty variant: entries are read whatever count was given.
ReadBlobEntries(target, size) ==
    /\ decoding.step = "entries" /\ decoding.obj.kind = "blob"
    /\ IF size <= 0 THEN Reject
       ELSE decoding' = Entries([target |-> target, size |-> size], <<target, size>>)

\* An entry of no size is refused as it is read, one that is out of order
\* only when all are there.
ReadBlobEntry(target, size) ==
    /\ decoding.step = "entries" /\ decoding.obj.kind = "blob" /\ decoding.left > 0
    /\ IF size <= 0 THEN Reject
       ELSE decoding' = Entries([target |-> target, size |-> size], <<target, size>>)

ReadTreeEntry(name, kind, target, mode, size) ==
    /\ decoding.step = "entries" /\ decoding.obj.kind = "tree" /\ decoding.left > 0
    /\ IF kind \notin EntryKinds THEN Reject
       ELSE decoding' = Entries([name |-> name, kind |-> kind, target |-> target,
                                 mode |-> mode, size |-> size],
                                <<name, kind, target, mode, size>>)

\* Faulty variant: the order of a tree's entries is left to whoever built it.
AcceptAnyOrder ==
    /\ decoding.step = "entries" /\ decoding.left = 0
    /\ LET o == decoding.obj
       IN  IF /\ ValidLevel(o.level, Len(o.entries))
              /\ o.kind = "tree" =>
                    \A i \in DOMAIN o.entries : ValidEntry(o.level, o.entries[i])
              /\ EncodedSize(o) <= NodeSize
           THEN decoding' = Step("exhausted", <<>>)
           ELSE Reject

\* The node as a whole: its level, its entries and their order, its size.
AcceptNode ==
    /\ decoding.step = "entries" /\ decoding.left = 0
    /\ LET o == decoding.obj
       IN  IF /\ ValidLevel(o.level, Len(o.entries))
              /\ o.kind = "tree" => ValidEntries(o)
              /\ EncodedSize(o) <= NodeSize
           THEN decoding' = Step("exhausted", <<>>)
           ELSE Reject

\* A commit: what it links to,
ReadLinks(tree, parents) ==
    /\ decoding.step = "commit"
    /\ decoding' = [Step("texts", <<tree, Len(parents)>> \o parents) EXCEPT
                       !.obj = [kind |-> "commit", tree |-> tree, parents |-> parents]]

\* its texts, each of them UTF-8 or refused at once,
ReadTexts(author, committer, message, count) ==
    /\ decoding.step = "texts"
    /\ IF BadText \in {author, committer, message} THEN Reject
       ELSE decoding' = [Step("metadata", <<author, committer, message, count>>) EXCEPT
              !.left = count,
              !.obj = @ @@ [author |-> author, committer |-> committer, message |-> message,
                            metadata |-> <<>>]]

ReadMetadata(key, value) ==
    /\ decoding.step = "metadata" /\ decoding.left > 0
    /\ IF BadText \in {key, value} THEN Reject
       ELSE decoding' = [Step("metadata", <<key, value>>) EXCEPT
              !.left = @ - 1, !.obj.metadata = Append(@, [key |-> key, value |-> value])]

\* Faulty variant: metadata is kept in whatever order it came.
AcceptAnyMetadata ==
    /\ decoding.step = "metadata" /\ decoding.left = 0
    /\ IF IsInjective(decoding.obj.parents) /\ decoding.obj.author # 0
          /\ decoding.obj.committer # 0
       THEN decoding' = Step("exhausted", <<>>) ELSE Reject

\* and what only the whole can show.
AcceptCommit ==
    /\ decoding.step = "metadata" /\ decoding.left = 0
    /\ IF ValidCommit(decoding.obj) THEN decoding' = Step("exhausted", <<>>) ELSE Reject

\* The bytes end before the object does.
Truncated ==
    /\ \/ decoding.step \in {"blob", "tree", "commit", "texts"}
       \/ decoding.step \in {"entries", "metadata"} /\ decoding.left > 0
    /\ Reject

\* Faulty variant: what follows the object is ignored.
AcceptTrailing(more) ==
    /\ decoding.step = "exhausted"
    /\ decoding' = Step("accepted", more)

\* expect_exhausted: there must be no more bytes.
ExpectExhausted(more) ==
    /\ decoding.step = "exhausted"
    /\ IF more = <<>> THEN decoding' = Step("accepted", <<>>) ELSE Reject

Return == decoding.step \in {"accepted", "rejected"} /\ decoding' = Nothing

-----------------------------------------------------------------------------
UpTo(S, n) == UNION {[1 .. k -> S] : k \in 0 .. n}

DecodeNext ==
    \/ \E k \in Kinds \cup {"unknown"}, v \in {1, 2} : ReadHeader(k, v)
    \/ \E data \in 0 .. ChunkLimit + 1 : ReadChunk(data)
    \/ \E l \in 0 .. 1, n \in 0 .. MaxCount : ReadNode(l, n)
    \/ \E t \in Targets, s \in Sizes : ReadBlobEntry(t, s)
    \/ \E n \in Offered, k \in EntryKinds \cup {"unknown"}, m \in Modes, s \in Sizes :
          ReadTreeEntry(n, k, CHOOSE t \in Targets : TRUE, m, s)
    \/ \E t \in Targets, ps \in UpTo(Targets, 2) : ReadLinks(t, ps)
    \/ \E a, c \in {0, 1, BadText}, m \in {0, BadText}, n \in 0 .. MaxCount : ReadTexts(a, c, m, n)
    \/ \E k \in Offered, v \in {0, BadText} : ReadMetadata(k, v)
    \/ AcceptNode \/ AcceptCommit \/ Truncated
    \/ \E more \in {<<>>, <<0>>} : ExpectExhausted(more)
    \/ Return

-----------------------------------------------------------------------------
\* Properties

DecodeTypeOK ==
    decoding = Nothing \/
    /\ decoding.step \in Kinds \cup {"unknown", "entries", "texts", "metadata",
                                       "exhausted", "accepted", "rejected"}
    /\ decoding.left \in 0 .. MaxCount
    /\ decoding.obj.kind \in Kinds \cup {"unknown"}

Accepted == decoding # Nothing /\ decoding.step = "accepted"

\* For every byte string that decodes, encode(decode(b)) = b: it can be
\* encoded, to the very bytes it was read from.
Canonical == Accepted => Encodes(decoding.obj) /\ Tokens(decoding.obj) = decoding.toks

\* One meaning has one accepted spelling: a directory's entries as a set, and
\* a commit's metadata as a map, are in the one order that sorting gives.
OneSpelling ==
    Accepted =>
        LET o == decoding.obj
            sorted(keys) == keys = SetToSortSeq(ToSet(keys), <)
        IN  /\ o.kind = "tree" => sorted([i \in DOMAIN o.entries |-> o.entries[i].name])
            /\ o.kind \in {"tree", "blob"} /\ o.level > 0 => Len(o.entries) > 1
            /\ o.kind = "commit" => sorted([i \in DOMAIN o.metadata |-> o.metadata[i].key])

\* An object has one spelling, and the decoder accepts no other.
CodecInv == DecodeTypeOK /\ Canonical /\ OneSpelling
=============================================================================
