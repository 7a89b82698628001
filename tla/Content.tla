------------------------------ MODULE Content ------------------------------
(***************************************************************************)
(* A file's bytes on their way into the store and out again: cut into      *)
(* chunks while they stream in (format/cdc.py), gathered under index nodes *)
(* (format/shape.py) and read back by range (fs/blob.py).  An object's     *)
(* name is its hash and stands here as the object itself.                  *)
(***************************************************************************)
EXTENDS Shape, Integers

CONSTANTS
    Bytes,                            \* the values a byte has
    Gear,                             \* what the rolling hash adds for a byte
    WordBits,                         \* the width of the rolling hash
    ShortBits, LongBits,              \* the widths of the two masks
    MinChunk, AvgChunk, MaxChunk,     \* ChunkParams
    Window,                           \* what one read asks the source for
    Digest(_),                        \* an object's name, as the hash sees it
    MaxLength                         \* bound: the longest file

ASSUME ChunkParamsAssumption ==
    /\ 0 < MinChunk /\ MinChunk <= AvgChunk /\ AvgChunk <= MaxChunk
    /\ ShortBits > LongBits /\ LongBits >= 1 /\ ShortBits < WordBits

VARIABLE file   \* the file being written, or Closed

Closed == [step |-> "closed"]

Least(a, b) == IF a < b THEN a ELSE b

Chunk(data) == [kind |-> "chunk", data |-> data]
Blob(level, entries) == [kind |-> "blob", level |-> level, entries |-> entries]

-----------------------------------------------------------------------------
\* Cutting

\* fingerprint & mask = 0 for a mask of the word's top bits.
Matches(print, bits) == print < 2 ^ (WordBits - bits)

\* The rolling hash from the first byte past the minimum up to index i.
Fingerprints(data) ==
    LET f[i \in MinChunk - 1 .. Len(data) - 1] ==
            IF i < MinChunk THEN 0
            ELSE (2 * f[i - 1] + Gear[data[i + 1]]) % 2 ^ WordBits
    IN  f

\* The length of the first chunk of data.
CutPoint(data) ==
    LET end    == Least(Len(data), MaxChunk)
        normal == Least(AvgChunk, end)
        print  == Fingerprints(data)
        cuts   == {i \in MinChunk .. end - 1 :
                      Matches(print[i], IF i < normal THEN ShortBits ELSE LongBits)}
    IN  IF Len(data) <= MinChunk THEN Len(data)
        ELSE IF cuts = {} THEN end
        ELSE CHOOSE i \in cuts : \A j \in cuts : i <= j

\* The chunks of a buffer held whole.
ChunkBytes(data) ==
    LET f[n \in 0 .. Len(data)] ==    \* the chunks of the last n bytes
            LET rest == SubSeq(data, Len(data) - n + 1, Len(data))
                size == CutPoint(rest)
            IN  IF n = 0 THEN <<>> ELSE <<SubSeq(rest, 1, size)>> \o f[n - size]
    IN  f[Len(data)]

Open(data) ==
    /\ file = Closed
    /\ file' = [step |-> "stream", data |-> data, source |-> data, buffer |-> <<>>,
                exhausted |-> FALSE, chunks |-> <<>>, level |-> 0, entries |-> <<>>, stored |-> {}]

\* Faulty variant: the source is read ahead of the cuts.
RefillAhead ==
    /\ file.step = "stream"
    /\ ~file.exhausted
    /\ \/ /\ file.source = <<>>
          /\ file' = [file EXCEPT !.exhausted = TRUE]
       \/ \E n \in 1 .. Least(Window, Len(file.source)) :
             file' = [file EXCEPT !.buffer = @ \o SubSeq(file.source, 1, n),
                                  !.source = SubSeq(@, n + 1, Len(@))]

\* The buffer is filled up while a cut could lie beyond its end; a read
\* returns what it has, and nothing at the end.
Refill ==
    /\ file.step = "stream"
    /\ ~file.exhausted /\ Len(file.buffer) < MaxChunk
    /\ \/ /\ file.source = <<>>
          /\ file' = [file EXCEPT !.exhausted = TRUE]
       \/ \E n \in 1 .. Least(Window, Len(file.source)) :
             file' = [file EXCEPT !.buffer = @ \o SubSeq(file.source, 1, n),
                                  !.source = SubSeq(@, n + 1, Len(@))]

\* Faulty variant: a chunk is cut from whatever one read brought.
EmitEagerly ==
    /\ file.step = "stream"
    /\ file.buffer # <<>>
    /\ LET size == CutPoint(file.buffer)
           data == SubSeq(file.buffer, 1, size)
       IN  file' = [file EXCEPT !.buffer = SubSeq(@, size + 1, Len(@)),
                                !.chunks = Append(@, data),
                                !.stored = @ \cup {Chunk(data)}]

\* The next chunk leaves the buffer and is stored.
EmitChunk ==
    /\ file.step = "stream"
    /\ file.exhausted \/ Len(file.buffer) >= MaxChunk
    /\ file.buffer # <<>>
    /\ LET size == CutPoint(file.buffer)
           data == SubSeq(file.buffer, 1, size)
       IN  file' = [file EXCEPT !.buffer = SubSeq(@, size + 1, Len(@)),
                                !.chunks = Append(@, data),
                                !.stored = @ \cup {Chunk(data)}]

-----------------------------------------------------------------------------
\* Gathering

\* The stream has ended: what was stored becomes the entries of level 0.
Gather ==
    /\ file.step = "stream"
    /\ file.exhausted /\ file.buffer = <<>>
    /\ file' = [file EXCEPT !.step = "build",
          !.entries = [i \in DOMAIN file.chunks |->
                         [target |-> Chunk(file.chunks[i]), size |-> Len(file.chunks[i])]]]

SizeOf(entries) == FoldLeft(LAMBDA n, e : n + e.size, 0, entries)

BlobRuns(entries, level) ==
    RunsOf(entries, Partition([i \in DOMAIN entries |-> Digest(entries[i].target)],
                              [i \in DOMAIN entries |-> BlobEntryBytes], level))

\* One round of build_blob: the entries become nodes, and those the entries
\* of the next level, until there is one; no entries at all are one node too.
BuildLevel ==
    /\ file.step = "build"
    /\ LET runs  == IF file.entries = <<>> THEN << <<>> >>
                    ELSE BlobRuns(file.entries, file.level)
           nodes == [i \in DOMAIN runs |->
                       [target |-> Blob(file.level, runs[i]), size |-> SizeOf(runs[i])]]
       IN  file' = [file EXCEPT
              !.step = IF Len(nodes) = 1 THEN "built" ELSE "build",
              !.level = IF Len(nodes) = 1 THEN @ ELSE @ + 1,
              !.entries = nodes,
              !.stored = @ \cup {nodes[i].target : i \in DOMAIN nodes}]

Close == file.step = "built" /\ file' = Closed

Root == file.entries[1].target

-----------------------------------------------------------------------------
\* Reading

\* Faulty variant: an end that falls inside a chunk does not cut it.
SliceToTheEnd(located, offset, end) ==
    LET from == IF offset > located.start THEN offset - located.start ELSE 0
    IN  SubSeq(located.name.data, from + 1, located.size)

\* The chunks of a node that overlap [start, end), with where each begins;
\* what lies outside is neither read nor entered.
RECURSIVE Descend(_, _, _, _)
Descend(node, base, start, end) ==
    LET at(i)  == base + SizeOf(SubSeq(node.entries, 1, i - 1))
        meet   == SelectSeq([i \in DOMAIN node.entries |-> i], LAMBDA i :
                     at(i) + node.entries[i].size > start /\ at(i) < end)
        below(i) == IF node.level = 0
                    THEN <<[name |-> node.entries[i].target, start |-> at(i),
                            size |-> node.entries[i].size]>>
                    ELSE Descend(node.entries[i].target, at(i), start, end)
    IN  FlattenSeq([k \in DOMAIN meet |-> below(meet[k])])

\* What one located chunk contributes to the range [offset, end).
Slice(located, offset, end) ==
    LET from == IF offset > located.start THEN offset - located.start ELSE 0
        upto == Least(end - located.start, located.size)
    IN  SubSeq(located.name.data, from + 1, upto)

ReadRange(root, offset, length) ==
    LET total == SizeOf(root.entries)
        end   == Least(offset + length, total)
        found == Descend(root, 0, offset, end)
    IN  IF offset >= total \/ offset >= end THEN <<>>
        ELSE FlattenSeq([i \in DOMAIN found |-> Slice(found[i], offset, end)])

\* chunk_names: what the whole file is made of.
RECURSIVE ChunkNames(_)
ChunkNames(node) ==
    FlattenSeq([i \in DOMAIN node.entries |->
        IF node.level = 0 THEN <<node.entries[i].target>> ELSE ChunkNames(node.entries[i].target)])

-----------------------------------------------------------------------------
Files == UNION {[1 .. n -> Bytes] : n \in 0 .. MaxLength}

ContentInit == file = Closed

ContentNext ==
    \/ \E data \in Files : Open(data)
    \/ Refill \/ EmitChunk \/ Gather \/ BuildLevel \/ Close

-----------------------------------------------------------------------------
\* Properties

\* The shape of a file on its way; what is held of it in memory never exceeds
\* a chunk and one read.
ContentTypeOK ==
    \/ file = Closed
    \/ /\ file.step \in {"stream", "build", "built"}
       /\ file.source \in Files /\ file.buffer \in Files
       /\ Len(file.buffer) < MaxChunk + Window
       /\ \A i \in DOMAIN file.entries : file.entries[i].size > 0 \/ file.data = <<>>

\* However the reads of chunk_stream fall, it cuts where chunk_bytes does: a
\* file has one list of chunks, or deduplication would depend on the network.
StreamMatchesWhole ==
    file # Closed =>
        LET whole == ChunkBytes(file.data)
        IN  /\ IsPrefix(file.chunks, whole)
            /\ file.step # "stream" => file.chunks = whole

\* Every node build_blob makes is one the codec accepts: no chunk without
\* bytes or above the maximum, no inner node with fewer than two children.
NodesEncode ==
    file # Closed => \A o \in file.stored :
        IF o.kind = "chunk" THEN Len(o.data) \in 1 .. MaxChunk
        ELSE /\ o.level > 0 => Len(o.entries) >= 2
             /\ NodeHeaderBytes + BlobEntryBytes * Len(o.entries) <= MaxNodeBytes
             /\ \A i \in DOMAIN o.entries : o.entries[i].target \in file.stored

\* Whatever range is read of the finished file, the bytes are the file's, and
\* the walk of its chunks is the list that was stored.
ReadsBack ==
    file # Closed /\ file.step = "built" =>
        /\ \A o \in 0 .. MaxLength, n \in 0 .. MaxLength :
              ReadRange(Root, o, n) = SubSeq(file.data, o + 1, Least(o + n, Len(file.data)))
        /\ ChunkNames(Root) = [i \in DOMAIN file.chunks |-> Chunk(file.chunks[i])]

\* A file has one list of chunks however it streams in, is stored in nodes the
\* codec accepts, and reads back by any range.
FileInv == ContentTypeOK /\ StreamMatchesWhole /\ NodesEncode /\ ReadsBack
=============================================================================
