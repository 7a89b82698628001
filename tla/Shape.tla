------------------------------- MODULE Shape -------------------------------
(***************************************************************************)
(* Where a run of entries splits into nodes (format/shape.py): the cut of  *)
(* one level, which the builders of blobs (Content) and of directories     *)
(* (FileTree) repeat until a single node remains.  The hash that places a  *)
(* boundary is a constant: any predicate on keys and levels will do.       *)
(***************************************************************************)
EXTENDS Naturals, Sequences, SequencesExt

CONSTANTS
    IsBoundary(_, _),   \* blake3(domain, level, key) mod period = 0
    MinEntries, MaxEntries, MaxNodeBytes

\* ShapeParams also admits MinEntries = 1, with which an inner node can have
\* one child and cannot be encoded; the shipped parameters are above it.
ASSUME ShapeAssumption ==
    /\ MinEntries \in Nat /\ 2 <= MinEntries
    /\ MaxEntries \in Nat /\ MinEntries < MaxEntries
    /\ MaxNodeBytes \in Nat /\ 64 <= MaxNodeBytes

MinInteriorChildren == 2

\* Object header, level and entry count.
NodeHeaderBytes == 7
BlobEntryBytes == 40

\* One entry of the scan: it ends its node when the node is full in bytes or
\* in entries, or where the hash says so once the node is long enough.
Consider(keys, bytes, level, cut, i) ==
    LET total == cut.bytes + bytes[i]
        count == i - cut.start
        full  == total >= MaxNodeBytes
    IN  IF full \/ (count >= MinEntries /\ (count >= MaxEntries \/ IsBoundary(keys[i], level)))
        THEN [ends |-> Append(cut.ends, i), start |-> i, bytes |-> 0]
        ELSE [cut EXCEPT !.bytes = total]

\* Faulty variant: the last node keeps its single child.
KeepLonelyTail(ends) == ends

\* An inner node must have two children: a lonely last child takes one from
\* the node before it, or the two nodes become one.
NoLonelyTail(ends) ==
    LET n      == Len(ends)
        before == IF n >= 3 THEN ends[n - 2] ELSE 0
        tail   == ends[n] - ends[n - 1]
        needed == MinInteriorChildren - tail
    IN  IF n < 2 THEN ends
        ELSE IF tail >= MinInteriorChildren THEN ends
        ELSE IF (ends[n - 1] - before) - MinInteriorChildren >= needed
             THEN [ends EXCEPT ![n - 1] = @ - needed]
             ELSE RemoveAt(ends, n - 1)

\* The ends of the nodes of one level.
Partition(keys, bytes, level) ==
    LET cut  == FoldLeftDomain(LAMBDA c, i : Consider(keys, bytes, level, c, i),
                               [ends |-> <<>>, start |-> 0, bytes |-> 0], keys)
        ends == IF cut.start < Len(keys) THEN Append(cut.ends, Len(keys)) ELSE cut.ends
    IN  IF level > 0 THEN NoLonelyTail(ends) ELSE ends

\* The runs of entries those ends delimit.
RunsOf(entries, ends) ==
    [i \in DOMAIN ends |-> SubSeq(entries, (IF i = 1 THEN 0 ELSE ends[i - 1]) + 1, ends[i])]
=============================================================================
