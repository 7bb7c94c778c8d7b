------------------------------ MODULE ChunkFile ------------------------------
(***************************************************************************)
(* How AgentFS stores the content of one file: fs_inode.size and rows of   *)
(* fs_data, one per chunk, that may be missing (a hole) or shorter than    *)
(* chunk_size.  The file is read and written through a handle              *)
(* (impl File for AgentFSFile) and by path (AgentFS::pread, pwrite,        *)
(* read_file, truncate); the two have code of their own.                   *)
(*                                                                         *)
(* Each write is one IMMEDIATE transaction on the only connection, so it   *)
(* is one action.  A chunk is the sequence of its bytes, <<>> where there  *)
(* is no row: the code never stores an empty blob.                         *)
(***************************************************************************)
EXTENDS Integers, Sequences, FiniteSetsExt

CONSTANTS
    Bytes,      \* byte values
    ChunkSize,  \* fs_config chunk_size
    MaxSize,    \* bound: the largest file
    Payloads    \* the byte strings that are written

ASSUME ChunkAssumption ==
    /\ 0 \in Bytes
    /\ ChunkSize \in Nat \ {0}
    /\ MaxSize \in Nat
    /\ Payloads \subseteq Seq(Bytes)

VARIABLES
    exists,  \* the file has been created
    size,    \* fs_inode.size
    chunks,  \* fs_data.data by chunk_index
    holes    \* history: some bytes were skipped since the file was last empty

vars == <<exists, size, chunks, holes>>

Index == 0 .. MaxSize \div ChunkSize

\* The byte at offset p: the reference reading of the tables.
ByteAt(p) ==
    LET c == chunks[p \div ChunkSize]
        k == (p % ChunkSize) + 1
    IN  IF k <= Len(c) THEN c[k] ELSE 0

Contents == [k \in 1 .. size |-> ByteAt(k - 1)]

BF == INSTANCE ByteFile WITH content <- Contents

Smaller(m, n) == IF m < n THEN m ELSE n
Larger(m, n) == IF m > n THEN m ELSE n
Zeros(n) == [k \in 1 .. n |-> 0]

TypeOK ==
    /\ exists \in BOOLEAN
    /\ size \in 0 .. MaxSize
    /\ chunks \in [Index -> UNION {[1 .. n -> Bytes] : n \in 0 .. ChunkSize}]
    /\ holes \in BOOLEAN

Init ==
    /\ exists = FALSE
    /\ size = 0
    /\ chunks = [i \in Index |-> <<>>]
    /\ holes = FALSE

(***************************************************************************)
(* Writing.  Of the write w at offset off, chunk i takes the bytes between *)
(* From and To, both counted in the chunk.                                 *)
(***************************************************************************)
From(i, off) == Larger(off - i * ChunkSize, 0)
To(i, end) == Smaller(end - i * ChunkSize, ChunkSize)
Touched(off, end) == off \div ChunkSize .. (end - 1) \div ChunkSize
Part(i, off, w) ==
    SubSeq(w, i * ChunkSize + From(i, off) - off + 1, i * ChunkSize + To(i, off + Len(w)) - off)

\* write_data_at_offset_with_conn: a whole chunk is replaced, another one read,
\* extended as far as needed and patched.
HandleChunk_NoResize(i, off, w) ==
    IF Len(Part(i, off, w)) = ChunkSize THEN Part(i, off, w)
    ELSE BF!Overwrite(<<>>, From(i, off), Part(i, off, w))

HandleChunk(i, off, w) ==
    IF Len(Part(i, off, w)) = ChunkSize THEN Part(i, off, w)
    ELSE BF!Overwrite(chunks[i], From(i, off), Part(i, off, w))

\* AgentFS::pwrite: a partly written chunk is read and padded to its full
\* length, patched, and the last chunk cut to where the file ends in it.
PathChunk(i, off, w) ==
    LET end == off + Len(w)
        partial == From(i, off) > 0 \/ To(i, end) < ChunkSize
        old == IF partial THEN BF!Resize(chunks[i], ChunkSize) ELSE Zeros(ChunkSize)
        full == BF!Overwrite(old, From(i, off), Part(i, off, w))
        oldEnd == IF size > i * ChunkSize THEN Smaller(size - i * ChunkSize, ChunkSize) ELSE 0
    IN  IF i = (end - 1) \div ChunkSize
        THEN SubSeq(full, 1, Larger(end - i * ChunkSize, oldEnd))
        ELSE full

HandlePwrite(off, w) ==
    /\ exists
    /\ w # <<>>
    /\ off + Len(w) <= MaxSize
    /\ chunks' = [i \in Index |-> IF i \in Touched(off, off + Len(w))
                                  THEN HandleChunk(i, off, w) ELSE chunks[i]]
    /\ size' = Larger(size, off + Len(w))
    /\ holes' = (holes \/ off > size)
    /\ UNCHANGED exists

\* pwrite by path creates a missing file with its final size.
PathPwrite(off, w) ==
    /\ off + Len(w) <= MaxSize
    /\ exists' = TRUE
    /\ IF w = <<>>
       THEN /\ size' = IF exists THEN size ELSE off
            /\ UNCHANGED chunks
       ELSE /\ size' = Larger(size, off + Len(w))
            /\ chunks' = [i \in Index |-> IF i \in Touched(off, off + Len(w))
                                          THEN PathChunk(i, off, w) ELSE chunks[i]]
    /\ holes' = (holes \/ (off > size /\ (w # <<>> \/ ~exists)))

(***************************************************************************)
(* Truncation.  Shrinking is the same on both sides; extending a handle    *)
(* only sets the size, extending a path stores the zeros.                  *)
(***************************************************************************)
LastChunk(n) == (n - 1) \div ChunkSize

Shrunk(n) ==
    [i \in Index |->
        IF n = 0 \/ i > LastChunk(n) THEN <<>>
        ELSE IF i = LastChunk(n) /\ n % ChunkSize > 0
             THEN SubSeq(chunks[i], 1, Smaller(n % ChunkSize, Len(chunks[i])))
             ELSE chunks[i]]

Padded_KeepsLast(n) ==
    LET last == IF size = 0 THEN -1 ELSE LastChunk(size)
        lenOf(i) == IF i = LastChunk(n) THEN ((n - 1) % ChunkSize) + 1 ELSE ChunkSize
    IN  [i \in Index |-> IF i \in last + 1 .. LastChunk(n) THEN Zeros(lenOf(i)) ELSE chunks[i]]

Padded(n) ==
    LET last == IF size = 0 THEN -1 ELSE LastChunk(size)
        lenOf(i) == IF i = LastChunk(n) THEN ((n - 1) % ChunkSize) + 1 ELSE ChunkSize
    IN  [i \in Index |->
            IF i = last /\ chunks[i] # <<>> THEN BF!Resize(chunks[i], Larger(lenOf(i), Len(chunks[i])))
            ELSE IF i \in last + 1 .. LastChunk(n) THEN Zeros(lenOf(i))
            ELSE chunks[i]]

HandleTruncate(n) ==
    /\ exists
    /\ chunks' = IF n = 0 \/ n < size THEN Shrunk(n) ELSE chunks
    /\ size' = n
    /\ holes' = (n # 0 /\ (holes \/ n > size))
    /\ UNCHANGED exists

PathTruncate(n) ==
    /\ exists
    /\ chunks' = IF n = 0 \/ n < size THEN Shrunk(n) ELSE IF n > size THEN Padded(n) ELSE chunks
    /\ size' = n
    /\ holes' = (n # 0 /\ holes)
    /\ UNCHANGED exists

Next ==
    \/ \E off \in 0 .. MaxSize, w \in Payloads : HandlePwrite(off, w) \/ PathPwrite(off, w)
    \/ \E n \in 0 .. MaxSize : HandleTruncate(n) \/ PathTruncate(n)

Spec == Init /\ [][Next]_vars

(***************************************************************************)
(* Reading.  `out' grows row by row, in the order of chunk_index.          *)
(***************************************************************************)
Rows(first, last) == {i \in Index : i \in first .. last /\ chunks[i] # <<>>}

\* AgentFSFile::pread, limited to the n bytes before the end of the file: fill
\* the gap before the row, take from it, pad it.
PreadRow(r, i, first, skip0, n) ==
    LET gap == IF i > r.next
               THEN Smaller((i - r.next) * ChunkSize - (IF r.next = first THEN skip0 ELSE 0),
                            n - Len(r.out))
               ELSE 0
        out == r.out \o Zeros(gap)
        skip == IF i = first THEN skip0 ELSE 0
        take == Smaller(Larger(Len(chunks[i]) - skip, 0), n - Len(out))
        taken == out \o SubSeq(chunks[i], skip + 1, skip + take)
        pad == Smaller(ChunkSize - skip - take, n - Len(taken))
    IN  [out |-> taken \o Zeros(pad), next |-> i + 1]

HandlePread_NoGaps(off, n) ==
    IF off >= size THEN <<>>
    ELSE LET want == Smaller(n, size - off)
             first == off \div ChunkSize
             last == Larger(off + want - 1, 0) \div ChunkSize
             upTo[k \in first - 1 .. last] ==
                IF k < first THEN [out |-> <<>>, next |-> first]
                ELSE IF k \in Rows(first, last)
                     THEN PreadRow([upTo[k - 1] EXCEPT !.next = k], k, first, off % ChunkSize, want)
                     ELSE upTo[k - 1]
         IN  BF!Resize(upTo[last].out, want)

HandlePread(off, n) ==
    IF off >= size THEN <<>>
    ELSE LET want == Smaller(n, size - off)
             first == off \div ChunkSize
             last == Larger(off + want - 1, 0) \div ChunkSize
             upTo[k \in first - 1 .. last] ==
                IF k < first THEN [out |-> <<>>, next |-> first]
                ELSE IF k \in Rows(first, last)
                     THEN PreadRow(upTo[k - 1], k, first, off % ChunkSize, want)
                     ELSE upTo[k - 1]
         IN  BF!Resize(upTo[last].out, want)

\* AgentFS::pread: no size, no gaps; the first row that yields bytes is the one
\* that is read from the middle.
PathPread(off, n) ==
    LET first == off \div ChunkSize
        last == Larger(off + n - 1, 0) \div ChunkSize
        row(out, i) ==
            LET skip == IF out = <<>> THEN off % ChunkSize ELSE 0
            IN  out \o SubSeq(chunks[i], skip + 1, Smaller(Len(chunks[i]), skip + n - Len(out)))
        upTo[k \in first - 1 .. last] ==
            IF k < first THEN <<>>
            ELSE IF k \in Rows(first, last) THEN row(upTo[k - 1], k) ELSE upTo[k - 1]
    IN  upTo[last]

\* AgentFS::read_file: every row, one after the other.
ReadFile ==
    LET upTo[k \in -1 .. Max(Index)] == IF k < 0 THEN <<>> ELSE upTo[k - 1] \o chunks[k]
    IN  upTo[Max(Index)]

-----------------------------------------------------------------------------
(***************************************************************************)
(* Properties.                                                             *)
(***************************************************************************)

\* Writing and truncating through handles and paths in any order changes the
\* content exactly as on a plain sequence of bytes: no byte of a neighbour is
\* lost in a chunk and what was cut off never comes back as data.
ImplementsByteFile == BF!Spec

\* A handle reads the content back for every offset and length, whatever mix
\* of holes, short chunks and full chunks the writes left in fs_data.
HandleReadsContent ==
    \A off, n \in 0 .. MaxSize + 1 : HandlePread(off, n) = BF!ReadAt(Contents, off, n)

\* As long as no write or handle truncation skipped bytes, reading by path,
\* which looks at neither sizes nor chunk numbers, gives the content too.
PathReadsDenseContent ==
    ~holes => /\ ReadFile = Contents
              /\ \A off, n \in 0 .. MaxSize + 1 : PathPread(off, n) = BF!ReadAt(Contents, off, n)
=============================================================================
