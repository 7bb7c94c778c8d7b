------------------------------ MODULE ByteFile ------------------------------
(***************************************************************************)
(* What the content of a file is to its users: a sequence of bytes that    *)
(* can be overwritten at any offset and cut or extended to any size, the   *)
(* bytes in between being zero.  The contract of the File trait            *)
(* (sdk/rust/src/filesystem/mod.rs).                                       *)
(***************************************************************************)
EXTENDS Integers, Sequences

CONSTANTS
    MaxSize,    \* bound: the largest file
    Payloads    \* the byte strings that are written

VARIABLE content

\* Vec::resize(n, 0).
Resize(b, n) == [k \in 1 .. n |-> IF k <= Len(b) THEN b[k] ELSE 0]

\* b with w written from offset off on, zeros where there was nothing.
Overwrite(b, off, w) ==
    LET end == off + Len(w) IN
    [k \in 1 .. (IF end > Len(b) THEN end ELSE Len(b)) |->
        IF k \in off + 1 .. end THEN w[k - off]
        ELSE IF k <= Len(b) THEN b[k] ELSE 0]

\* What a read of n bytes at off returns: less at the end of the file.
ReadAt(b, off, n) ==
    SubSeq(b, off + 1, IF off + n < Len(b) THEN off + n ELSE Len(b))

Write(off, w) == w # <<>> /\ content' = Overwrite(content, off, w)

Truncate(n) == content' = Resize(content, n)

Init == content = <<>>

Next ==
    \/ \E n \in 0 .. MaxSize : Truncate(n)
    \/ \E off \in 0 .. MaxSize, w \in Payloads : Write(off, w)

Spec == Init /\ [][Next]_content
=============================================================================
