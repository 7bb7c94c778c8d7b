---------------------------- MODULE ChunkFileProofs ----------------------------
(***************************************************************************)
(* ChunkFile implements ByteFile, for every chunk size, every largest file *)
(* and every set of payloads.                                              *)
(***************************************************************************)
EXTENDS ChunkFile, SequenceTheorems, WellFoundedInduction, TLAPS

(***************************************************************************)
(* Chunk numbers.  Offset p lies in chunk i if it is between Start(i) and  *)
(* Start(i) + ChunkSize; everything else about \div and % follows.         *)
(***************************************************************************)
Start(i) == i * ChunkSize

LEMMA Size == ChunkSize \in Nat /\ ChunkSize > 0 /\ MaxSize \in Nat
BY ChunkAssumption

LEMMA Starts ==
    ASSUME NEW i \in Int, NEW j \in Int
    PROVE  /\ Start(i) \in Int /\ (i >= 0 => Start(i) >= 0)
           /\ Start(i + 1) = Start(i) + ChunkSize
           /\ i < j => Start(i) + ChunkSize <= Start(j)
           /\ Start(0) = 0
PROOF
  <1>1. Start(i) \in Int /\ Start(i + 1) = Start(i) + ChunkSize /\ Start(0) = 0
    BY Size DEF Start
  <1>2. ASSUME i >= 0 PROVE Start(i) >= 0
    BY <1>2, Size DEF Start
  <1>3. ASSUME i < j PROVE Start(i) + ChunkSize <= Start(j)
    BY <1>3, Size DEF Start
  <1> QED BY <1>1, <1>2, <1>3

LEMMA Division ==
    ASSUME NEW p \in Int
    PROVE  /\ p \div ChunkSize \in Int /\ p % ChunkSize \in Int
           /\ p = Start(p \div ChunkSize) + (p % ChunkSize)
           /\ 0 <= p % ChunkSize /\ p % ChunkSize < ChunkSize
BY Size DEF Start

LEMMA InChunk ==
    ASSUME NEW p \in Int, NEW i \in Int, Start(i) <= p, p < Start(i) + ChunkSize
    PROVE  p \div ChunkSize = i /\ p % ChunkSize = p - Start(i)
PROOF
  <1> DEFINE j == p \div ChunkSize
             r == p % ChunkSize
  <1>1. j \in Int /\ r \in Int /\ p = Start(j) + r /\ 0 <= r /\ r < ChunkSize
    BY Division
  <1> HIDE DEF j, r
  <1>2. /\ i < j => Start(i) + ChunkSize <= Start(j)
        /\ j < i => Start(j) + ChunkSize <= Start(i)
        /\ Start(i) \in Int /\ Start(j) \in Int
    BY <1>1, Starts
  <1>3. i = j
    BY <1>1, <1>2, Size
  <1> QED BY <1>1, <1>2, <1>3 DEF j, r

\* The chunks with a byte of the file: up to MaxSize.
LEMMA Indices ==
    ASSUME NEW p \in Nat, p <= MaxSize
    PROVE  p \div ChunkSize \in Index
PROOF
  <1> DEFINE i == p \div ChunkSize
             j == MaxSize \div ChunkSize
  <1>1. i \in Int /\ p = Start(i) + (p % ChunkSize) /\ p % ChunkSize \in Int /\ 0 <= p % ChunkSize /\ p % ChunkSize < ChunkSize
    BY Division
  <1>2. j \in Int /\ MaxSize = Start(j) + (MaxSize % ChunkSize) /\ MaxSize % ChunkSize \in Int
        /\ 0 <= MaxSize % ChunkSize /\ MaxSize % ChunkSize < ChunkSize
    BY Division, Size
  <1> HIDE DEF i, j
  <1>3. Start(i) \in Int /\ Start(j) \in Int /\ (j < i => Start(j) + ChunkSize <= Start(i))
    BY <1>1, <1>2, Starts
  <1>4. i <= j
    BY <1>1, <1>2, <1>3, Size
  <1>5. i >= 0
    <2>1. i < 0 => Start(i) + ChunkSize <= Start(0) /\ Start(0) = 0
      BY <1>1, Starts
    <2> QED BY <1>1, <1>3, <2>1, Size
  <1> QED BY <1>1, <1>2, <1>4, <1>5 DEF Index, i, j

\* Byte k of a row, and byte q of a file, both counted from 1.
Byte(c, k) == IF k <= Len(c) THEN c[k] ELSE 0
Nth(C, q) == Byte(C[(q - 1) \div ChunkSize], ((q - 1) % ChunkSize) + 1)

Places == 1 .. ChunkSize

LEMMA Placed ==
    ASSUME NEW q \in 1 .. MaxSize
    PROVE  \E i \in Index, k \in Places : q = Start(i) + k /\ \A C : Nth(C, q) = Byte(C[i], k)
PROOF
  <1> DEFINE i == (q - 1) \div ChunkSize
             k == ((q - 1) % ChunkSize) + 1
  <1>1. q - 1 \in Nat /\ q - 1 <= MaxSize
    BY Size
  <1>2. i \in Index
    BY <1>1, Indices
  <1>3. k \in Places /\ q = Start(i) + k
    <2>1. /\ i \in Int /\ (q - 1) % ChunkSize \in Int /\ q - 1 = Start(i) + ((q - 1) % ChunkSize)
          /\ 0 <= (q - 1) % ChunkSize /\ (q - 1) % ChunkSize < ChunkSize
      BY <1>1, Division
    <2>2. Start(i) \in Int
      BY <2>1, Starts
    <2> QED BY <2>1, <2>2, Size DEF Places
  <1>4. \A C : Nth(C, q) = Byte(C[i], k)
    BY DEF Nth
  <1> QED BY <1>2, <1>3, <1>4

LEMMA ContentsNth == Contents = [q \in 1 .. size |-> Nth(chunks, q)]
PROOF
  <1>1. \A q : ByteAt(q - 1) = Nth(chunks, q)
    BY DEF ByteAt, Nth, Byte
  <1> QED BY <1>1 DEF Contents

\* A function on 1 .. n is a sequence of n elements.
LEMMA SeqOf ==
    ASSUME NEW n \in Nat, NEW S, NEW f \in [1 .. n -> S]
    PROVE  f \in Seq(S) /\ Len(f) = n
OBVIOUS

-----------------------------------------------------------------------------
(* The inductive invariant.                                                *)

\* Nothing but zeros is stored behind the end of the file.
Clean(C, n) == \A i \in Index, k \in Places : Start(i) + k > n => Byte(C[i], k) = 0

IsRow(c) == c \in Seq(Bytes) /\ Len(c) <= ChunkSize

ChunkInv ==
    /\ exists \in BOOLEAN /\ size \in 0 .. MaxSize /\ (~exists => size = 0)
    /\ chunks = [i \in Index |-> chunks[i]] /\ \A i \in Index : IsRow(chunks[i])
    /\ Clean(chunks, size)

LEMMA ChunkInit == Init => ChunkInv /\ BF!Init
PROOF
  <1> SUFFICES ASSUME Init PROVE ChunkInv /\ BF!Init
    OBVIOUS
  <1>1. exists = FALSE /\ size = 0 /\ chunks = [i \in Index |-> <<>>]
    BY DEF Init
  <1>2. IsRow(<<>>) /\ \A k \in Places : Byte(<<>>, k) = 0
    BY Size DEF IsRow, Byte, Places
  <1>3. ChunkInv
    <2>1. \A i \in Index : chunks[i] = <<>>
      BY <1>1
    <2>2. chunks = [i \in Index |-> chunks[i]]
      BY <1>1
    <2>3. 0 \in 0 .. MaxSize
      BY Size
    <2>4. \A i \in Index : IsRow(chunks[i])
      BY <1>2, <2>1
    <2>5. Clean(chunks, size)
      BY <1>2, <2>1 DEF Clean
    <2> QED BY <1>1, <2>2, <2>3, <2>4, <2>5 DEF ChunkInv
  <1>4. Contents = <<>>
    <2>1. Contents = [q \in 1 .. 0 |-> Nth(chunks, q)]
      BY <1>1, ContentsNth
    <2>2. Contents \in Seq({}) /\ Len(Contents) = 0
      BY <2>1, SeqOf
    <2> QED BY <2>2
  <1> QED BY <1>3, <1>4 DEF BF!Init

(***************************************************************************)
(* Writing w at off, seen in chunk i.                                      *)
(***************************************************************************)
LEMMA TouchedChunk ==
    ASSUME NEW off \in Nat, NEW end \in Nat, off < end, NEW i \in Index
    PROVE  /\ Start(i) \in Nat
           /\ i \in Touched(off, end) => Start(i) < end /\ off < Start(i) + ChunkSize
           /\ i \notin Touched(off, end) => \A k \in Places : ~(off < Start(i) + k /\ Start(i) + k <= end)
           /\ i = (end - 1) \div ChunkSize => end - Start(i) <= ChunkSize
           /\ i \in Touched(off, end) /\ i # (end - 1) \div ChunkSize => Start(i) + ChunkSize < end
PROOF
  <1> DEFINE a == off \div ChunkSize
             b == (end - 1) \div ChunkSize
  <1>0. i \in Nat
    <2>1. MaxSize \div ChunkSize \in Int
      BY Division, Size
    <2> QED BY <2>1 DEF Index
  <1>1. /\ a \in Int /\ off % ChunkSize \in Int /\ off = Start(a) + (off % ChunkSize)
        /\ 0 <= off % ChunkSize /\ off % ChunkSize < ChunkSize
    BY Division
  <1>2. /\ b \in Int /\ (end - 1) % ChunkSize \in Int /\ end - 1 = Start(b) + ((end - 1) % ChunkSize)
        /\ 0 <= (end - 1) % ChunkSize /\ (end - 1) % ChunkSize < ChunkSize
    BY Division
  <1>3. Touched(off, end) = a .. b
    BY DEF Touched
  <1> HIDE DEF a, b
  <1>4. /\ Start(i) \in Nat /\ Start(a) \in Int /\ Start(b) \in Int
        /\ i < a => Start(i) + ChunkSize <= Start(a)
        /\ a < i => Start(a) + ChunkSize <= Start(i)
        /\ i < b => Start(i) + ChunkSize <= Start(b)
        /\ b < i => Start(b) + ChunkSize <= Start(i)
    BY <1>0, <1>1, <1>2, Starts
  <1>5. i <= b => Start(i) < end
    <2>1. i = b => Start(i) < end
      <3>1. Start(b) < end
        BY <1>2, <1>4
      <3> QED BY <3>1
    <2>2. i < b => Start(i) < end
      BY <1>2, <1>4, Size
    <2> QED BY <1>0, <1>2, <2>1, <2>2
  <1>6. a <= i => off < Start(i) + ChunkSize
    BY <1>0, <1>1, <1>4, Size
  <1>7. ASSUME i < a, NEW k \in Places PROVE Start(i) + k <= off
    BY <1>0, <1>1, <1>4, <1>7, Size DEF Places
  <1>8. ASSUME b < i, NEW k \in Places PROVE end < Start(i) + k
    BY <1>0, <1>2, <1>4, <1>8, Size DEF Places
  <1>9. i = b => end - Start(i) <= ChunkSize
    <2>1. end - Start(b) <= ChunkSize
      BY <1>2, <1>4, Size
    <2> QED BY <2>1
  <1>10. i < b => Start(i) + ChunkSize < end
    BY <1>0, <1>2, <1>4, Size
  <1>11. i \notin a .. b => i < a \/ b < i
    BY <1>0, <1>1, <1>2
  <1>12. i \notin a .. b => \A k \in Places : ~(off < Start(i) + k /\ Start(i) + k <= end)
    <2> SUFFICES ASSUME i \notin a .. b, NEW k \in Places PROVE ~(off < Start(i) + k /\ Start(i) + k <= end)
      OBVIOUS
    <2>1. k \in Nat
      BY Size DEF Places
    <2> QED BY <1>4, <1>7, <1>8, <1>11, <2>1
  <1> QED BY <1>0, <1>2, <1>3, <1>4, <1>5, <1>6, <1>9, <1>10, <1>12 DEF b

\* The bytes of w that fall into chunk i.
LEMMA PartOf ==
    ASSUME NEW off \in Nat, NEW w \in Seq(Bytes), w # <<>>, NEW i \in Index, i \in Touched(off, off + Len(w))
    PROVE  LET f == From(i, off)
               t == To(i, off + Len(w))
               b == Part(i, off, w)
           IN /\ f \in Nat /\ t \in Nat /\ f < t /\ t <= ChunkSize
              /\ b \in Seq(Bytes) /\ Len(b) = t - f
              /\ \A k \in f + 1 .. t : b[k - f] = w[Start(i) + k - off]
              /\ \A k \in Places : k \in f + 1 .. t <=> off < Start(i) + k /\ Start(i) + k <= off + Len(w)
PROOF
  <1> DEFINE n == Len(w)
             end == off + n
             s == Start(i)
             f == From(i, off)
             t == To(i, end)
             b == Part(i, off, w)
  <1>1. n \in Nat /\ n > 0 /\ end \in Nat /\ off < end
    OBVIOUS
  <1> HIDE DEF n
  <1>2. s \in Nat /\ s < end /\ off < s + ChunkSize
    BY <1>1, TouchedChunk DEF n
  <1>3. f = IF off - s > 0 THEN off - s ELSE 0
    BY DEF From, Larger, Start
  <1>4. t = IF end - s < ChunkSize THEN end - s ELSE ChunkSize
    BY DEF To, Smaller, Start
  <1>5. b = SubSeq(w, s + f - off + 1, s + t - off)
    BY DEF Part, Start, n
  <1> HIDE DEF s, f, t, b
  <1>6. f \in Nat /\ t \in Nat /\ f < t /\ t <= ChunkSize
    BY <1>1, <1>2, <1>3, <1>4, Size
  <1>7. /\ s + f - off \in Nat /\ s + t - off \in Nat /\ s + f - off + 1 \in 1 .. n
        /\ s + t - off \in 1 .. n /\ s + f - off < s + t - off
    BY <1>1, <1>2, <1>3, <1>4, <1>6, Size
  <1>8. /\ b \in Seq(Bytes) /\ Len(b) = t - f
        /\ \A j \in 1 .. t - f : b[j] = w[s + f - off + j]
    <2> DEFINE x == s + f - off + 1
               y == s + t - off
    <2>1. x \in 1 .. Len(w) /\ y \in x - 1 .. Len(w)
      BY <1>1, <1>2, <1>6, <1>7 DEF n
    <2>2. /\ SubSeq(w, x, y) \in Seq(Bytes) /\ Len(SubSeq(w, x, y)) = IF x <= y THEN y - x + 1 ELSE 0
          /\ \A j \in 1 .. y - x + 1 : SubSeq(w, x, y)[j] = w[x + j - 1]
      BY <2>1, SubSeqProperties
    <2>3. y - x + 1 = t - f /\ x <= y
      BY <1>1, <1>2, <1>6, <1>7
    <2>4. \A j \in 1 .. t - f : x + j - 1 = s + f - off + j
      BY <1>2, <1>6
    <2> HIDE DEF x, y
    <2> QED BY <1>5, <2>2, <2>3, <2>4 DEF x, y
  <1>9. ASSUME NEW k \in f + 1 .. t PROVE b[k - f] = w[s + k - off]
    <2>1. k - f \in 1 .. t - f /\ s + f - off + (k - f) = s + k - off
      BY <1>2, <1>6
    <2> QED BY <1>8, <2>1
  <1>10. ASSUME NEW k \in Places PROVE k \in f + 1 .. t <=> off < s + k /\ s + k <= end
    BY <1>1, <1>2, <1>3, <1>4, <1>6, Size DEF Places
  <1> QED BY <1>6, <1>8, <1>9, <1>10 DEF n, s, f, t, b

\* Overwrite in a row.
LEMMA Overwritten ==
    ASSUME NEW c \in Seq(Bytes), NEW f \in Nat, NEW b \in Seq(Bytes), f + Len(b) <= ChunkSize, Len(c) <= ChunkSize
    PROVE  /\ IsRow(BF!Overwrite(c, f, b))
           /\ Len(BF!Overwrite(c, f, b)) = (IF f + Len(b) > Len(c) THEN f + Len(b) ELSE Len(c))
           /\ \A k \in Places : Byte(BF!Overwrite(c, f, b), k) = IF k \in f + 1 .. f + Len(b) THEN b[k - f] ELSE Byte(c, k)
PROOF
  <1> DEFINE m == Len(b)
             n == IF f + m > Len(c) THEN f + m ELSE Len(c)
             x(k) == IF k \in f + 1 .. f + m THEN b[k - f] ELSE IF k <= Len(c) THEN c[k] ELSE 0
             r == BF!Overwrite(c, f, b)
  <1>1. m \in Nat /\ Len(c) \in Nat /\ n \in Nat /\ n <= ChunkSize
    BY Size
  <1>2. r = [k \in 1 .. n |-> x(k)]
    BY DEF BF!Overwrite
  <1>3. ASSUME NEW k \in 1 .. n PROVE x(k) \in Bytes
    <2>1. CASE k \in f + 1 .. f + m
      <3>1. k - f \in 1 .. m
        BY <1>1, <2>1
      <3> QED BY <2>1, <3>1
    <2>2. CASE k \notin f + 1 .. f + m
      BY <2>2, ChunkAssumption
    <2> QED BY <2>1, <2>2
  <1>4. r \in [1 .. n -> Bytes]
    BY <1>2, <1>3
  <1>5. r \in Seq(Bytes) /\ Len(r) = n
    BY <1>1, <1>4, SeqOf
  <1> HIDE DEF r, n
  <1>6. ASSUME NEW k \in Places PROVE Byte(r, k) = IF k \in f + 1 .. f + m THEN b[k - f] ELSE Byte(c, k)
    <2>1. k \in Nat /\ k >= 1
      BY Size DEF Places
    <2>2. CASE k <= n
      <3>1. r[k] = x(k)
        BY <1>1, <1>2, <2>1, <2>2
      <3> QED BY <1>5, <2>2, <3>1 DEF Byte
    <2>3. CASE ~(k <= n)
      <3>1. k \notin f + 1 .. f + m /\ ~(k <= Len(c))
        BY <1>1, <2>1, <2>3 DEF n
      <3> QED BY <1>5, <2>3, <3>1 DEF Byte
    <2> QED BY <2>2, <2>3
  <1> QED BY <1>1, <1>5, <1>6 DEF IsRow, r, n

\* What a write does to the bytes of row c, which is row i.
Writes(r, c, i, off, w) ==
    /\ IsRow(r)
    /\ \A k \in Places : Byte(r, k) = IF off < Start(i) + k /\ Start(i) + k <= off + Len(w)
                                      THEN w[Start(i) + k - off] ELSE Byte(c, k)

\* Row old agrees with c where w does not go.
Agrees(old, c, i, off, w) ==
    \A k \in Places : ~(off < Start(i) + k /\ Start(i) + k <= off + Len(w)) => Byte(old, k) = Byte(c, k)

LEMMA Patched ==
    ASSUME NEW off \in Nat, NEW w \in Seq(Bytes), w # <<>>, NEW i \in Index, i \in Touched(off, off + Len(w)),
           NEW c, NEW old, IsRow(old), Agrees(old, c, i, off, w)
    PROVE  /\ Writes(BF!Overwrite(old, From(i, off), Part(i, off, w)), c, i, off, w)
           /\ Len(BF!Overwrite(old, From(i, off), Part(i, off, w))) =
                 (IF To(i, off + Len(w)) > Len(old) THEN To(i, off + Len(w)) ELSE Len(old))
PROOF
  <1> DEFINE f == From(i, off)
             t == To(i, off + Len(w))
             b == Part(i, off, w)
             r == BF!Overwrite(old, f, b)
  <1>1. /\ f \in Nat /\ t \in Nat /\ f < t /\ t <= ChunkSize
        /\ b \in Seq(Bytes) /\ Len(b) = t - f
        /\ \A k \in f + 1 .. t : b[k - f] = w[Start(i) + k - off]
        /\ \A k \in Places : k \in f + 1 .. t <=> off < Start(i) + k /\ Start(i) + k <= off + Len(w)
    BY PartOf
  <1> HIDE DEF f, t, b
  <1>2. f + Len(b) = t /\ f + Len(b) <= ChunkSize
    BY <1>1
  <1>3. /\ IsRow(r) /\ Len(r) = (IF f + Len(b) > Len(old) THEN f + Len(b) ELSE Len(old))
        /\ \A k \in Places : Byte(r, k) = IF k \in f + 1 .. f + Len(b) THEN b[k - f] ELSE Byte(old, k)
    BY <1>1, <1>2, Overwritten DEF IsRow
  <1> HIDE DEF r
  <1>4. \A k \in Places : Byte(r, k) = IF k \in f + 1 .. t THEN b[k - f] ELSE Byte(old, k)
    BY <1>2, <1>3
  <1>5. ASSUME NEW k \in Places
        PROVE  Byte(r, k) = IF off < Start(i) + k /\ Start(i) + k <= off + Len(w)
                            THEN w[Start(i) + k - off] ELSE Byte(c, k)
    <2>1. CASE k \in f + 1 .. t
      BY <1>1, <1>4, <2>1
    <2>2. CASE k \notin f + 1 .. t
      BY <1>1, <1>4, <2>2 DEF Agrees
    <2> QED BY <2>1, <2>2
  <1> QED BY <1>2, <1>3, <1>5 DEF Writes, f, t, b, r

LEMMA HandleWrites ==
    ASSUME ChunkInv, NEW off \in Nat, NEW w \in Seq(Bytes), w # <<>>, NEW i \in Index, i \in Touched(off, off + Len(w))
    PROVE  Writes(HandleChunk(i, off, w), chunks[i], i, off, w)
PROOF
  <1> DEFINE f == From(i, off)
             t == To(i, off + Len(w))
             b == Part(i, off, w)
  <1>1. IsRow(chunks[i])
    BY DEF ChunkInv
  <1>2. CASE Len(b) = ChunkSize
    <2>1. /\ f \in Nat /\ t \in Nat /\ f < t /\ t <= ChunkSize /\ b \in Seq(Bytes) /\ Len(b) = t - f
          /\ \A k \in f + 1 .. t : b[k - f] = w[Start(i) + k - off]
          /\ \A k \in Places : k \in f + 1 .. t <=> off < Start(i) + k /\ Start(i) + k <= off + Len(w)
      BY PartOf
    <2>2. HandleChunk(i, off, w) = b
      BY <1>2 DEF HandleChunk
    <2> HIDE DEF f, t, b
    <2>3. f = 0 /\ t = ChunkSize
      BY <1>2, <2>1, Size
    <2>4. ASSUME NEW k \in Places
          PROVE  /\ off < Start(i) + k /\ Start(i) + k <= off + Len(w)
                 /\ Byte(b, k) = w[Start(i) + k - off]
      <3>1. k \in f + 1 .. t /\ k - f = k /\ k <= Len(b)
        BY <1>2, <2>3, Size DEF Places
      <3> QED BY <2>1, <3>1 DEF Byte
    <2>5. IsRow(b)
      BY <1>2, <2>1, Size DEF IsRow
    <2> QED BY <2>2, <2>4, <2>5 DEF Writes
  <1>3. CASE Len(b) # ChunkSize
    <2>1. Agrees(chunks[i], chunks[i], i, off, w)
      BY DEF Agrees
    <2> QED BY <1>1, <1>3, <2>1, Patched DEF HandleChunk
  <1> QED BY <1>2, <1>3

\* Vec::resize of a row.
LEMMA Resized ==
    ASSUME NEW c, IsRow(c), NEW n \in Nat, n <= ChunkSize
    PROVE  /\ IsRow(BF!Resize(c, n)) /\ Len(BF!Resize(c, n)) = n
           /\ \A k \in Places : Byte(BF!Resize(c, n), k) = IF k <= n THEN Byte(c, k) ELSE 0
PROOF
  <1> DEFINE r == BF!Resize(c, n)
  <1>1. r = [k \in 1 .. n |-> Byte(c, k)]
    BY DEF BF!Resize, Byte
  <1>2. ASSUME NEW k \in 1 .. n PROVE Byte(c, k) \in Bytes
    BY ChunkAssumption DEF Byte, IsRow
  <1>3. r \in [1 .. n -> Bytes]
    BY <1>1, <1>2
  <1>4. r \in Seq(Bytes) /\ Len(r) = n
    BY <1>3, SeqOf
  <1> HIDE DEF r
  <1>5. ASSUME NEW k \in Places PROVE Byte(r, k) = IF k <= n THEN Byte(c, k) ELSE 0
    <2>1. k \in Nat /\ k >= 1
      BY Size DEF Places
    <2>2. CASE k <= n
      <3>1. r[k] = Byte(c, k)
        BY <1>1, <2>1, <2>2
      <3>2. Byte(r, k) = r[k]
        BY <1>4, <2>2 DEF Byte
      <3> QED BY <2>2, <3>1, <3>2
    <2>3. CASE ~(k <= n)
      <3>1. Byte(r, k) = 0
        BY <1>4, <2>3 DEF Byte
      <3> QED BY <2>3, <3>1
    <2> QED BY <2>2, <2>3
  <1> QED BY <1>4, <1>5 DEF IsRow, r

\* The beginning of a row.
LEMMA Beginning ==
    ASSUME NEW c, IsRow(c), NEW n \in Nat, n <= Len(c)
    PROVE  /\ IsRow(SubSeq(c, 1, n)) /\ Len(SubSeq(c, 1, n)) = n
           /\ \A k \in Places : Byte(SubSeq(c, 1, n), k) = IF k <= n THEN Byte(c, k) ELSE 0
PROOF
  <1> DEFINE r == SubSeq(c, 1, n)
  <1>1. c \in Seq(Bytes) /\ Len(c) \in Nat /\ Len(c) <= ChunkSize
    BY DEF IsRow
  <1>2. r \in Seq(Bytes) /\ Len(r) = n /\ \A k \in 1 .. n : r[k] = c[k]
    BY <1>1
  <1> HIDE DEF r
  <1>3. ASSUME NEW k \in Places PROVE Byte(r, k) = IF k <= n THEN Byte(c, k) ELSE 0
    <2>1. k \in Nat /\ k >= 1
      BY Size DEF Places
    <2>2. CASE k <= n
      <3>1. k <= Len(c) /\ k \in 1 .. n
        BY <1>1, <2>1, <2>2
      <3> QED BY <1>2, <2>2, <3>1 DEF Byte
    <2>3. CASE ~(k <= n)
      <3>1. Byte(r, k) = 0
        BY <1>2, <2>3 DEF Byte
      <3> QED BY <2>3, <3>1
    <2> QED BY <2>2, <2>3
  <1> QED BY <1>1, <1>2, <1>3, Size DEF IsRow, r

LEMMA ZeroRow ==
    ASSUME NEW n \in Nat, n <= ChunkSize
    PROVE  IsRow(Zeros(n)) /\ Len(Zeros(n)) = n /\ \A k \in Places : Byte(Zeros(n), k) = 0
PROOF
  <1>1. Zeros(n) \in [1 .. n -> Bytes]
    BY ChunkAssumption DEF Zeros
  <1>2. Zeros(n) \in Seq(Bytes) /\ Len(Zeros(n)) = n
    BY <1>1, SeqOf
  <1>3. ASSUME NEW k \in Places PROVE Byte(Zeros(n), k) = 0
    <2>1. k \in Nat /\ k >= 1
      BY Size DEF Places
    <2>2. k <= n => Zeros(n)[k] = 0
      BY <2>1 DEF Zeros
    <2> QED BY <1>2, <2>2 DEF Byte
  <1> QED BY <1>2, <1>3 DEF IsRow

\* AgentFS::pwrite cuts the last row only where nothing was stored.
LEMMA PathWrites ==
    ASSUME ChunkInv, NEW off \in Nat, NEW w \in Seq(Bytes), w # <<>>, NEW i \in Index, i \in Touched(off, off + Len(w))
    PROVE  Writes(PathChunk(i, off, w), chunks[i], i, off, w)
PROOF
  <1> DEFINE end == off + Len(w)
             f == From(i, off)
             t == To(i, end)
             partial == f > 0 \/ t < ChunkSize
             old == IF partial THEN BF!Resize(chunks[i], ChunkSize) ELSE Zeros(ChunkSize)
             full == BF!Overwrite(old, f, Part(i, off, w))
             oldEnd == IF size > i * ChunkSize THEN Smaller(size - i * ChunkSize, ChunkSize) ELSE 0
             cut == Larger(end - i * ChunkSize, oldEnd)
             last == i = (end - 1) \div ChunkSize
  <1>1. PathChunk(i, off, w) = IF last THEN SubSeq(full, 1, cut) ELSE full
    BY DEF PathChunk
  <1>2. IsRow(chunks[i]) /\ size \in Nat /\ \A k \in Places : Start(i) + k > size => Byte(chunks[i], k) = 0
    BY Size DEF ChunkInv, Clean
  <1>3. /\ f \in Nat /\ t \in Nat /\ f < t /\ t <= ChunkSize
        /\ \A k \in Places : k \in f + 1 .. t <=> off < Start(i) + k /\ Start(i) + k <= end
    BY PartOf
  <1>4. end \in Nat /\ off < end
    OBVIOUS
  <1>5. Start(i) \in Nat /\ Start(i) < end /\ (last => end - Start(i) <= ChunkSize)
    BY <1>4, TouchedChunk
  <1>6. /\ IsRow(old) /\ Len(old) = ChunkSize
        /\ \A k \in Places : ~(off < Start(i) + k /\ Start(i) + k <= end) => Byte(old, k) = Byte(chunks[i], k)
    <2>1. CASE partial
      <3>1. /\ IsRow(old) /\ Len(old) = ChunkSize
            /\ \A k \in Places : Byte(old, k) = IF k <= ChunkSize THEN Byte(chunks[i], k) ELSE 0
        BY <1>2, <2>1, Resized, Size
      <3>2. \A k \in Places : k <= ChunkSize
        BY Size DEF Places
      <3> QED BY <3>1, <3>2
    <2>2. CASE ~partial
      <3>1. IsRow(old) /\ Len(old) = ChunkSize
        BY <2>2, ZeroRow, Size
      <3>2. f = 0 /\ t = ChunkSize
        BY <1>3, <2>2, Size
      <3>3. \A k \in Places : k \in f + 1 .. t
        BY <3>2, Size DEF Places
      <3> QED BY <1>3, <3>1, <3>3
    <2> QED BY <2>1, <2>2
  <1> HIDE DEF old
  <1>7. Writes(full, chunks[i], i, off, w) /\ Len(full) = IF t > Len(old) THEN t ELSE Len(old)
    <2>1. Agrees(old, chunks[i], i, off, w)
      BY <1>6 DEF Agrees
    <2> QED BY <1>6, <2>1, Patched
  <1>8. IsRow(full) /\ Len(full) = ChunkSize
    BY <1>3, <1>6, <1>7, Size DEF Writes
  <1>9. ASSUME last PROVE Writes(SubSeq(full, 1, cut), chunks[i], i, off, w)
    <2>1. oldEnd = IF size > Start(i) THEN IF size - Start(i) < ChunkSize THEN size - Start(i) ELSE ChunkSize ELSE 0
      BY DEF Smaller, Start
    <2>2. cut = IF end - Start(i) > oldEnd THEN end - Start(i) ELSE oldEnd
      BY DEF Larger, Start
    <2> HIDE DEF oldEnd, cut
    <2>3. cut \in Nat /\ cut <= ChunkSize
      BY <1>2, <1>4, <1>5, <1>9, <2>1, <2>2, Size
    <2>4. ASSUME NEW k \in Places, ~(k <= cut)
          PROVE  ~(off < Start(i) + k /\ Start(i) + k <= end) /\ Start(i) + k > size
      <3>1. k \in Nat /\ k <= ChunkSize
        BY Size DEF Places
      <3> QED BY <1>2, <1>4, <1>5, <2>1, <2>2, <2>3, <2>4, <3>1, Size
    <2> HIDE DEF full, end, last
    <2>5. /\ IsRow(SubSeq(full, 1, cut))
          /\ \A k \in Places : Byte(SubSeq(full, 1, cut), k) = IF k <= cut THEN Byte(full, k) ELSE 0
      BY <1>8, <2>3, Beginning
    <2>6. \A k \in Places : ~(k <= cut) => Byte(full, k) = 0
      BY <1>2, <1>7, <2>4 DEF Writes, end
    <2>7. \A k \in Places : Byte(SubSeq(full, 1, cut), k) = Byte(full, k)
      BY <2>5, <2>6
    <2> QED BY <1>7, <2>5, <2>7 DEF Writes
  <1> HIDE DEF full, cut, last
  <1> QED BY <1>1, <1>7, <1>9

\* A row that a write does not touch.
LEMMA Untouched ==
    ASSUME ChunkInv, NEW off \in Nat, NEW w \in Seq(Bytes), w # <<>>, NEW i \in Index, i \notin Touched(off, off + Len(w))
    PROVE  Writes(chunks[i], chunks[i], i, off, w)
PROOF
  <1>1. off + Len(w) \in Nat /\ off < off + Len(w)
    OBVIOUS
  <1>2. \A k \in Places : ~(off < Start(i) + k /\ Start(i) + k <= off + Len(w))
    BY <1>1, TouchedChunk
  <1> QED BY <1>2 DEF Writes, ChunkInv

-----------------------------------------------------------------------------
(* A write and a truncation of the rows are those of the bytes.            *)

LEMMA WriteStep ==
    ASSUME ChunkInv, NEW off \in Nat, NEW w \in Seq(Bytes), w # <<>>, off + Len(w) <= MaxSize,
           size' = Larger(size, off + Len(w)), exists' = TRUE,
           chunks' = [i \in Index |-> chunks'[i]], \A i \in Index : Writes(chunks'[i], chunks[i], i, off, w)
    PROVE  ChunkInv' /\ Contents' = BF!Overwrite(Contents, off, w)
PROOF
  <1> DEFINE end == off + Len(w)
  <1>1. end \in Nat /\ size \in Nat /\ size <= MaxSize /\ end <= MaxSize /\ Clean(chunks, size)
    BY Size DEF ChunkInv
  <1>2. size' = IF size > end THEN size ELSE end
    BY DEF Larger
  <1>3. size' \in 0 .. MaxSize /\ size' >= size /\ size' >= end
    BY <1>1, <1>2, Size
  <1> HIDE DEF end
  <1>4. ASSUME NEW i \in Index, NEW k \in Places
        PROVE  Byte(chunks'[i], k) = IF off < Start(i) + k /\ Start(i) + k <= end
                                     THEN w[Start(i) + k - off] ELSE Byte(chunks[i], k)
    BY DEF Writes, end
  <1>5. \A i \in Index : Start(i) \in Int
    <2>1. \A i \in Index : i \in Int
      BY Division, Size DEF Index
    <2> QED BY <2>1, Starts
  <1>6. ASSUME NEW i \in Index, NEW k \in Places, Start(i) + k > size' PROVE Byte(chunks'[i], k) = 0
    <2>1. k \in Nat /\ Start(i) \in Int
      BY <1>5, Size DEF Places
    <2>2. ~(Start(i) + k <= end) /\ Start(i) + k > size
      BY <1>1, <1>3, <1>6, <2>1
    <2> QED BY <1>1, <1>4, <2>2 DEF Clean
  <1>7. ChunkInv'
    <2>1. \A i \in Index : IsRow(chunks'[i])
      BY DEF Writes
    <2>2. Clean(chunks', size')
      BY <1>6 DEF Clean
    <2> QED BY <1>3, <2>1, <2>2 DEF ChunkInv
  <1>8. Contents = [q \in 1 .. size |-> Nth(chunks, q)] /\ Contents' = [q \in 1 .. size' |-> Nth(chunks', q)]
    <2>1. \A q : ByteAt(q - 1)' = Nth(chunks', q)
      BY DEF ByteAt, Nth, Byte
    <2> QED BY <2>1, ContentsNth DEF Contents
  <1>9. Len(Contents) = size
    <2>1. Contents \in [1 .. size -> {Nth(chunks, q) : q \in 1 .. size}]
      BY <1>8
    <2> QED BY <1>1, <2>1, SeqOf
  <1>10. ASSUME NEW q \in 1 .. size'
         PROVE  Nth(chunks', q) = IF q \in off + 1 .. end THEN w[q - off]
                                  ELSE IF q <= size THEN Contents[q] ELSE 0
    <2>1. q \in 1 .. MaxSize
      BY <1>3, Size
    <2>2. PICK i \in Index, k \in Places : q = Start(i) + k /\ \A C : Nth(C, q) = Byte(C[i], k)
      BY <2>1, Placed
    <2>3. k \in Nat /\ Start(i) \in Int /\ k <= ChunkSize
      BY <1>5, Size DEF Places
    <2>4. CASE q \in off + 1 .. end
      <3>1. off < Start(i) + k /\ Start(i) + k <= end
        BY <1>1, <2>2, <2>3, <2>4
      <3>2. Nth(chunks', q) = Byte(chunks'[i], k)
        BY <2>2
      <3>3. q - off = Start(i) + k - off
        <4>1. q = Start(i) + k
          BY <2>2
        <4> QED BY <2>3, <4>1
      <3>4. Byte(chunks'[i], k) = w[Start(i) + k - off]
        BY <1>4, <3>1
      <3> QED BY <2>4, <3>2, <3>3, <3>4
    <2>5. CASE q \notin off + 1 .. end
      <3>1. ~(off < Start(i) + k /\ Start(i) + k <= end)
        BY <1>1, <2>2, <2>3, <2>5
      <3>2. Nth(chunks', q) = Byte(chunks[i], k)
        BY <1>4, <2>2, <3>1
      <3>3. CASE q <= size
        <4>1. Contents[q] = Nth(chunks, q)
          BY <1>1, <1>8, <3>3
        <4> QED BY <2>2, <2>5, <3>2, <3>3, <4>1
      <3>4. CASE ~(q <= size)
        <4>1. Start(i) + k > size
          BY <1>1, <2>2, <3>4
        <4> QED BY <1>1, <2>5, <3>2, <3>4, <4>1 DEF Clean
      <3> QED BY <3>3, <3>4
    <2> QED BY <2>4, <2>5
  <1>11. BF!Overwrite(Contents, off, w) =
            [q \in 1 .. size' |-> IF q \in off + 1 .. end THEN w[q - off] ELSE IF q <= size THEN Contents[q] ELSE 0]
    <2>1. (IF end > size THEN end ELSE size) = size'
      BY <1>1, <1>2
    <2> QED BY <1>9, <2>1 DEF BF!Overwrite, end
  <1>12. Contents' = BF!Overwrite(Contents, off, w)
    BY <1>8, <1>10, <1>11
  <1> QED BY <1>7, <1>12

\* What a truncation to n does to the bytes of row c, which is row i.
Cuts(r, c, i, n) ==
    IsRow(r) /\ \A k \in Places : Byte(r, k) = IF Start(i) + k <= n THEN Byte(c, k) ELSE 0

LEMMA TruncateStep ==
    ASSUME ChunkInv, NEW n \in 0 .. MaxSize, size' = n, exists' = TRUE,
           chunks' = [i \in Index |-> chunks'[i]], \A i \in Index : Cuts(chunks'[i], chunks[i], i, n)
    PROVE  ChunkInv' /\ Contents' = BF!Resize(Contents, n)
PROOF
  <1>1. n \in Nat /\ n <= MaxSize /\ size \in Nat /\ size <= MaxSize /\ Clean(chunks, size)
    BY Size DEF ChunkInv
  <1>2. \A i \in Index : Start(i) \in Int
    <2>1. \A i \in Index : i \in Int
      BY Division, Size DEF Index
    <2> QED BY <2>1, Starts
  <1>3. ASSUME NEW i \in Index, NEW k \in Places
        PROVE  Byte(chunks'[i], k) = IF Start(i) + k <= n THEN Byte(chunks[i], k) ELSE 0
    BY DEF Cuts
  <1>4. ChunkInv'
    <2>1. \A i \in Index : IsRow(chunks'[i])
      BY DEF Cuts
    <2>2. ASSUME NEW i \in Index, NEW k \in Places, Start(i) + k > n PROVE Byte(chunks'[i], k) = 0
      <3>1. k \in Nat /\ Start(i) \in Int
        BY <1>2, Size DEF Places
      <3>2. ~(Start(i) + k <= n)
        BY <1>1, <2>2, <3>1
      <3> QED BY <1>3, <3>2
    <2>3. Clean(chunks', size')
      BY <2>2 DEF Clean
    <2> QED BY <2>1, <2>3 DEF ChunkInv
  <1>5. Contents = [q \in 1 .. size |-> Nth(chunks, q)] /\ Contents' = [q \in 1 .. n |-> Nth(chunks', q)]
    <2>1. \A q : ByteAt(q - 1)' = Nth(chunks', q)
      BY DEF ByteAt, Nth, Byte
    <2> QED BY <2>1, ContentsNth DEF Contents
  <1>6. Len(Contents) = size
    <2>1. Contents \in [1 .. size -> {Nth(chunks, q) : q \in 1 .. size}]
      BY <1>5
    <2> QED BY <1>1, <2>1, SeqOf
  <1>7. ASSUME NEW q \in 1 .. n PROVE Nth(chunks', q) = IF q <= size THEN Contents[q] ELSE 0
    <2>1. q \in 1 .. MaxSize
      BY <1>1, Size
    <2>2. PICK i \in Index, k \in Places : q = Start(i) + k /\ \A C : Nth(C, q) = Byte(C[i], k)
      BY <2>1, Placed
    <2>3. k \in Nat /\ Start(i) \in Int /\ k <= ChunkSize /\ k >= 1
      BY <1>2, Size DEF Places
    <2>4. Nth(chunks', q) = Byte(chunks[i], k)
      BY <1>1, <1>3, <2>2, <2>3
    <2>5. CASE q <= size
      <3>1. Contents[q] = Nth(chunks, q)
        BY <1>1, <1>5, <2>5
      <3> QED BY <2>2, <2>4, <2>5, <3>1
    <2>6. CASE ~(q <= size)
      <3>1. Start(i) + k > size
        BY <1>1, <2>2, <2>6
      <3> QED BY <1>1, <2>4, <2>6, <3>1 DEF Clean
    <2> QED BY <2>5, <2>6
  <1>8. BF!Resize(Contents, n) = [q \in 1 .. n |-> IF q <= size THEN Contents[q] ELSE 0]
    BY <1>6 DEF BF!Resize
  <1>9. Contents' = BF!Resize(Contents, n)
    BY <1>5, <1>7, <1>8
  <1> QED BY <1>4, <1>9

-----------------------------------------------------------------------------
(* The rows that truncation leaves.                                        *)

\* The last chunk of a file of n bytes.
LEMMA LastOf ==
    ASSUME NEW n \in Nat, n > 0, NEW i \in Index
    PROVE  /\ LastChunk(n) \in Int /\ Start(i) \in Nat
           /\ i > LastChunk(n) => n <= Start(i)
           /\ i < LastChunk(n) => Start(i) + ChunkSize <= n
           /\ i = LastChunk(n) => /\ Start(i) < n /\ n <= Start(i) + ChunkSize
                                  /\ (n - 1) % ChunkSize = n - 1 - Start(i)
                                  /\ n % ChunkSize = IF n = Start(i) + ChunkSize THEN 0 ELSE n - Start(i)
PROOF
  <1> DEFINE l == LastChunk(n)
             r == (n - 1) % ChunkSize
  <1>1. /\ l \in Int /\ r \in Int /\ n - 1 = Start(l) + r /\ 0 <= r /\ r < ChunkSize
    BY Division DEF LastChunk
  <1>2. i \in Nat
    BY Division, Size DEF Index
  <1> HIDE DEF l, r
  <1>3. /\ Start(i) \in Nat /\ Start(l) \in Int
        /\ l < i => Start(l) + ChunkSize <= Start(i)
        /\ i < l => Start(i) + ChunkSize <= Start(l)
        /\ Start(l + 1) = Start(l) + ChunkSize
    BY <1>1, <1>2, Starts
  <1>4. i > l => n <= Start(i)
    BY <1>1, <1>2, <1>3, Size
  <1>5. i < l => Start(i) + ChunkSize <= n
    BY <1>1, <1>2, <1>3, Size
  <1>6. /\ Start(l) < n /\ n <= Start(l) + ChunkSize /\ r = n - 1 - Start(l)
    BY <1>1, <1>3, Size
  <1>7. n % ChunkSize = IF n = Start(l) + ChunkSize THEN 0 ELSE n - Start(l)
    <2>1. CASE n = Start(l) + ChunkSize
      <3>1. n = Start(l + 1) /\ n < Start(l + 1) + ChunkSize /\ l + 1 \in Int
        BY <1>1, <1>3, <2>1, Size
      <3>2. n % ChunkSize = n - Start(l + 1)
        BY <3>1, InChunk
      <3> QED BY <2>1, <3>1, <3>2
    <2>2. CASE n # Start(l) + ChunkSize
      <3>1. Start(l) <= n /\ n < Start(l) + ChunkSize
        BY <1>1, <1>3, <1>6, <2>2, Size
      <3> QED BY <1>1, <2>2, <3>1, InChunk
    <2> QED BY <2>1, <2>2
  <1>8. i = l => /\ Start(i) < n /\ n <= Start(i) + ChunkSize /\ r = n - 1 - Start(i)
                 /\ n % ChunkSize = IF n = Start(i) + ChunkSize THEN 0 ELSE n - Start(i)
    BY <1>6, <1>7
  <1> QED BY <1>1, <1>3, <1>4, <1>5, <1>8 DEF l, r

LEMMA ShrunkCuts ==
    ASSUME ChunkInv, NEW n \in 0 .. MaxSize, NEW i \in Index
    PROVE  Cuts(Shrunk(n)[i], chunks[i], i, n)
PROOF
  <1> DEFINE c == chunks[i]
             r == Shrunk(n)[i]
  <1>1. n \in Nat /\ IsRow(c) /\ Len(c) \in Nat /\ Len(c) <= ChunkSize /\ i \in Nat /\ Start(i) \in Nat
    <2>1. i \in Nat
      BY Division, Size DEF Index
    <2>2. Start(i) \in Nat
      BY <2>1, Starts
    <2> QED BY <2>1, <2>2, Size DEF ChunkInv, IsRow
  <1>2. r = IF n = 0 \/ i > LastChunk(n) THEN <<>>
            ELSE IF i = LastChunk(n) /\ n % ChunkSize > 0
                 THEN SubSeq(c, 1, Smaller(n % ChunkSize, Len(c)))
                 ELSE c
    BY DEF Shrunk
  <1>3. \A k \in Places : k \in Nat /\ k >= 1 /\ k <= ChunkSize
    BY Size DEF Places
  <1> HIDE DEF c, r
  <1>4. CASE n = 0 \/ i > LastChunk(n)
    <2>1. n <= Start(i)
      <3>1. CASE n = 0
        BY <1>1, <3>1
      <3>2. CASE n # 0
        BY <1>1, <1>4, <3>2, LastOf
      <3> QED BY <3>1, <3>2
    <2>2. \A k \in Places : ~(Start(i) + k <= n)
      BY <1>1, <1>3, <2>1
    <2>3. r = <<>> /\ IsRow(<<>>) /\ \A k \in Places : Byte(<<>>, k) = 0
      BY <1>2, <1>3, <1>4, Size DEF IsRow, Byte
    <2> QED BY <2>2, <2>3 DEF Cuts, c, r
  <1>5. CASE n # 0 /\ i = LastChunk(n) /\ n % ChunkSize > 0
    <2> DEFINE m == n % ChunkSize
               j == Smaller(m, Len(c))
    <2>1. Start(i) < n /\ n <= Start(i) + ChunkSize /\ m = IF n = Start(i) + ChunkSize THEN 0 ELSE n - Start(i)
      BY <1>1, <1>5, LastOf
    <2>2. m = n - Start(i) /\ m \in Nat /\ m > 0 /\ m < ChunkSize
      BY <1>1, <1>5, <2>1, Size
    <2>3. r = SubSeq(c, 1, j)
      <3>1. ~(n = 0 \/ i > LastChunk(n))
        BY <1>1, <1>5
      <3> QED BY <1>2, <1>5, <3>1
    <2> HIDE DEF m
    <2>4. j = IF m < Len(c) THEN m ELSE Len(c)
      BY DEF Smaller
    <2>5. j \in Nat /\ j <= Len(c)
      BY <1>1, <2>2, <2>4
    <2> HIDE DEF j
    <2>6. IsRow(r) /\ \A k \in Places : Byte(r, k) = IF k <= j THEN Byte(c, k) ELSE 0
      BY <1>1, <2>3, <2>5, Beginning
    <2>7. ASSUME NEW k \in Places PROVE Byte(r, k) = IF Start(i) + k <= n THEN Byte(c, k) ELSE 0
      <3>1. k \in Nat /\ (Start(i) + k <= n <=> k <= m)
        BY <1>1, <1>3, <2>2
      <3>2. k <= m /\ ~(k <= j) => Byte(c, k) = 0
        BY <1>1, <2>2, <2>4, <3>1 DEF Byte
      <3>3. k <= j => k <= m
        BY <1>1, <2>2, <2>4, <3>1
      <3> QED BY <2>6, <3>1, <3>2, <3>3
    <2> QED BY <2>6, <2>7 DEF Cuts, c, r
  <1>6. CASE n # 0 /\ ~(i > LastChunk(n)) /\ ~(i = LastChunk(n) /\ n % ChunkSize > 0)
    <2>1. r = c
      BY <1>2, <1>6
    <2>2. Start(i) + ChunkSize <= n
      <3>1. n > 0 /\ LastChunk(n) \in Int
        BY <1>1, <1>6, LastOf
      <3>2. CASE i < LastChunk(n)
        BY <1>1, <3>1, <3>2, LastOf
      <3>3. CASE i = LastChunk(n)
        <4>1. /\ Start(i) < n /\ n <= Start(i) + ChunkSize
              /\ n % ChunkSize = IF n = Start(i) + ChunkSize THEN 0 ELSE n - Start(i)
          BY <1>1, <3>1, <3>3, LastOf
        <4> QED BY <1>1, <1>6, <3>3, <4>1, Size
      <3> QED BY <1>1, <1>6, <3>1, <3>2, <3>3
    <2>3. \A k \in Places : Start(i) + k <= n
      BY <1>1, <1>3, <2>2, Size
    <2> QED BY <1>1, <2>1, <2>3 DEF Cuts, c, r
  <1> QED BY <1>4, <1>5, <1>6 DEF r, c

\* Rows whose bytes stay are right for a file that does not shrink.
LEMMA SameBytes ==
    ASSUME ChunkInv, NEW n \in Nat, size <= n, NEW i \in Index, NEW r, IsRow(r),
           \A k \in Places : Byte(r, k) = Byte(chunks[i], k)
    PROVE  Cuts(r, chunks[i], i, n)
PROOF
  <1>1. ASSUME NEW k \in Places, ~(Start(i) + k <= n) PROVE Byte(chunks[i], k) = 0
    <2>1. i \in Nat /\ k \in Nat
      BY Division, Size DEF Index, Places
    <2>2. Start(i) \in Int /\ size \in Nat
      BY <2>1, Starts DEF ChunkInv
    <2>3. Start(i) + k > size
      BY <1>1, <2>1, <2>2
    <2> QED BY <2>3 DEF ChunkInv, Clean
  <1> QED BY <1>1 DEF Cuts

LEMMA PaddedCuts ==
    ASSUME ChunkInv, NEW n \in 0 .. MaxSize, size < n, NEW i \in Index
    PROVE  Cuts(Padded(n)[i], chunks[i], i, n)
PROOF
  <1> DEFINE c == chunks[i]
             r == Padded(n)[i]
             last == IF size = 0 THEN -1 ELSE LastChunk(size)
             len == IF i = LastChunk(n) THEN ((n - 1) % ChunkSize) + 1 ELSE ChunkSize
  <1>1. /\ n \in Nat /\ n > 0 /\ size \in Nat /\ i \in Nat
        /\ IsRow(c) /\ Len(c) \in Nat /\ Len(c) <= ChunkSize
    <2>1. i \in Nat
      BY Division, Size DEF Index
    <2> QED BY <2>1, Size DEF ChunkInv, IsRow
  <1>2. r = IF i = last /\ c # <<>> THEN BF!Resize(c, Larger(len, Len(c)))
            ELSE IF i \in last + 1 .. LastChunk(n) THEN Zeros(len)
            ELSE c
    BY DEF Padded
  <1>3. len \in Nat /\ len <= ChunkSize
    <2>1. n - 1 \in Int
      BY <1>1
    <2>2. (n - 1) % ChunkSize \in Int /\ 0 <= (n - 1) % ChunkSize /\ (n - 1) % ChunkSize < ChunkSize
      BY <2>1, Division
    <2> QED BY <2>2, Size
  <1>4. \A k \in Places : k \in Nat /\ k >= 1 /\ k <= ChunkSize
    BY Size DEF Places
  <1>5. last \in Int /\ Start(i) \in Nat /\ (i > last => size <= Start(i)) /\ LastChunk(n) \in Int
    <2>1. Start(i) \in Nat /\ LastChunk(n) \in Int
      BY <1>1, LastOf
    <2>2. size # 0 => LastChunk(size) \in Int /\ (i > LastChunk(size) => size <= Start(i))
      BY <1>1, LastOf
    <2> QED BY <1>1, <2>1, <2>2
  <1>6. IsRow(r) /\ \A k \in Places : Byte(r, k) = Byte(c, k)
    <2>1. CASE i = last /\ c # <<>>
      <3> DEFINE m == Larger(len, Len(c))
      <3>1. m = IF len > Len(c) THEN len ELSE Len(c)
        BY DEF Larger
      <3> HIDE DEF m, len
      <3>2. m \in Nat /\ m <= ChunkSize /\ Len(c) <= m
        BY <1>1, <1>3, <3>1
      <3>3. r = BF!Resize(c, m)
        BY <1>2, <2>1 DEF m
      <3> HIDE DEF c, r
      <3>4. IsRow(r) /\ \A k \in Places : Byte(r, k) = IF k <= m THEN Byte(c, k) ELSE 0
        BY <1>1, <3>2, <3>3, Resized
      <3>5. \A k \in Places : ~(k <= m) => Byte(c, k) = 0
        BY <1>1, <1>4, <3>2 DEF Byte
      <3> QED BY <3>4, <3>5
    <2>2. CASE ~(i = last /\ c # <<>>) /\ i \in last + 1 .. LastChunk(n)
      <3>1. r = Zeros(len)
        BY <1>2, <2>2
      <3>2. size <= Start(i)
        BY <1>1, <1>5, <2>2
      <3>3. \A k \in Places : Byte(c, k) = 0
        <4>1. \A k \in Places : Start(i) + k > size
          BY <1>1, <1>4, <1>5, <3>2
        <4> QED BY <4>1 DEF ChunkInv, Clean
      <3> HIDE DEF len, c, r
      <3> QED BY <1>3, <3>1, <3>3, ZeroRow
    <2>3. CASE ~(i = last /\ c # <<>>) /\ i \notin last + 1 .. LastChunk(n)
      BY <1>1, <1>2, <2>3
    <2> QED BY <2>1, <2>2, <2>3
  <1> HIDE DEF r
  <1> QED BY <1>1, <1>6, SameBytes DEF r

-----------------------------------------------------------------------------
LEMMA ChunkStep == ChunkInv /\ [Next]_vars => ChunkInv' /\ [BF!Next]_Contents
PROOF
  <1> SUFFICES ASSUME ChunkInv, [Next]_vars PROVE ChunkInv' /\ [BF!Next]_Contents
    OBVIOUS
  <1>0. /\ chunks = [i \in Index |-> chunks[i]] /\ size \in 0 .. MaxSize /\ size \in Nat /\ 0 .. MaxSize \subseteq Nat
        /\ \A i \in Index : IsRow(chunks[i])
    BY Size DEF ChunkInv
  <1>1. ASSUME NEW off \in 0 .. MaxSize, NEW w \in Payloads, HandlePwrite(off, w) PROVE ChunkInv' /\ BF!Next
    <2>1. off \in Nat /\ w \in Seq(Bytes) /\ w # <<>> /\ off + Len(w) <= MaxSize
      BY <1>1, ChunkAssumption DEF HandlePwrite
    <2>2. \A i \in Index : chunks'[i] = IF i \in Touched(off, off + Len(w)) THEN HandleChunk(i, off, w) ELSE chunks[i]
      BY <1>1 DEF HandlePwrite
    <2>3. \A i \in Index : Writes(chunks'[i], chunks[i], i, off, w)
      BY <2>1, <2>2, HandleWrites, Untouched
    <2>4. chunks' = [i \in Index |-> chunks'[i]] /\ size' = Larger(size, off + Len(w)) /\ exists' = TRUE
      BY <1>1 DEF HandlePwrite, ChunkInv
    <2>5. ChunkInv' /\ Contents' = BF!Overwrite(Contents, off, w)
      BY <2>1, <2>3, <2>4, WriteStep
    <2> QED BY <2>1, <2>5 DEF BF!Next, BF!Write
  <1>2. ASSUME NEW off \in 0 .. MaxSize, NEW w \in Payloads, PathPwrite(off, w)
        PROVE  ChunkInv' /\ (BF!Next \/ UNCHANGED Contents)
    <2>1. off \in Nat /\ w \in Seq(Bytes) /\ off + Len(w) <= MaxSize /\ exists' = TRUE
      BY <1>0, <1>2, ChunkAssumption DEF PathPwrite
    <2>2. CASE w # <<>>
      <3>1. \A i \in Index : chunks'[i] = IF i \in Touched(off, off + Len(w)) THEN PathChunk(i, off, w) ELSE chunks[i]
        BY <1>2, <2>2 DEF PathPwrite
      <3>2. \A i \in Index : Writes(chunks'[i], chunks[i], i, off, w)
        BY <2>1, <2>2, <3>1, PathWrites, Untouched
      <3>3. chunks' = [i \in Index |-> chunks'[i]] /\ size' = Larger(size, off + Len(w))
        BY <1>2, <2>2 DEF PathPwrite
      <3>4. ChunkInv' /\ Contents' = BF!Overwrite(Contents, off, w)
        BY <2>1, <2>2, <3>2, <3>3, WriteStep
      <3> QED BY <2>2, <3>4 DEF BF!Next, BF!Write
    <2>3. CASE w = <<>> /\ exists
      <3>1. UNCHANGED <<size, chunks, exists>>
        BY <1>2, <2>3, <2>1 DEF PathPwrite, ChunkInv
      <3> QED BY <3>1 DEF ChunkInv, Contents, ByteAt
    <2>4. CASE w = <<>> /\ ~exists
      <3>1. size' = off /\ chunks' = chunks /\ size = 0
        BY <1>2, <2>4 DEF PathPwrite, ChunkInv
      <3>2. \A i \in Index : Cuts(chunks'[i], chunks[i], i, off)
        BY <1>0, <2>1, <3>1, SameBytes
      <3>3. ChunkInv' /\ Contents' = BF!Resize(Contents, off)
        BY <1>0, <2>1, <3>1, <3>2, TruncateStep
      <3> QED BY <3>3 DEF BF!Next, BF!Truncate
    <2> QED BY <2>2, <2>3, <2>4
  <1>3. ASSUME NEW n \in 0 .. MaxSize, HandleTruncate(n) \/ PathTruncate(n) PROVE ChunkInv' /\ BF!Next
    <2>1. size' = n /\ exists' = TRUE /\ n \in Nat
      BY <1>0, <1>3 DEF HandleTruncate, PathTruncate, ChunkInv
    <2>2. chunks' = [i \in Index |-> chunks'[i]] /\ \A i \in Index : Cuts(chunks'[i], chunks[i], i, n)
      <3>1. CASE n = 0 \/ n < size
        <4>1. chunks' = Shrunk(n)
          BY <1>3, <3>1 DEF HandleTruncate, PathTruncate
        <4>2. Shrunk(n) = [i \in Index |-> Shrunk(n)[i]]
          BY DEF Shrunk
        <4> QED BY <4>1, <4>2, ShrunkCuts
      <3>2. CASE ~(n = 0 \/ n < size) /\ chunks' = chunks
        <4>1. size <= n
          BY <1>0, <2>1, <3>2
        <4>2. \A i \in Index : Cuts(chunks[i], chunks[i], i, n)
          BY <1>0, <2>1, <4>1, SameBytes
        <4> QED BY <1>0, <3>2, <4>2
      <3>3. CASE ~(n = 0 \/ n < size) /\ n > size /\ chunks' = Padded(n)
        <4>1. Padded(n) = [i \in Index |-> Padded(n)[i]]
          BY DEF Padded
        <4>2. size < n
          BY <1>0, <2>1, <3>3
        <4>3. \A i \in Index : Cuts(Padded(n)[i], chunks[i], i, n)
          BY <4>2, PaddedCuts
        <4> QED BY <3>3, <4>1, <4>3
      <3> QED BY <1>3, <3>1, <3>2, <3>3 DEF HandleTruncate, PathTruncate
    <2>3. ChunkInv' /\ Contents' = BF!Resize(Contents, n)
      BY <2>1, <2>2, TruncateStep
    <2> QED BY <2>3 DEF BF!Next, BF!Truncate
  <1>4. CASE UNCHANGED vars
    BY <1>4 DEF vars, ChunkInv, Contents, ByteAt
  <1> QED BY <1>1, <1>2, <1>3, <1>4 DEF Next

\* Writing and truncating, through handles and by path in any order, is writing
\* and truncating a sequence of bytes, for every chunk size, file size and
\* payload: no byte of a neighbour is lost in a chunk, holes and regrown files
\* read as zeros, and what was cut off never comes back (agentfs.rs: pwrite and
\* truncate of AgentFSFile and of AgentFS).
THEOREM ChunksImplementBytes == Spec => ImplementsByteFile
PROOF
  <1>1. ChunkInv /\ [Next]_vars => ChunkInv' /\ [BF!Next]_Contents
    BY ChunkStep
  <1> QED BY <1>1, ChunkInit, PTL DEF Spec, ImplementsByteFile, BF!Spec

(***************************************************************************)
(* Reading.  The reads go from row to row, so what they return is found by *)
(* induction, which the least-number principle of the naturals gives.      *)
(***************************************************************************)
LEMMA LeastElement ==
    ASSUME NEW T \in SUBSET Nat, T # {}
    PROVE  \E x \in T : \A y \in T : x <= y
PROOF
  <1> DEFINE R == OpToRel(<, Nat)
  <1>1. IsWellFoundedOn(R, Nat)
    BY NatLessThanWellFounded
  <1>2. PICK x \in T : \A y \in T : ~(<<y, x>> \in R)
    <2> HIDE DEF R
    <2> QED BY <1>1, WFMin
  <1>3. R = {z \in Nat \X Nat : z[1] < z[2]}
    BY DEF OpToRel
  <1>4. ASSUME NEW y \in T PROVE x <= y
    <2> HIDE DEF R
    <2>1. <<y, x>> \notin R
      BY <1>2
    <2> QED BY <1>3, <2>1
  <1> QED BY <1>4

LEMMA SetInduction ==
    ASSUME NEW S, 0 \in S, \A n \in Nat : n \in S => n + 1 \in S
    PROVE  \A n \in Nat : n \in S
PROOF
  <1> SUFFICES ASSUME NEW T, T = Nat \ S, T # {} PROVE FALSE
    OBVIOUS
  <1>1. PICK x \in T : \A y \in T : x <= y
    BY LeastElement
  <1>2. x - 1 \in Nat /\ x - 1 \in S
    BY <1>1
  <1> QED BY <1>2

\* out is what the file holds from offset off on.
Holds(out, off) == out \in Seq(Bytes) /\ \A j \in 1 .. Len(out) : out[j] = ByteAt(off + j - 1)

LEMMA HoldsMore ==
    ASSUME NEW off \in Nat, NEW out, Holds(out, off), NEW t \in Seq(Bytes),
           \A j \in 1 .. Len(t) : t[j] = ByteAt(off + Len(out) + j - 1)
    PROVE  Holds(out \o t, off) /\ Len(out \o t) = Len(out) + Len(t)
PROOF
  <1>1. out \in Seq(Bytes) /\ \A j \in 1 .. Len(out) : out[j] = ByteAt(off + j - 1)
    BY DEF Holds
  <1>2. /\ out \o t \in Seq(Bytes) /\ Len(out \o t) = Len(out) + Len(t) /\ Len(out) \in Nat /\ Len(t) \in Nat
        /\ \A j \in 1 .. Len(out) + Len(t) : (out \o t)[j] = IF j <= Len(out) THEN out[j] ELSE t[j - Len(out)]
    BY <1>1
  <1>3. ASSUME NEW j \in 1 .. Len(out) + Len(t), ~(j <= Len(out)) PROVE t[j - Len(out)] = ByteAt(off + j - 1)
    <2>1. j - Len(out) \in 1 .. Len(t) /\ off + Len(out) + (j - Len(out)) - 1 = off + j - 1
      BY <1>2, <1>3
    <2> QED BY <2>1
  <1> QED BY <1>1, <1>2, <1>3 DEF Holds

\* The byte at place k of row i.
LEMMA InRow ==
    ASSUME NEW i \in Index, NEW k \in Places
    PROVE  ByteAt(Start(i) + k - 1) = Byte(chunks[i], k)
PROOF
  <1>1. i \in Nat /\ k \in Nat /\ k >= 1 /\ k <= ChunkSize
    BY Division, Size DEF Index, Places
  <1>2. Start(i) \in Int
    BY <1>1, Starts
  <1> DEFINE p == Start(i) + k - 1
  <1>3. p \in Int /\ Start(i) <= p /\ p < Start(i) + ChunkSize
    BY <1>1, <1>2, Size
  <1> HIDE DEF p
  <1>4. p \div ChunkSize = i /\ p % ChunkSize = p - Start(i)
    BY <1>1, <1>3, InChunk
  <1>5. (p % ChunkSize) + 1 = k
    BY <1>1, <1>2, <1>4 DEF p
  <1>6. ByteAt(p) = Byte(chunks[i], k)
    BY <1>4, <1>5 DEF ByteAt, Byte
  <1> QED BY <1>6 DEF p

\* Where there is no row, the file reads as zeros.
LEMMA NoRows ==
    ASSUME NEW p \in Nat, p <= MaxSize, NEW a \in Int, NEW b \in Int, Start(a) <= p, p < Start(b),
           \A i \in Index : a <= i /\ i < b => chunks[i] = <<>>
    PROVE  ByteAt(p) = 0
PROOF
  <1> DEFINE i == p \div ChunkSize
             k == (p % ChunkSize) + 1
  <1>1. i \in Index /\ i \in Int
    BY Indices, Division
  <1>2. p = Start(i) + (k - 1) /\ k \in Int /\ 1 <= k /\ k <= ChunkSize
    BY Division, Size
  <1>3. ByteAt(p) = IF k <= Len(chunks[i]) THEN chunks[i][k] ELSE 0
    BY DEF ByteAt
  <1> HIDE DEF i, k
  <1>4. a <= i
    <2>1. i < a => Start(i) + ChunkSize <= Start(a) /\ Start(a) \in Int
      BY <1>1, Starts
    <2>2. Start(i) \in Int /\ Start(a) \in Int
      BY <1>1, Starts
    <2> QED BY <1>1, <1>2, <2>1, <2>2, Size
  <1>5. i < b
    <2>1. Start(i) \in Int /\ Start(b) \in Int
      BY <1>1, Starts
    <2>2. b < i => Start(b) + ChunkSize <= Start(i)
      BY <1>1, Starts
    <2>3. b = i => Start(b) = Start(i)
      OBVIOUS
    <2> QED BY <1>1, <1>2, <2>1, <2>2, <2>3, Size
  <1>6. chunks[i] = <<>>
    BY <1>1, <1>4, <1>5
  <1> QED BY <1>2, <1>3, <1>6

-----------------------------------------------------------------------------
(* Reading row by row.                                                     *)

\* One row of AgentFSFile::pread, of AgentFS::pread and of AgentFS::read_file.
HandleRow(r, k, first, last, skip0, n) ==
    IF k \in Rows(first, last) THEN PreadRow(r, k, first, skip0, n) ELSE r
PathRow(out, k, first, last, skip0, n) ==
    IF k \in Rows(first, last)
    THEN out \o SubSeq(chunks[k], (IF out = <<>> THEN skip0 ELSE 0) + 1,
                       Smaller(Len(chunks[k]), (IF out = <<>> THEN skip0 ELSE 0) + n - Len(out)))
    ELSE out
OneRow(how, r, k, first, last, skip0, n) ==
    IF how = "handle" THEN HandleRow(r, k, first, last, skip0, n)
    ELSE IF how = "path" THEN PathRow(r, k, first, last, skip0, n)
    ELSE r \o chunks[k]

\* What a read has after each row.
AllRows(g, how, start, first, last, skip0, n) ==
    [k \in first - 1 .. last |-> IF k < first THEN start ELSE OneRow(how, g[k - 1], k, first, last, skip0, n)]

HaveRows(how, start, first, last, skip0, n) == \E g : g = AllRows(g, how, start, first, last, skip0, n)

LEMMA RowsExist ==
    ASSUME NEW how, NEW start, NEW first \in Int, NEW last \in Int, first - 1 <= last, NEW skip0, NEW n
    PROVE  HaveRows(how, start, first, last, skip0, n)
PROOF
  <1> DEFINE Row(r, k) == OneRow(how, r, k, first, last, skip0, n)
             S == {m \in Nat : \E g : g = [k \in first - 1 .. first - 1 + m |->
                                             IF k < first THEN start ELSE Row(g[k - 1], k)]}
  <1> HIDE DEF Row
  <1>1. 0 \in S
    <2> DEFINE g == [k \in first - 1 .. first - 1 |-> start]
    <2>1. g = [k \in first - 1 .. first - 1 + 0 |-> IF k < first THEN start ELSE Row(g[k - 1], k)]
      OBVIOUS
    <2> HIDE DEF g
    <2> QED BY <2>1
  <1>2. ASSUME NEW m \in Nat, m \in S PROVE m + 1 \in S
    <2>1. PICK g : g = [k \in first - 1 .. first - 1 + m |-> IF k < first THEN start ELSE Row(g[k - 1], k)]
      BY <1>2
    <2> DEFINE h == [k \in first - 1 .. first + m |-> IF k = first + m THEN Row(g[k - 1], k) ELSE g[k]]
    <2>2. ASSUME NEW k \in first - 1 .. first + m
          PROVE  h[k] = IF k < first THEN start ELSE Row(h[k - 1], k)
      <3>1. CASE k = first + m
        <4>1. h[k - 1] = g[k - 1]
          BY <3>1
        <4> QED BY <3>1, <4>1
      <3>2. CASE k # first + m
        <4>1. k \in first - 1 .. first - 1 + m /\ h[k] = g[k]
          BY <3>2
        <4>2. k >= first => h[k - 1] = g[k - 1]
          BY <4>1
        <4> QED BY <2>1, <4>1, <4>2
      <3> QED BY <3>1, <3>2
    <2>3. h = [k \in first - 1 .. first - 1 + (m + 1) |-> IF k < first THEN start ELSE Row(h[k - 1], k)]
      <3>1. first - 1 + (m + 1) = first + m
        OBVIOUS
      <3>2. h = [k \in first - 1 .. first + m |-> h[k]]
        OBVIOUS
      <3> HIDE DEF h
      <3> QED BY <2>2, <3>1, <3>2
    <2> HIDE DEF h
    <2> QED BY <2>3
  <1>3. last - (first - 1) \in Nat /\ first - 1 + (last - (first - 1)) = last
    OBVIOUS
  <1>4. last - (first - 1) \in S
    <2> HIDE DEF S
    <2> QED BY <1>1, <1>2, <1>3, SetInduction
  <1>5. PICK g : g = [k \in first - 1 .. last |-> IF k < first THEN start ELSE Row(g[k - 1], k)]
    BY <1>3, <1>4
  <1> QED BY <1>5 DEF HaveRows, AllRows, Row

-----------------------------------------------------------------------------
(* AgentFSFile::pread.                                                     *)

LEMMA Lesser == ASSUME NEW m \in Int, NEW n \in Int
                PROVE  /\ Smaller(m, n) \in Int /\ Smaller(m, n) <= m /\ Smaller(m, n) <= n /\ Smaller(m, n) \in {m, n}
                       /\ Larger(m, n) \in Int /\ Larger(m, n) >= m /\ Larger(m, n) >= n /\ Larger(m, n) \in {m, n}
BY DEF Smaller, Larger

\* What is read when the rows before chunk k have been taken.
Upto(k, first, off, want) == IF k = first THEN 0 ELSE Smaller(Start(k) - off, want)

\* A read of `want' bytes at off, with r so far and the rows below chunk k done.
Reading(r, k, first, off, want) ==
    /\ r = [out |-> r.out, next |-> r.next]
    /\ r.next \in Int /\ first <= r.next /\ r.next <= k
    /\ Holds(r.out, off) /\ Len(r.out) = Upto(r.next, first, off, want)
    /\ \A i \in Index : r.next <= i /\ i < k => chunks[i] = <<>>

LEMMA ZeroBytes == ASSUME NEW n \in Nat PROVE Zeros(n) \in Seq(Bytes) /\ Len(Zeros(n)) = n /\ \A j \in 1 .. n : Zeros(n)[j] = 0
PROOF
  <1>1. Zeros(n) \in [1 .. n -> Bytes] /\ \A j \in 1 .. n : Zeros(n)[j] = 0
    BY ChunkAssumption DEF Zeros
  <1> QED BY <1>1, SeqOf

LEMMA UptoBounds ==
    ASSUME NEW off \in Nat, NEW first \in Int, NEW k \in Int, NEW want \in Nat, first <= k,
           Start(first) <= off, off < Start(first) + ChunkSize
    PROVE  /\ Upto(k, first, off, want) \in Nat /\ Upto(k, first, off, want) <= want
           /\ first < k => Upto(k, first, off, want) <= Start(k) - off /\ off < Start(k)
           /\ Upto(k, first, off, want) < want /\ first < k => Upto(k, first, off, want) = Start(k) - off
           /\ Start(k) \in Int /\ Start(first) \in Int
PROOF
  <1>1. /\ Start(k) \in Int /\ Start(first) \in Int
        /\ first < k => Start(first) + ChunkSize <= Start(k)
    BY Starts
  <1>2. CASE k = first
    BY <1>1, <1>2, Size DEF Upto
  <1>3. CASE k # first
    <2>1. Start(k) - off \in Nat /\ first < k /\ off < Start(k)
      BY <1>1, <1>3, Size
    <2> QED BY <1>1, <1>3, <2>1 DEF Upto, Smaller
  <1> QED BY <1>2, <1>3

LEMMA Piece ==
    ASSUME NEW s \in Seq(Bytes), NEW m \in Nat, NEW n \in Nat, n > 0 => m + n <= Len(s)
    PROVE  /\ SubSeq(s, m + 1, m + n) \in Seq(Bytes) /\ Len(SubSeq(s, m + 1, m + n)) = n
           /\ \A j \in 1 .. n : SubSeq(s, m + 1, m + n)[j] = s[m + j]
PROOF
  <1>1. CASE n = 0
    BY <1>1
  <1>2. CASE n # 0
    <2>1. m + 1 \in 1 .. Len(s) /\ m + n \in m + 1 .. Len(s) /\ (m + n) - (m + 1) + 1 = n
      BY <1>2
    <2>2. SubSeq(s, m + 1, m + n) \in Seq(Bytes) /\ Len(SubSeq(s, m + 1, m + n)) = (m + n) - (m + 1) + 1
      BY <2>1
    <2>3. ASSUME NEW j \in 1 .. n PROVE SubSeq(s, m + 1, m + n)[j] = s[m + j]
      BY <2>1, <2>2
    <2>4. Len(SubSeq(s, m + 1, m + n)) = n
      BY <2>1, <2>2
    <2> QED BY <2>2, <2>3, <2>4
  <1> QED BY <1>1, <1>2

\* What PreadRow puts before row k.
Gap(r, k, first, skip0, n) ==
    IF k > r.next
    THEN Smaller((k - r.next) * ChunkSize - (IF r.next = first THEN skip0 ELSE 0), n - Len(r.out))
    ELSE 0

\* With it, what has been read reaches the row.
Filled(r, gap, k, first, off, want) ==
    /\ Holds(r.out \o Zeros(gap), off)
    /\ Len(r.out \o Zeros(gap)) = Upto(k, first, off, want)

LEMMA GapFilled ==
    ASSUME NEW off \in Nat, NEW want \in Nat, off + want <= MaxSize, NEW first \in Int, NEW k \in Index, first <= k,
           Start(first) <= off, off < Start(first) + ChunkSize,
           NEW r, Reading(r, k, first, off, want)
    PROVE  Filled(r, Gap(r, k, first, off % ChunkSize, want), k, first, off, want)
PROOF
  <1> DEFINE x == r.next
             L == Len(r.out)
             gap == Gap(r, k, first, off % ChunkSize, want)
  <1>0. k \in Nat /\ k \in Int
    BY Division, Size DEF Index
  <1>1. /\ x \in Int /\ first <= x /\ x <= k /\ Holds(r.out, off) /\ L = Upto(x, first, off, want)
        /\ \A i \in Index : x <= i /\ i < k => chunks[i] = <<>>
    BY DEF Reading
  <1>1a. gap = Gap(r, k, first, off % ChunkSize, want)
    OBVIOUS
  <1> HIDE DEF x, L, gap
  <1>2. off % ChunkSize = off - Start(first)
    BY InChunk
  <1>3. /\ L \in Nat /\ L <= want /\ Start(x) \in Int /\ Start(first) \in Int
        /\ first < x => L <= Start(x) - off /\ off < Start(x)
        /\ L < want /\ first < x => L = Start(x) - off
    BY <1>1, UptoBounds
  <1>4. /\ Upto(k, first, off, want) \in Nat /\ Upto(k, first, off, want) <= want /\ Start(k) \in Int
        /\ first < k => off < Start(k)
        /\ first < k => Upto(k, first, off, want) = Smaller(Start(k) - off, want)
    <2>1. first < k => Upto(k, first, off, want) = Smaller(Start(k) - off, want)
      BY <1>0 DEF Upto
    <2> QED BY <1>0, <2>1, UptoBounds
  <1>5. (k - x) * ChunkSize = Start(k) - Start(x)
    BY <1>0, <1>1, Size DEF Start
  <1>6. x = first => L = 0
    BY <1>1 DEF Upto
  <1>7. x < k => Start(x) + ChunkSize <= Start(k)
    BY <1>0, <1>1, Starts
  <1>8. gap \in Nat /\ L + gap = Upto(k, first, off, want) /\ (gap > 0 => x < k /\ L < want /\ L + gap <= want)
    <2>1. CASE x = k
      <3>1. gap = 0
        BY <1>0, <1>1, <1>1a, <2>1 DEF x, Gap
      <3> QED BY <1>1, <1>3, <2>1, <3>1
    <2>2. CASE x < k
      <3>1. gap = Smaller(Start(k) - Start(x) - (IF x = first THEN off - Start(first) ELSE 0), want - L)
        BY <1>1a, <1>2, <1>5, <2>2 DEF x, L, Gap
      <3>2. first < k /\ Upto(k, first, off, want) = Smaller(Start(k) - off, want)
        BY <1>0, <1>1, <1>4, <2>2
      <3>3. CASE x = first
        <4>1. gap = Smaller(Start(k) - off, want) /\ L = 0
          BY <1>3, <1>4, <1>6, <3>1, <3>3
        <4>2. Smaller(Start(k) - off, want) \in Nat /\ Smaller(Start(k) - off, want) <= want
          BY <1>4, <3>2
        <4> QED BY <2>2, <3>2, <4>1, <4>2
      <3>4. CASE x # first
        <4>1. first < x
          BY <1>1, <3>4
        <4>2. gap = Smaller(Start(k) - Start(x), want - L)
          BY <1>3, <1>4, <3>1, <3>4
        <4>3. L < want => L = Start(x) - off
          BY <1>3, <4>1
        <4>4. L = want => want <= Start(x) - off
          BY <1>3, <4>1
        <4>5. Start(x) < Start(k)
          BY <1>3, <1>4, <1>7, <2>2, Size
        <4>6. gap \in Nat /\ L + gap = Smaller(Start(k) - off, want) /\ (gap > 0 => L < want /\ L + gap <= want)
          <5>1. L \in Nat /\ L <= want /\ Start(x) \in Int /\ Start(k) \in Int
            BY <1>3, <1>4
          <5> QED BY <4>2, <4>3, <4>4, <4>5, <5>1 DEF Smaller
        <4> QED BY <2>2, <3>2, <4>6
      <3> QED BY <3>3, <3>4
    <2> QED BY <1>0, <1>1, <2>1, <2>2
  <1>9. ASSUME NEW j \in 1 .. gap PROVE Zeros(gap)[j] = ByteAt(off + L + j - 1)
    <2>1. x < k /\ L < want /\ L + gap <= want /\ gap > 0 /\ j \in Nat
      BY <1>8
    <2>2. Start(x) <= off + L + j - 1
      <3>1. CASE x = first
        BY <1>3, <2>1, <3>1
      <3>2. CASE x # first
        BY <1>1, <1>3, <2>1, <3>2
      <3> QED BY <3>1, <3>2
    <2>3. off + L + j - 1 < Start(k)
      <3>1. first < k /\ Upto(k, first, off, want) <= Start(k) - off
        BY <1>0, <1>1, <1>4, <2>1 DEF Smaller
      <3> QED BY <1>3, <1>4, <1>8, <3>1
    <2>4. off + L + j - 1 \in Nat /\ off + L + j - 1 <= MaxSize
      <3>1. j <= gap
        OBVIOUS
      <3> QED BY <1>3, <1>8, <2>1, <3>1, Size
    <2>5. ByteAt(off + L + j - 1) = 0
      BY <1>0, <1>1, <2>2, <2>3, <2>4, NoRows
    <2> QED BY <1>8, <2>5, ZeroBytes
  <1>10. Zeros(gap) \in Seq(Bytes) /\ Len(Zeros(gap)) = gap
    BY <1>8, ZeroBytes
  <1>11. Holds(r.out \o Zeros(gap), off) /\ Len(r.out \o Zeros(gap)) = L + gap
    <2>1. \A j \in 1 .. Len(Zeros(gap)) : Zeros(gap)[j] = ByteAt(off + Len(r.out) + j - 1)
      BY <1>9, <1>10 DEF L
    <2> QED BY <1>1, <1>10, <2>1, HoldsMore DEF L
  <1> QED BY <1>1a, <1>8, <1>11 DEF Filled

\* The row itself, and the zeros behind its end.
LEMMA RowTaken ==
    ASSUME ChunkInv, NEW off \in Nat, NEW want \in Nat, off + want <= size, NEW first \in Int, NEW k \in Index, first <= k,
           Start(first) <= off, off < Start(first) + ChunkSize,
           NEW r, Reading(r, k, first, off, want)
    PROVE  Reading(PreadRow(r, k, first, off % ChunkSize, want), k + 1, first, off, want)
PROOF
  <1> DEFINE gap == Gap(r, k, first, off % ChunkSize, want)
             out == r.out \o Zeros(gap)
             skip == IF k = first THEN off % ChunkSize ELSE 0
             c == chunks[k]
             take == Smaller(Larger(Len(c) - skip, 0), want - Len(out))
             part == SubSeq(c, skip + 1, skip + take)
             taken == out \o part
             pad == Smaller(ChunkSize - skip - take, want - Len(taken))
             L == Len(out)
  <1>1. PreadRow(r, k, first, off % ChunkSize, want) = [out |-> taken \o Zeros(pad), next |-> k + 1]
    BY DEF PreadRow, Gap
  <1>2. k \in Nat /\ size <= MaxSize /\ size \in Nat /\ c \in Seq(Bytes) /\ Len(c) \in Nat /\ Len(c) <= ChunkSize
    BY Division, Size DEF Index, ChunkInv, IsRow
  <1>3. off + want <= MaxSize
    BY <1>2, Size
  <1>4. Holds(out, off) /\ L = Upto(k, first, off, want)
    <2>1. gap = Gap(r, k, first, off % ChunkSize, want)
      OBVIOUS
    <2> HIDE DEF gap, skip, take, part, taken, pad, c, out, L
    <2>2. Filled(r, Gap(r, k, first, off % ChunkSize, want), k, first, off, want)
      BY <1>3, GapFilled
    <2>3. Filled(r, gap, k, first, off, want)
      BY <2>1, <2>2
    <2> QED BY <2>3 DEF Filled, out, L
  <1>5. /\ Upto(k, first, off, want) \in Nat /\ Upto(k, first, off, want) <= want
        /\ first < k => Upto(k, first, off, want) <= Start(k) - off /\ off < Start(k)
        /\ Upto(k, first, off, want) < want /\ first < k => Upto(k, first, off, want) = Start(k) - off
        /\ Start(k) \in Int /\ Start(first) \in Int
    <2> HIDE DEF gap, out, skip, take, part, taken, pad, L, c
    <2>1. k \in Int
      BY <1>2
    <2> QED BY <2>1, UptoBounds
  <1>6. /\ Upto(k + 1, first, off, want) = Smaller(Start(k) + ChunkSize - off, want)
        /\ Start(k + 1) = Start(k) + ChunkSize
    <2>1. Start(k + 1) = Start(k) + ChunkSize
      BY <1>2, Starts
    <2>2. k + 1 # first
      BY <1>2
    <2>3. Upto(k + 1, first, off, want) = Smaller(Start(k + 1) - off, want)
      BY <2>2 DEF Upto
    <2> HIDE DEF gap, out, skip, take, part, taken, pad, L, c
    <2>4. Start(k + 1) - off = Start(k) + ChunkSize - off
      BY <1>5, <2>1, Size
    <2> QED BY <2>1, <2>3, <2>4
  <1>7. /\ L \in Nat /\ L <= want
        /\ first < k => L <= Start(k) - off /\ off < Start(k)
        /\ L < want /\ first < k => L = Start(k) - off
        /\ k = first => L = 0
    <2> HIDE DEF gap, out, skip, take, part, taken, pad, L, c
    <2>1. k = first => L = 0
      BY <1>4 DEF Upto
    <2> QED BY <1>4, <1>5, <2>1
  <1>8. skip = (IF k = first THEN off - Start(k) ELSE 0)
    BY InChunk
  <1>8a. Start(k) \in Int /\ L \in Nat /\ L <= want
    BY <1>5, <1>7
  <1>8b. take = Smaller(Larger(Len(c) - skip, 0), want - L)
    OBVIOUS
  <1> HIDE DEF out, L, skip, gap, take, c
  <1>9. skip \in Nat /\ skip < ChunkSize
    BY <1>5, <1>8, Size
  <1>10. L < want => off + L = Start(k) + skip
    BY <1>2, <1>5, <1>7, <1>8
  <1>11. /\ take \in Nat /\ L + take <= want /\ skip + take <= ChunkSize
         /\ take > 0 => skip + take <= Len(c) /\ L < want
         /\ L + take < want => skip + take >= Len(c)
         /\ L = want => take = 0
    <2>1. Len(c) \in Nat /\ Len(c) <= ChunkSize
      BY <1>2
    <2> QED BY <2>1, <1>8a, <1>8b, <1>9, Size DEF Smaller, Larger
  <1>12. part \in Seq(Bytes) /\ Len(part) = take /\ \A j \in 1 .. take : part[j] = c[skip + j]
    BY <1>2, <1>9, <1>11, Piece
  <1> HIDE DEF part
  <1>13. ASSUME NEW j \in 1 .. take PROVE part[j] = ByteAt(off + L + j - 1)
    <2>1. j \in Nat /\ j >= 1 /\ j <= take /\ take > 0 /\ L < want /\ skip + j <= Len(c)
      BY <1>9, <1>11
    <2>2. skip + j \in Places
      <3>1. skip + j \in Nat /\ skip + j >= 1 /\ skip + j <= ChunkSize
        BY <1>2, <1>9, <1>11, <2>1, Size
      <3> QED BY <3>1 DEF Places
    <2>3. ByteAt(Start(k) + (skip + j) - 1) = Byte(c, skip + j)
      BY <2>2, InRow DEF c
    <2>4. Start(k) + (skip + j) - 1 = off + L + j - 1
      BY <1>8a, <1>9, <1>10, <2>1
    <2>5. Byte(c, skip + j) = c[skip + j]
      BY <2>1 DEF Byte
    <2> QED BY <1>12, <2>3, <2>4, <2>5
  <1>14. Holds(taken, off) /\ Len(taken) = L + take
    <2>1. \A j \in 1 .. Len(part) : part[j] = ByteAt(off + Len(out) + j - 1)
      BY <1>12, <1>13 DEF L
    <2> QED BY <1>4, <1>12, <2>1, HoldsMore DEF L
  <1> HIDE DEF taken
  <1>15. /\ pad \in Nat /\ L + take + pad = Smaller(Start(k) + ChunkSize - off, want)
         /\ pad > 0 => L + take < want
         /\ pad <= ChunkSize - skip - take
    <2>1. pad = Smaller(ChunkSize - skip - take, want - (L + take))
      BY <1>14
    <2>2. L = want => want <= Start(k) + ChunkSize - off
      <3>1. CASE k = first
        BY <1>7, <1>8a, <3>1, Size
      <3>2. CASE k # first
        BY <1>2, <1>7, <1>8a, <3>2, Size
      <3> QED BY <3>1, <3>2
    <2> HIDE DEF pad
    <2> QED BY <1>8a, <1>9, <1>10, <1>11, <2>1, <2>2, Size DEF Smaller
  <1> HIDE DEF pad
  <1>16. ASSUME NEW j \in 1 .. pad PROVE Zeros(pad)[j] = ByteAt(off + (L + take) + j - 1)
    <2>1. j \in Nat /\ j >= 1 /\ j <= pad /\ L + take < want /\ skip + take >= Len(c)
      BY <1>11, <1>15
    <2>2. skip + take + j \in Places
      <3>1. skip + take + j \in Nat /\ skip + take + j >= 1 /\ skip + take + j <= ChunkSize
        BY <1>9, <1>11, <1>15, <2>1, Size
      <3> QED BY <3>1 DEF Places
    <2>3. ByteAt(Start(k) + (skip + take + j) - 1) = Byte(c, skip + take + j)
      BY <2>2, InRow DEF c
    <2>4. Start(k) + (skip + take + j) - 1 = off + (L + take) + j - 1
      BY <1>8a, <1>9, <1>10, <1>11, <2>1
    <2>5. Byte(c, skip + take + j) = 0
      BY <1>2, <1>9, <1>11, <2>1 DEF Byte
    <2> QED BY <1>15, <2>3, <2>4, <2>5, ZeroBytes
  <1>17. Holds(taken \o Zeros(pad), off) /\ Len(taken \o Zeros(pad)) = L + take + pad
    <2>1. Zeros(pad) \in Seq(Bytes) /\ Len(Zeros(pad)) = pad
      BY <1>15, ZeroBytes
    <2>2. \A j \in 1 .. Len(Zeros(pad)) : Zeros(pad)[j] = ByteAt(off + Len(taken) + j - 1)
      BY <1>14, <1>16, <2>1
    <2> QED BY <1>14, <2>1, <2>2, HoldsMore
  <1>18. \A i \in Index : k + 1 <= i /\ i < k + 1 => chunks[i] = <<>>
    <2>1. \A i \in Index : i \in Int
      BY Division, Size DEF Index
    <2> QED BY <1>2, <2>1
  <1> DEFINE u == [out |-> taken \o Zeros(pad), next |-> k + 1]
  <1>19. u.out = taken \o Zeros(pad) /\ u.next = k + 1 /\ u = [out |-> u.out, next |-> u.next]
    OBVIOUS
  <1> HIDE DEF u
  <1>20. Reading(u, k + 1, first, off, want)
    BY <1>2, <1>6, <1>15, <1>17, <1>18, <1>19 DEF Reading
  <1> QED BY <1>1, <1>20 DEF u

\* Where a read of `want' bytes ends.
LEMMA LastRow ==
    ASSUME NEW off \in Nat, NEW want \in Nat,
           NEW first, first = off \div ChunkSize, NEW last, last = Larger(off + want - 1, 0) \div ChunkSize
    PROVE  /\ first \in Int /\ last \in Int /\ first - 1 <= last
           /\ Start(first) <= off /\ off < Start(first) + ChunkSize
           /\ Start(last + 1) \in Int
           /\ want > 0 => off + want - 1 < Start(last + 1)
PROOF
  <1> DEFINE q == Larger(off + want - 1, 0)
  <1>1. q \in Nat /\ (want > 0 => q = off + want - 1) /\ off - 1 <= q
    BY DEF Larger
  <1> HIDE DEF q
  <1>2. last = q \div ChunkSize
    BY DEF q
  <1>3. /\ first \in Int /\ off % ChunkSize \in Int /\ off = Start(first) + (off % ChunkSize)
        /\ 0 <= off % ChunkSize /\ off % ChunkSize < ChunkSize
    BY Division
  <1>4. /\ last \in Int /\ q % ChunkSize \in Int /\ q = Start(last) + (q % ChunkSize)
        /\ 0 <= q % ChunkSize /\ q % ChunkSize < ChunkSize
    BY <1>1, <1>2, Division
  <1>5. Start(first) \in Int /\ Start(last) \in Int /\ Start(last + 1) = Start(last) + ChunkSize
    BY <1>3, <1>4, Starts
  <1>6. first - 1 <= last
    <2>1. last + 1 < first => Start(last + 1) + ChunkSize <= Start(first)
      BY <1>3, <1>4, Starts
    <2> QED BY <1>1, <1>3, <1>4, <1>5, <2>1, Size
  <1> QED BY <1>1, <1>3, <1>4, <1>5, <1>6, Size

\* After every row the read holds what the file does, up to the row's end.
LEMMA HandleRowsRead ==
    ASSUME ChunkInv, NEW off \in Nat, NEW want \in Nat, off + want <= size, NEW first \in Int, NEW last \in Int,
           first - 1 <= last, Start(first) <= off, off < Start(first) + ChunkSize,
           NEW g, g = AllRows(g, "handle", [out |-> <<>>, next |-> first], first, last, off % ChunkSize, want)
    PROVE  Reading(g[last], last + 1, first, off, want)
PROOF
  <1> DEFINE S == {m \in Nat : first - 1 + m <= last => Reading(g[first - 1 + m], first + m, first, off, want)}
  <1>0. \A k \in first - 1 .. last :
           g[k] = IF k < first THEN [out |-> <<>>, next |-> first]
                  ELSE HandleRow(g[k - 1], k, first, last, off % ChunkSize, want)
    <2>1. \A k \in first - 1 .. last : AllRows(g, "handle", [out |-> <<>>, next |-> first], first, last, off % ChunkSize, want)[k] =
             IF k < first THEN [out |-> <<>>, next |-> first]
             ELSE HandleRow(g[k - 1], k, first, last, off % ChunkSize, want)
      BY DEF AllRows, OneRow
    <2> QED BY <2>1
  <1>1. 0 \in S
    <2> DEFINE u == [out |-> <<>>, next |-> first]
    <2>1. g[first - 1] = u
      BY <1>0
    <2>2. u.out = <<>> /\ u.next = first /\ u = [out |-> u.out, next |-> u.next]
      OBVIOUS
    <2> HIDE DEF u
    <2>3. Holds(u.out, off) /\ Len(u.out) = 0
      BY <2>2 DEF Holds
    <2>4. \A i \in Index : ~(first <= i /\ i < first)
      <3>1. \A i \in Index : i \in Int
        BY Division, Size DEF Index
      <3> QED BY <3>1
    <2>5. Reading(u, first, first, off, want)
      BY <2>2, <2>3, <2>4 DEF Reading, Upto
    <2>6. first - 1 + 0 = first - 1 /\ first + 0 = first
      OBVIOUS
    <2> QED BY <2>1, <2>5, <2>6
  <1>2. ASSUME NEW m \in Nat, m \in S PROVE m + 1 \in S
    <2> SUFFICES ASSUME first - 1 + (m + 1) <= last
                 PROVE  Reading(g[first - 1 + (m + 1)], first + (m + 1), first, off, want)
      OBVIOUS
    <2> DEFINE k == first + m
    <2>1. k \in Int /\ first <= k /\ k <= last /\ k - 1 = first - 1 + m /\ k = first - 1 + (m + 1) /\ k + 1 = first + (m + 1)
      OBVIOUS
    <2>2. Reading(g[k - 1], k, first, off, want)
      BY <1>2, <2>1
    <2>3. g[k] = HandleRow(g[k - 1], k, first, last, off % ChunkSize, want)
      BY <1>0, <2>1
    <2> HIDE DEF k
    <2>4. CASE k \in Rows(first, last)
      <3>1. k \in Index
        BY <2>4 DEF Rows
      <3>2. Reading(PreadRow(g[k - 1], k, first, off % ChunkSize, want), k + 1, first, off, want)
        BY <2>1, <2>2, <3>1, RowTaken
      <3>3. g[k] = PreadRow(g[k - 1], k, first, off % ChunkSize, want)
        BY <2>3, <2>4 DEF HandleRow
      <3> QED BY <2>1, <3>2, <3>3
    <2>5. CASE k \notin Rows(first, last)
      <3>1. g[k] = g[k - 1]
        BY <2>3, <2>5 DEF HandleRow
      <3>2. k \in Index => chunks[k] = <<>>
        BY <2>1, <2>5 DEF Rows
      <3>3. \A i \in Index : i \in Int
        BY Division, Size DEF Index
      <3>4. \A i \in Index : i < k + 1 => i < k \/ i = k
        BY <2>1, <3>3
      <3>5. Reading(g[k - 1], k + 1, first, off, want)
        BY <2>1, <2>2, <3>2, <3>4 DEF Reading
      <3> QED BY <2>1, <3>1, <3>5
    <2> QED BY <2>4, <2>5
  <1>3. last - (first - 1) \in Nat
    OBVIOUS
  <1>4. last - (first - 1) \in S
    <2> HIDE DEF S
    <2> QED BY <1>1, <1>2, <1>3, SetInduction
  <1>5. first - 1 + (last - (first - 1)) = last /\ first + (last - (first - 1)) = last + 1
    OBVIOUS
  <1> QED BY <1>4, <1>5

\* ReadAt of the content, byte by byte.
LEMMA ContentRead ==
    ASSUME ChunkInv, NEW off \in Nat, NEW n \in Nat, off < size, NEW want, want = Smaller(n, size - off)
    PROVE  /\ want \in Nat /\ off + want <= size /\ want <= n
           /\ BF!ReadAt(Contents, off, n) = [j \in 1 .. want |-> ByteAt(off + j - 1)]
PROOF
  <1>1. size \in Nat
    BY Size DEF ChunkInv
  <1>2. want \in Nat /\ off + want <= size /\ want <= n /\ off + want = (IF off + n < size THEN off + n ELSE size)
    BY <1>1 DEF Smaller
  <1>3. Contents \in Seq(Bytes) /\ Len(Contents) = size
    <2>1. ASSUME NEW k \in 1 .. size PROVE ByteAt(k - 1) \in Bytes
      <3>1. k - 1 \in Nat /\ k - 1 <= MaxSize
        BY <1>1, Size DEF ChunkInv
      <3>2. IsRow(chunks[(k - 1) \div ChunkSize])
        BY <3>1, Indices DEF ChunkInv
      <3>3. ((k - 1) % ChunkSize) + 1 \in Nat /\ ((k - 1) % ChunkSize) + 1 >= 1
        BY <3>1, Division
      <3> DEFINE c == chunks[(k - 1) \div ChunkSize]
                 j == ((k - 1) % ChunkSize) + 1
      <3>4. c \in Seq(Bytes)
        BY <3>2 DEF IsRow
      <3>5. j \in Nat /\ j >= 1
        BY <3>3
      <3>6. ByteAt(k - 1) = IF j <= Len(c) THEN c[j] ELSE 0
        BY DEF ByteAt
      <3> HIDE DEF c, j
      <3>7. j <= Len(c) => c[j] \in Bytes
        BY <3>4, <3>5
      <3> QED BY <3>6, <3>7, ChunkAssumption
    <2>2. Contents \in [1 .. size -> Bytes]
      BY <2>1 DEF Contents
    <2> QED BY <1>1, <2>2, SeqOf
  <1>4. \A k \in 1 .. size : Contents[k] = ByteAt(k - 1)
    BY DEF Contents
  <1> DEFINE t == SubSeq(Contents, off + 1, off + want)
  <1>5. BF!ReadAt(Contents, off, n) = t
    BY <1>2, <1>3 DEF BF!ReadAt
  <1>6. t \in Seq(Bytes) /\ Len(t) = want /\ \A j \in 1 .. want : t[j] = Contents[off + j]
    BY <1>2, <1>3, Piece
  <1> HIDE DEF t
  <1>7. ASSUME NEW j \in 1 .. want PROVE t[j] = ByteAt(off + j - 1)
    <2>1. off + j \in 1 .. size
      BY <1>1, <1>2
    <2> QED BY <1>4, <1>6, <2>1
  <1>8. t = [j \in 1 .. want |-> t[j]]
    BY <1>6
  <1> QED BY <1>2, <1>5, <1>7, <1>8

LEMMA PastEnd ==
    ASSUME ChunkInv, NEW off \in Nat, NEW n \in Nat, off >= size
    PROVE  BF!ReadAt(Contents, off, n) = <<>>
PROOF
  <1>1. size \in Nat
    BY Size DEF ChunkInv
  <1>2. Len(Contents) = size
    BY <1>1 DEF Contents
  <1> DEFINE e == IF off + n < size THEN off + n ELSE size
  <1>3. e \in Int /\ e < off + 1
    BY <1>1
  <1>4. BF!ReadAt(Contents, off, n) = SubSeq(Contents, off + 1, e)
    BY <1>2 DEF BF!ReadAt
  <1> HIDE DEF e
  <1> QED BY <1>3, <1>4

LEMMA HandlePreadReads ==
    ASSUME ChunkInv, NEW off \in Nat, NEW n \in Nat
    PROVE  HandlePread(off, n) = BF!ReadAt(Contents, off, n)
PROOF
  <1>0. size \in Nat /\ size <= MaxSize
    BY Size DEF ChunkInv
  <1>1. CASE off >= size
    <2>1. HandlePread(off, n) = <<>>
      BY <1>1 DEF HandlePread
    <2> QED BY <1>1, <2>1, PastEnd
  <1>2. CASE ~(off >= size)
    <2> DEFINE want == Smaller(n, size - off)
               first == off \div ChunkSize
               last == Larger(off + want - 1, 0) \div ChunkSize
               g == CHOOSE f : f = AllRows(f, "handle", [out |-> <<>>, next |-> first], first, last, off % ChunkSize, want)
    <2>1. HandlePread(off, n) = BF!Resize(g[last].out, want)
      BY <1>2 DEF HandlePread, AllRows, OneRow, HandleRow
    <2>2. /\ want \in Nat /\ off + want <= size
          /\ BF!ReadAt(Contents, off, n) = [j \in 1 .. want |-> ByteAt(off + j - 1)]
      <3>1. off < size
        BY <1>0, <1>2
      <3> QED BY <3>1, ContentRead
    <2>3. first = off \div ChunkSize /\ last = Larger(off + want - 1, 0) \div ChunkSize
      OBVIOUS
    <2> HIDE DEF want, first, last
    <2>4. /\ first \in Int /\ last \in Int /\ first - 1 <= last
          /\ Start(first) <= off /\ off < Start(first) + ChunkSize
          /\ Start(last + 1) \in Int
          /\ want > 0 => off + want - 1 < Start(last + 1)
      BY <2>2, <2>3, LastRow
    <2>5. g = AllRows(g, "handle", [out |-> <<>>, next |-> first], first, last, off % ChunkSize, want)
      <3> DEFINE start == [out |-> <<>>, next |-> first]
                 skip == off % ChunkSize
                 how == "handle"
      <3>1. first \in Int /\ last \in Int /\ first - 1 <= last
        BY <2>4
      <3> HIDE DEF g, start, skip, how
      <3>2. HaveRows(how, start, first, last, skip, want)
        BY <3>1, RowsExist
      <3> QED BY <3>2 DEF HaveRows, g, start, skip, how
    <2> HIDE DEF g
    <2>6. Reading(g[last], last + 1, first, off, want)
      BY <2>2, <2>4, <2>5, HandleRowsRead
    <2> DEFINE r == g[last]
               x == r.next
               L == Len(r.out)
    <2>7. /\ x \in Int /\ first <= x /\ x <= last + 1 /\ Holds(r.out, off) /\ L = Upto(x, first, off, want)
          /\ \A i \in Index : x <= i /\ i < last + 1 => chunks[i] = <<>>
      BY <2>6 DEF Reading
    <2> HIDE DEF r, x, L
    <2>8. /\ L \in Nat /\ L <= want /\ Start(x) \in Int /\ Start(first) \in Int
          /\ L < want /\ first < x => L = Start(x) - off
          /\ x = first => L = 0
      <3>1. /\ Upto(x, first, off, want) \in Nat /\ Upto(x, first, off, want) <= want
            /\ Upto(x, first, off, want) < want /\ first < x => Upto(x, first, off, want) = Start(x) - off
            /\ Start(x) \in Int /\ Start(first) \in Int
        BY <2>2, <2>4, <2>7, UptoBounds
      <3>2. x = first => L = 0
        BY <2>7 DEF Upto
      <3> QED BY <2>7, <3>1, <3>2
    <2>9. ASSUME NEW j \in 1 .. want
          PROVE  (IF j <= L THEN r.out[j] ELSE 0) = ByteAt(off + j - 1)
      <3>1. CASE j <= L
        <4>1. j \in 1 .. L
          BY <2>8, <3>1
        <4> QED BY <2>7, <3>1, <4>1 DEF Holds, L
      <3>2. CASE ~(j <= L)
        <4>1. Start(x) <= off + j - 1
          <5>1. CASE x = first
            BY <2>2, <2>4, <2>8, <3>2, <5>1
          <5>2. CASE x # first
            BY <2>2, <2>4, <2>7, <2>8, <3>2, <5>2
          <5> QED BY <5>1, <5>2
        <4>2. off + j - 1 < Start(last + 1)
          BY <2>2, <2>4
        <4>3. off + j - 1 \in Nat /\ off + j - 1 <= MaxSize
          BY <1>0, <2>2, Size
        <4>4. last + 1 \in Int
          BY <2>4
        <4>5. ByteAt(off + j - 1) = 0
          BY <2>7, <4>1, <4>2, <4>3, <4>4, NoRows
        <4> QED BY <3>2, <4>5
      <3> QED BY <3>1, <3>2
    <2>10. BF!Resize(r.out, want) = [j \in 1 .. want |-> ByteAt(off + j - 1)]
      BY <2>9 DEF BF!Resize, L
    <2> QED BY <2>1, <2>2, <2>10 DEF r
  <1> QED BY <1>1, <1>2

LEMMA ChunkInvariant == Spec => []ChunkInv
PROOF
  <1>1. ChunkInv /\ [Next]_vars => ChunkInv'
    BY ChunkStep
  <1> QED BY <1>1, ChunkInit, PTL DEF Spec

\* A handle reads the content back for every offset and length, over every mix
\* of holes, short rows and full rows (agentfs.rs: AgentFSFile::pread, which
\* fills gaps, pads short rows and stops at the size).
THEOREM HandleReads == Spec => []HandleReadsContent
PROOF
  <1>1. ChunkInv => HandleReadsContent
    <2> SUFFICES ASSUME ChunkInv, NEW off \in 0 .. MaxSize + 1, NEW n \in 0 .. MaxSize + 1
                 PROVE  HandlePread(off, n) = BF!ReadAt(Contents, off, n)
      BY DEF HandleReadsContent
    <2>1. off \in Nat /\ n \in Nat
      BY Size
    <2> QED BY <2>1, HandlePreadReads
  <1> QED BY <1>1, ChunkInvariant, PTL

-----------------------------------------------------------------------------
(* AgentFS::pread and read_file.  They take what rows there are for the    *)
(* file, so they need every row of the file to be there and to be as long  *)
(* as the file is in it.                                                   *)

\* How much of chunk i a file of n bytes fills.
Fill(i, n) == IF n <= Start(i) THEN 0 ELSE IF n >= Start(i) + ChunkSize THEN ChunkSize ELSE n - Start(i)

Dense == ~holes => \A i \in Index : Len(chunks[i]) = Fill(i, size)

DenseInv == ChunkInv /\ holes \in BOOLEAN /\ Dense

LEMMA StartOf == ASSUME NEW i \in Index PROVE i \in Nat /\ Start(i) \in Nat
PROOF
  <1>1. i \in Nat
    BY Division, Size DEF Index
  <1> QED BY <1>1, Starts

LEMMA HandleFills ==
    ASSUME ChunkInv, NEW off \in Nat, NEW w \in Seq(Bytes), w # <<>>, NEW i \in Index, i \in Touched(off, off + Len(w)),
           Len(chunks[i]) = Fill(i, size)
    PROVE  Len(HandleChunk(i, off, w)) = Fill(i, Larger(size, off + Len(w)))
PROOF
  <1> DEFINE f == From(i, off)
             end == off + Len(w)
             t == To(i, end)
             b == Part(i, off, w)
  <1>0. end \in Nat /\ off < end /\ size \in Nat
    BY Size DEF ChunkInv
  <1>1. Start(i) \in Nat /\ Start(i) < end
    BY <1>0, TouchedChunk
  <1>2. f \in Nat /\ t \in Nat /\ f < t /\ t <= ChunkSize /\ Len(b) = t - f
    BY PartOf
  <1>3. t = IF end - Start(i) < ChunkSize THEN end - Start(i) ELSE ChunkSize
    BY DEF To, Smaller, Start
  <1>4. IsRow(chunks[i])
    BY DEF ChunkInv
  <1>5. Agrees(chunks[i], chunks[i], i, off, w)
    BY DEF Agrees
  <1>6. Len(BF!Overwrite(chunks[i], f, b)) = IF t > Len(chunks[i]) THEN t ELSE Len(chunks[i])
    BY <1>4, <1>5, Patched
  <1>7. CASE Len(b) = ChunkSize
    <2>1. HandleChunk(i, off, w) = b
      BY <1>7 DEF HandleChunk
    <2> HIDE DEF f, t, b, end
    <2>2. t = ChunkSize
      BY <1>2, <1>7, Size
    <2>3. end >= Start(i) + ChunkSize
      BY <1>0, <1>1, <1>3, <2>2, Size
    <2>4. Fill(i, Larger(size, end)) = ChunkSize
      BY <1>0, <1>1, <2>3, Size DEF Fill, Larger
    <2> QED BY <1>7, <2>1, <2>4 DEF end
  <1>8. CASE Len(b) # ChunkSize
    <2>1. HandleChunk(i, off, w) = BF!Overwrite(chunks[i], f, b)
      BY <1>8 DEF HandleChunk
    <2> DEFINE len == Len(chunks[i])
               r == Len(HandleChunk(i, off, w))
    <2>2. r = (IF t > len THEN t ELSE len) /\ len = Fill(i, size)
      BY <1>6, <2>1
    <2> HIDE DEF f, t, b, end, len, r
    <2>3. r = Fill(i, Larger(size, end))
      BY <1>0, <1>1, <1>3, <2>2, Size DEF Fill, Larger
    <2> QED BY <2>3 DEF r, end
  <1> QED BY <1>7, <1>8

LEMMA PathFills ==
    ASSUME ChunkInv, NEW off \in Nat, NEW w \in Seq(Bytes), w # <<>>, NEW i \in Index, i \in Touched(off, off + Len(w))
    PROVE  Len(PathChunk(i, off, w)) = Fill(i, Larger(size, off + Len(w)))
PROOF
  <1> DEFINE end == off + Len(w)
             f == From(i, off)
             t == To(i, end)
             partial == f > 0 \/ t < ChunkSize
             old == IF partial THEN BF!Resize(chunks[i], ChunkSize) ELSE Zeros(ChunkSize)
             full == BF!Overwrite(old, f, Part(i, off, w))
             oldEnd == IF size > i * ChunkSize THEN Smaller(size - i * ChunkSize, ChunkSize) ELSE 0
             cut == Larger(end - i * ChunkSize, oldEnd)
             last == i = (end - 1) \div ChunkSize
  <1>1. PathChunk(i, off, w) = IF last THEN SubSeq(full, 1, cut) ELSE full
    BY DEF PathChunk
  <1>2. IsRow(chunks[i]) /\ size \in Nat
    BY Size DEF ChunkInv
  <1>3. end \in Nat /\ off < end
    OBVIOUS
  <1>4. Start(i) \in Nat /\ Start(i) < end /\ (last => end - Start(i) <= ChunkSize) /\ (~last => Start(i) + ChunkSize < end)
    BY <1>3, TouchedChunk
  <1>5. f \in Nat /\ t \in Nat /\ f < t /\ t <= ChunkSize /\ Part(i, off, w) \in Seq(Bytes) /\ Len(Part(i, off, w)) = t - f
    BY PartOf
  <1>6. old \in Seq(Bytes) /\ Len(old) = ChunkSize
    <2>1. CASE partial
      <3>1. IsRow(BF!Resize(chunks[i], ChunkSize)) /\ Len(BF!Resize(chunks[i], ChunkSize)) = ChunkSize
        <4>1. ChunkSize \in Nat /\ ChunkSize <= ChunkSize
          BY Size
        <4> QED BY <1>2, <4>1, Resized
      <3>2. old = BF!Resize(chunks[i], ChunkSize)
        BY <2>1
      <3> QED BY <3>1, <3>2 DEF IsRow
    <2>2. CASE ~partial
      BY <2>2, ZeroRow, Size DEF IsRow
    <2> QED BY <2>1, <2>2
  <1>7. cut = Fill(i, Larger(size, end)) \/ ~last
    <2>1. oldEnd = IF size > Start(i) THEN IF size - Start(i) < ChunkSize THEN size - Start(i) ELSE ChunkSize ELSE 0
      BY DEF Smaller, Start
    <2>2. cut = IF end - Start(i) > oldEnd THEN end - Start(i) ELSE oldEnd
      BY DEF Larger, Start
    <2> HIDE DEF oldEnd, cut, end, last, full, old, partial
    <2> QED BY <1>2, <1>3, <1>4, <2>1, <2>2, Size DEF Fill, Larger
  <1>8. Fill(i, Larger(size, end)) \in Nat /\ Fill(i, Larger(size, end)) <= ChunkSize
        /\ (~last => Fill(i, Larger(size, end)) = ChunkSize)
    <2> HIDE DEF oldEnd, cut, end, last, full, old, partial
    <2> QED BY <1>2, <1>3, <1>4, Size DEF Fill, Larger
  <1> HIDE DEF old, t, f, cut, last, end
  <1>9. full \in Seq(Bytes) /\ Len(full) = ChunkSize
    <2> DEFINE b == Part(i, off, w)
    <2>0. full = BF!Overwrite(old, f, b) /\ b \in Seq(Bytes) /\ f \in Nat /\ t \in Nat /\ t <= ChunkSize /\ Len(b) = t - f
      BY <1>5
    <2> HIDE DEF b, full
    <2>1. f + Len(b) = t /\ f + Len(b) <= ChunkSize /\ Len(old) <= ChunkSize
      BY <1>6, <2>0, Size
    <2>2. /\ IsRow(full)
          /\ Len(full) = (IF f + Len(b) > Len(old) THEN f + Len(b) ELSE Len(old))
      BY <1>6, <2>0, <2>1, Overwritten
    <2> QED BY <1>5, <1>6, <2>1, <2>2, Size DEF IsRow
  <1> HIDE DEF full
  <1>10. CASE last
    <2>1. cut \in Nat /\ cut <= ChunkSize
      BY <1>7, <1>8, <1>10
    <2>2. Len(SubSeq(full, 1, cut)) = cut
      BY <1>9, <2>1, Beginning DEF IsRow
    <2> QED BY <1>1, <1>7, <1>10, <2>2 DEF end
  <1>11. CASE ~last
    BY <1>1, <1>8, <1>9, <1>11 DEF end
  <1> QED BY <1>10, <1>11

\* A row that a write leaves alone, when the write skips nothing.
LEMMA UntouchedFills ==
    ASSUME ChunkInv, NEW off \in Nat, NEW w \in Seq(Bytes), w # <<>>, NEW i \in Index, i \notin Touched(off, off + Len(w)),
           off <= size
    PROVE  Fill(i, Larger(size, off + Len(w))) = Fill(i, size)
PROOF
  <1> DEFINE end == off + Len(w)
  <1>0. end \in Nat /\ off < end /\ size \in Nat
    BY Size DEF ChunkInv
  <1>1. Start(i) \in Nat /\ \A k \in Places : ~(off < Start(i) + k /\ Start(i) + k <= end)
    BY <1>0, TouchedChunk
  <1> HIDE DEF end
  <1>2. end <= Start(i) \/ Start(i) + ChunkSize <= off
    <2> SUFFICES ASSUME Start(i) < end, off < Start(i) + ChunkSize PROVE FALSE
      BY <1>0, <1>1, Size
    <2> DEFINE k == IF off < Start(i) THEN 1 ELSE off - Start(i) + 1
    <2>1. k \in 1 .. ChunkSize
      BY <1>0, <1>1, Size
    <2>2. off < Start(i) + k /\ Start(i) + k <= end
      BY <1>0, <1>1, Size
    <2> HIDE DEF k
    <2> QED BY <1>1, <2>1, <2>2 DEF Places
  <1>3. Fill(i, Larger(size, end)) = Fill(i, size)
    BY <1>0, <1>1, <1>2, Size DEF Fill, Larger
  <1> QED BY <1>3 DEF end

LEMMA ShrunkFills ==
    ASSUME ChunkInv, NEW n \in 0 .. MaxSize, n = 0 \/ (n < size /\ \A i \in Index : Len(chunks[i]) = Fill(i, size)), NEW i \in Index
    PROVE  Len(Shrunk(n)[i]) = Fill(i, n)
PROOF
  <1> DEFINE c == chunks[i]
             r == Shrunk(n)[i]
  <1>1. n \in Nat /\ size \in Nat /\ IsRow(c) /\ Len(c) \in Nat /\ i \in Nat /\ Start(i) \in Nat
    BY Size, StartOf DEF ChunkInv, IsRow
  <1>2. r = IF n = 0 \/ i > LastChunk(n) THEN <<>>
            ELSE IF i = LastChunk(n) /\ n % ChunkSize > 0
                 THEN SubSeq(c, 1, Smaller(n % ChunkSize, Len(c)))
                 ELSE c
    BY DEF Shrunk
  <1>3. n # 0 => n < size /\ Len(c) = Fill(i, size)
    OBVIOUS
  <1> HIDE DEF c, r
  <1>4. CASE n = 0
    <2>1. r = <<>> /\ Fill(i, n) = 0
      BY <1>1, <1>2, <1>4 DEF Fill
    <2> QED BY <2>1 DEF r
  <1>5. CASE n # 0 /\ i > LastChunk(n)
    <2>1. n <= Start(i)
      BY <1>1, <1>5, LastOf
    <2>2. r = <<>> /\ Fill(i, n) = 0
      BY <1>2, <1>5, <2>1 DEF Fill
    <2> QED BY <2>2 DEF r
  <1>6. CASE n # 0 /\ i = LastChunk(n) /\ n % ChunkSize > 0
    <2> DEFINE m == n % ChunkSize
    <2>1. Start(i) < n /\ n <= Start(i) + ChunkSize /\ m = IF n = Start(i) + ChunkSize THEN 0 ELSE n - Start(i)
      BY <1>1, <1>6, LastOf
    <2>2. m = n - Start(i) /\ m \in Nat /\ m < ChunkSize
      BY <1>1, <1>6, <2>1, Size
    <2>3. r = SubSeq(c, 1, Smaller(m, Len(c)))
      <3>1. ~(n = 0 \/ i > LastChunk(n))
        BY <1>1, <1>6
      <3> QED BY <1>2, <1>6, <3>1
    <2> HIDE DEF m
    <2>4. m <= Len(c)
      BY <1>1, <1>3, <1>6, <2>1, <2>2, Size DEF Fill
    <2>5. Smaller(m, Len(c)) = m
      BY <1>1, <2>2, <2>4 DEF Smaller
    <2>6. Len(r) = m
      BY <1>1, <2>2, <2>3, <2>4, <2>5, Beginning
    <2>7. Fill(i, n) = m
      BY <1>1, <2>1, <2>2, Size DEF Fill
    <2> QED BY <2>6, <2>7 DEF r
  <1>7. CASE n # 0 /\ ~(i > LastChunk(n)) /\ ~(i = LastChunk(n) /\ n % ChunkSize > 0)
    <2>1. r = c
      BY <1>2, <1>7
    <2>2. Start(i) + ChunkSize <= n
      <3>1. n > 0 /\ LastChunk(n) \in Int
        BY <1>1, <1>7, LastOf
      <3>2. CASE i < LastChunk(n)
        BY <1>1, <3>1, <3>2, LastOf
      <3>3. CASE i = LastChunk(n)
        <4>1. /\ Start(i) < n /\ n <= Start(i) + ChunkSize
              /\ n % ChunkSize = IF n = Start(i) + ChunkSize THEN 0 ELSE n - Start(i)
          BY <1>1, <3>1, <3>3, LastOf
        <4> QED BY <1>1, <1>7, <3>3, <4>1, Size
      <3> QED BY <1>1, <1>7, <3>1, <3>2, <3>3
    <2>3. Fill(i, n) = ChunkSize /\ Fill(i, size) = ChunkSize
      BY <1>1, <1>3, <1>7, <2>2, Size DEF Fill
    <2> QED BY <1>3, <1>7, <2>1, <2>3 DEF r
  <1> QED BY <1>4, <1>5, <1>6, <1>7

LEMMA PaddedFills ==
    ASSUME ChunkInv, NEW n \in 0 .. MaxSize, size < n, \A i \in Index : Len(chunks[i]) = Fill(i, size), NEW i \in Index
    PROVE  Len(Padded(n)[i]) = Fill(i, n)
PROOF
  <1> DEFINE c == chunks[i]
             r == Padded(n)[i]
             last == IF size = 0 THEN -1 ELSE LastChunk(size)
             len == IF i = LastChunk(n) THEN ((n - 1) % ChunkSize) + 1 ELSE ChunkSize
  <1>1. /\ n \in Nat /\ n > 0 /\ size \in Nat /\ i \in Nat /\ Start(i) \in Nat
        /\ IsRow(c) /\ Len(c) \in Nat /\ Len(c) <= ChunkSize /\ Len(c) = Fill(i, size)
    BY Size, StartOf DEF ChunkInv, IsRow
  <1>2. r = IF i = last /\ c # <<>> THEN BF!Resize(c, Larger(len, Len(c)))
            ELSE IF i \in last + 1 .. LastChunk(n) THEN Zeros(len)
            ELSE c
    BY DEF Padded
  <1>3. /\ LastChunk(n) \in Int
        /\ i > LastChunk(n) => n <= Start(i)
        /\ i < LastChunk(n) => Start(i) + ChunkSize <= n /\ len = ChunkSize
        /\ i = LastChunk(n) => Start(i) < n /\ n <= Start(i) + ChunkSize /\ len = n - Start(i)
    <2>1. i = LastChunk(n) => len = ((n - 1) % ChunkSize) + 1
      OBVIOUS
    <2>2. i # LastChunk(n) => len = ChunkSize
      OBVIOUS
    <2>3. i = LastChunk(n) => Start(i) < n /\ n <= Start(i) + ChunkSize /\ (n - 1) % ChunkSize = n - 1 - Start(i)
      BY <1>1, LastOf
    <2>4. /\ LastChunk(n) \in Int /\ (i > LastChunk(n) => n <= Start(i))
          /\ (i < LastChunk(n) => Start(i) + ChunkSize <= n)
      BY <1>1, LastOf
    <2> HIDE DEF len
    <2> QED BY <1>1, <2>1, <2>2, <2>3, <2>4
  <1>4. /\ last \in Int
        /\ i > last => size <= Start(i)
        /\ i < last => Start(i) + ChunkSize <= size
        /\ i = last => Start(i) < size /\ size <= Start(i) + ChunkSize
    <2>1. size # 0 => /\ LastChunk(size) \in Int
                      /\ (i > LastChunk(size) => size <= Start(i))
                      /\ (i < LastChunk(size) => Start(i) + ChunkSize <= size)
                      /\ (i = LastChunk(size) => Start(i) < size /\ size <= Start(i) + ChunkSize)
      BY <1>1, LastOf
    <2> QED BY <1>1, <2>1
  <1> HIDE DEF len, last, c, r
  <1>5. (len \in Nat /\ len <= ChunkSize) \/ i > LastChunk(n)
    BY <1>1, <1>3, Size
  <1>6. CASE i = last
    <2>1. Len(c) = size - Start(i)
      BY <1>1, <1>4, <1>6, Size DEF Fill
    <2>2. c # <<>>
      BY <1>1, <1>4, <1>6, <2>1
    <2>3. r = BF!Resize(c, Larger(len, Len(c)))
      BY <1>2, <1>6, <2>2
    <2>4. i <= LastChunk(n)
      BY <1>1, <1>3, <1>4, <1>6
    <2>5. Larger(len, Len(c)) = len
      BY <1>1, <1>3, <1>5, <2>1, <2>4, Size DEF Larger
    <2>6. len \in Nat /\ len <= ChunkSize
      BY <1>1, <1>3, <1>5, <2>4
    <2>7. Len(r) = len
      BY <1>1, <2>3, <2>5, <2>6, Resized
    <2>8. Fill(i, n) = len
      BY <1>1, <1>3, <2>4, Size DEF Fill
    <2> QED BY <2>7, <2>8 DEF r
  <1>7. CASE i # last /\ i \in last + 1 .. LastChunk(n)
    <2>1. r = Zeros(len) /\ i <= LastChunk(n)
      BY <1>2, <1>7
    <2>2. len \in Nat /\ len <= ChunkSize
      BY <1>1, <1>3, <1>5, <2>1
    <2>3. Len(r) = len
      BY <2>1, <2>2, ZeroRow
    <2>4. Fill(i, n) = len
      BY <1>1, <1>3, <2>1, Size DEF Fill
    <2> QED BY <2>3, <2>4 DEF r
  <1>8. CASE i # last /\ i \notin last + 1 .. LastChunk(n)
    <2>1. r = c
      BY <1>2, <1>8
    <2>2. i < last \/ (i > LastChunk(n) /\ i > last)
      <3>1. i \in Int /\ last \in Int /\ LastChunk(n) \in Int
        BY <1>1, <1>3, <1>4
      <3>2. ~(last + 1 <= i /\ i <= LastChunk(n))
        BY <1>8, <3>1
      <3>3. i # last
        BY <1>8
      <3> QED BY <3>1, <3>2, <3>3
    <2>3. Fill(i, size) = Fill(i, n)
      BY <1>1, <1>3, <1>4, <2>2, Size DEF Fill
    <2> QED BY <1>1, <2>1, <2>3 DEF r
  <1> QED BY <1>6, <1>7, <1>8

LEMMA DenseStep == DenseInv /\ [Next]_vars => DenseInv'
PROOF
  <1> SUFFICES ASSUME DenseInv, [Next]_vars PROVE DenseInv'
    OBVIOUS
  <1>0. ChunkInv /\ ChunkInv' /\ holes \in BOOLEAN /\ Dense /\ size \in Nat /\ 0 .. MaxSize \subseteq Nat
    BY ChunkStep, Size DEF DenseInv, ChunkInv
  <1>1. ASSUME NEW off \in 0 .. MaxSize, NEW w \in Payloads, HandlePwrite(off, w)
        PROVE  holes' \in BOOLEAN /\ Dense'
    <2>1. off \in Nat /\ w \in Seq(Bytes) /\ w # <<>>
      BY <1>0, <1>1, ChunkAssumption DEF HandlePwrite
    <2>2. size' = Larger(size, off + Len(w)) /\ holes' = (holes \/ off > size)
      BY <1>1 DEF HandlePwrite
    <2>3. ASSUME ~holes', NEW i \in Index PROVE Len(chunks'[i]) = Fill(i, size')
      <3>1. chunks'[i] = IF i \in Touched(off, off + Len(w)) THEN HandleChunk(i, off, w) ELSE chunks[i]
        BY <1>1 DEF HandlePwrite
      <3>a. ~holes /\ ~(off > size)
        BY <2>2, <2>3, Zenon
      <3>2. Len(chunks[i]) = Fill(i, size) /\ off <= size
        BY <1>0, <2>1, <3>a DEF Dense
      <3>3. CASE i \in Touched(off, off + Len(w))
        BY <1>0, <2>1, <2>2, <3>1, <3>2, <3>3, HandleFills
      <3>4. CASE i \notin Touched(off, off + Len(w))
        BY <1>0, <2>1, <2>2, <3>1, <3>2, <3>4, UntouchedFills
      <3> QED BY <3>3, <3>4
    <2> QED BY <2>2, <2>3 DEF Dense, Fill
  <1>2. ASSUME NEW off \in 0 .. MaxSize, NEW w \in Payloads, PathPwrite(off, w)
        PROVE  holes' \in BOOLEAN /\ Dense'
    <2>1. off \in Nat /\ w \in Seq(Bytes)
      BY <1>0, ChunkAssumption
    <2>2. holes' = (holes \/ (off > size /\ (w # <<>> \/ ~exists)))
      BY <1>2 DEF PathPwrite
    <2>3. ASSUME ~holes', NEW i \in Index PROVE Len(chunks'[i]) = Fill(i, size')
      <3>1. Len(chunks[i]) = Fill(i, size)
        BY <1>0, <2>2, <2>3 DEF Dense
      <3>2. CASE w # <<>>
        <4>1. /\ size' = Larger(size, off + Len(w))
              /\ chunks'[i] = IF i \in Touched(off, off + Len(w)) THEN PathChunk(i, off, w) ELSE chunks[i]
          BY <1>2, <3>2 DEF PathPwrite
        <4>a. ~(off > size)
          BY <2>2, <2>3, <3>2, Zenon
        <4>2. off <= size
          BY <1>0, <2>1, <4>a
        <4>3. CASE i \in Touched(off, off + Len(w))
          BY <1>0, <2>1, <3>2, <4>1, <4>3, PathFills
        <4>4. CASE i \notin Touched(off, off + Len(w))
          BY <1>0, <2>1, <3>1, <3>2, <4>1, <4>2, <4>4, UntouchedFills
        <4> QED BY <4>3, <4>4
      <3>3. CASE w = <<>>
        <4>1. chunks' = chunks /\ size' = IF exists THEN size ELSE off
          BY <1>2, <3>3 DEF PathPwrite
        <4>a. ~exists => ~(off > size)
          BY <2>2, <2>3, Zenon
        <4>2. ~exists => size = 0 /\ off = size
          BY <1>0, <2>1, <4>a DEF ChunkInv
        <4>3. size' = size
          BY <4>1, <4>2
        <4> QED BY <3>1, <4>1, <4>3
      <3> QED BY <3>2, <3>3
    <2> QED BY <2>2, <2>3 DEF Dense, Fill
  <1>3. ASSUME NEW n \in 0 .. MaxSize, HandleTruncate(n) \/ PathTruncate(n)
        PROVE  holes' \in BOOLEAN /\ Dense'
    <2>1. n \in Nat /\ size' = n /\ holes' \in BOOLEAN
      BY <1>0, <1>3 DEF HandleTruncate, PathTruncate
    <2>2. ASSUME ~holes', NEW i \in Index PROVE Len(chunks'[i]) = Fill(i, n)
      <3>1. n # 0 => \A j \in Index : Len(chunks[j]) = Fill(j, size)
        BY <1>0, <1>3, <2>2 DEF HandleTruncate, PathTruncate, Dense
      <3>2. CASE n = 0 \/ n < size
        <4>1. chunks' = Shrunk(n)
          BY <1>3, <3>2 DEF HandleTruncate, PathTruncate
        <4>2. Len(Shrunk(n)[i]) = Fill(i, n)
          <5>1. n = 0 \/ (n < size /\ \A j \in Index : Len(chunks[j]) = Fill(j, size))
            BY <3>1, <3>2, Zenon
          <5> QED BY <1>0, <5>1, ShrunkFills
        <4> QED BY <4>1, <4>2
      <3>3. CASE n # 0 /\ n = size
        <4>1. chunks' = chunks
          BY <1>0, <1>3, <2>1, <3>3 DEF HandleTruncate, PathTruncate
        <4> QED BY <3>1, <3>3, <4>1
      <3>4. CASE n # 0 /\ n > size
        <4>1. chunks' = Padded(n)
          BY <1>0, <1>3, <2>1, <2>2, <3>4 DEF HandleTruncate, PathTruncate
        <4>2. size < n
          BY <1>0, <2>1, <3>4
        <4>3. Len(Padded(n)[i]) = Fill(i, n)
          BY <1>0, <3>1, <3>4, <4>2, PaddedFills
        <4> QED BY <4>1, <4>3
      <3> QED BY <1>0, <2>1, <3>2, <3>3, <3>4
    <2> QED BY <2>1, <2>2 DEF Dense, Fill
  <1>4. CASE UNCHANGED vars
    <2>1. holes' = holes /\ chunks' = chunks /\ size' = size
      BY <1>4 DEF vars
    <2>2. ~holes' => \A i \in Index : Len(chunks'[i]) = Fill(i, size')
      BY <1>0, <2>1 DEF Dense
    <2> QED BY <1>0, <2>1, <2>2 DEF DenseInv, Dense, Fill
  <1> QED BY <1>0, <1>1, <1>2, <1>3, <1>4 DEF Next, DenseInv

LEMMA DenseInvariant == Spec => []DenseInv
PROOF
  <1>1. Init => DenseInv
    <2> SUFFICES ASSUME Init PROVE DenseInv
      OBVIOUS
    <2>1. \A i \in Index : chunks[i] = <<>> /\ Start(i) \in Nat
      BY StartOf DEF Init
    <2>2. \A i \in Index : Len(chunks[i]) = Fill(i, size)
      BY <2>1 DEF Init, Fill
    <2> QED BY <2>2, ChunkInit DEF DenseInv, Dense, Init
  <1> QED BY <1>1, DenseStep, PTL DEF Spec

\* A row of a dense file, and where there is none.
LEMMA DenseRow ==
    ASSUME ChunkInv, \A i \in Index : Len(chunks[i]) = Fill(i, size), NEW i \in Index
    PROVE  /\ chunks[i] \in Seq(Bytes) /\ Len(chunks[i]) \in Nat /\ Len(chunks[i]) <= ChunkSize
           /\ i \in Nat /\ Start(i) \in Nat /\ Start(i + 1) = Start(i) + ChunkSize
           /\ chunks[i] = <<>> => size <= Start(i)
           /\ Len(chunks[i]) > 0 => Start(i) < size
           /\ size <= Start(i) => Len(chunks[i]) = 0
           /\ Start(i) < size => Len(chunks[i]) = Smaller(size - Start(i), ChunkSize)
           /\ \A j \in 1 .. Len(chunks[i]) : chunks[i][j] = ByteAt(Start(i) + j - 1)
PROOF
  <1> DEFINE c == chunks[i]
             s == Start(i)
             len == Len(c)
  <1>1. c \in Seq(Bytes) /\ len \in Nat /\ len <= ChunkSize /\ size \in Nat /\ len = Fill(i, size)
    BY Size DEF ChunkInv, IsRow
  <1>2. i \in Nat /\ s \in Nat
    BY StartOf
  <1>3. Start(i + 1) = s + ChunkSize
    BY <1>2, Starts
  <1>4. c = <<>> => len = 0
    OBVIOUS
  <1>5. ASSUME NEW j \in 1 .. len PROVE c[j] = ByteAt(s + j - 1)
    <2>1. j \in Places /\ j <= len
      BY <1>1, Size DEF Places
    <2>2. ByteAt(s + j - 1) = Byte(c, j)
      BY <2>1, InRow
    <2> QED BY <2>1, <2>2 DEF Byte
  <1>6. len = IF size <= s THEN 0 ELSE IF size >= s + ChunkSize THEN ChunkSize ELSE size - s
    BY <1>1 DEF Fill
  <1> HIDE DEF c, s, len
  <1>7. /\ len = 0 => size <= s
        /\ len > 0 => s < size
        /\ size <= s => len = 0
        /\ s < size => len = Smaller(size - s, ChunkSize)
    BY <1>1, <1>2, <1>6, Size DEF Smaller
  <1> QED BY <1>1, <1>2, <1>3, <1>4, <1>5, <1>7 DEF c, s, len

\* The chunks up to the largest file.
LEMMA LastIndex ==
    /\ Max(Index) = MaxSize \div ChunkSize /\ Max(Index) \in Nat
    /\ Start(Max(Index) + 1) \in Nat /\ MaxSize < Start(Max(Index) + 1)
    /\ \A k \in Int : 0 <= k /\ k <= Max(Index) => k \in Index
    /\ \A k \in Nat : k \notin Index => Start(k) \in Nat /\ MaxSize < Start(k)
PROOF
  <1> DEFINE m == MaxSize \div ChunkSize
  <1>1. m \in Int /\ MaxSize = Start(m) + (MaxSize % ChunkSize) /\ MaxSize % ChunkSize \in Int /\ MaxSize % ChunkSize < ChunkSize
    BY Division, Size
  <1>2. m \in Index /\ Index = 0 .. m
    BY Indices, Size DEF Index
  <1> HIDE DEF m
  <1>3. m \in Nat /\ \A y \in Index : m >= y
    BY <1>1, <1>2
  <1>4. Max(Index) = m
    <2> DEFINE x == Max(Index)
    <2>1. x \in Index /\ \A y \in Index : x >= y
      BY <1>2, <1>3 DEF Max
    <2> HIDE DEF x
    <2>2. x \in Nat /\ x >= m /\ m >= x
      BY <1>2, <1>3, <2>1
    <2>3. x = m
      BY <1>3, <2>2
    <2> QED BY <2>3 DEF x
  <1>5. Start(m) \in Nat /\ Start(m + 1) = Start(m) + ChunkSize
    BY <1>3, Starts
  <1>6. Start(m + 1) \in Nat /\ MaxSize < Start(m + 1)
    BY <1>1, <1>5, Size
  <1>7. ASSUME NEW k \in Nat, k \notin Index PROVE Start(k) \in Nat /\ MaxSize < Start(k)
    <2>1. m < k
      BY <1>2, <1>3, <1>7
    <2>2. Start(k) \in Nat /\ Start(m) + ChunkSize <= Start(k)
      BY <1>3, <2>1, Starts
    <2> QED BY <1>1, <1>5, <2>2, Size
  <1> QED BY <1>2, <1>3, <1>4, <1>6, <1>7 DEF m

\* Rows up to chunk k of a dense file are its first bytes.
LEMMA FileRowsRead ==
    ASSUME ChunkInv, \A i \in Index : Len(chunks[i]) = Fill(i, size), NEW last \in Int, last = Max(Index),
           NEW g, g = AllRows(g, "file", <<>>, 0, last, 0, 0)
    PROVE  Holds(g[last], 0) /\ Len(g[last]) = size
PROOF
  <1>0. /\ \A k \in 0 - 1 .. last : g[k] = IF k < 0 THEN <<>> ELSE g[k - 1] \o chunks[k]
        /\ last \in Nat
    <2>1. \A k \in 0 - 1 .. last : AllRows(g, "file", <<>>, 0, last, 0, 0)[k] =
             IF k < 0 THEN <<>> ELSE g[k - 1] \o chunks[k]
      BY DEF AllRows, OneRow
    <2> QED BY <2>1, LastIndex
  <1>1. size \in Nat /\ size <= MaxSize
    BY Size DEF ChunkInv
  <1> DEFINE S == {m \in Nat : m - 1 <= last => Holds(g[m - 1], 0) /\ Len(g[m - 1]) = Smaller(Start(m), size)}
  <1>2. 0 \in S
    <2>1. 0 - 1 \in 0 - 1 .. last /\ 0 - 1 < 0
      BY <1>0
    <2>2. g[0 - 1] = <<>>
      BY <1>0, <2>1
    <2>3. Holds(<<>>, 0) /\ Len(<<>>) = 0
      BY DEF Holds
    <2>4. Smaller(Start(0), size) = 0
      BY <1>1, Starts DEF Smaller
    <2> QED BY <2>2, <2>3, <2>4
  <1>3. ASSUME NEW m \in Nat, m \in S PROVE m + 1 \in S
    <2> SUFFICES ASSUME m <= last PROVE Holds(g[m], 0) /\ Len(g[m]) = Smaller(Start(m + 1), size)
      <3>1. (m + 1) - 1 = m
        OBVIOUS
      <3> QED BY <3>1
    <2> DEFINE out == g[m - 1]
               c == chunks[m]
    <2>1. Holds(out, 0) /\ Len(out) = Smaller(Start(m), size)
      BY <1>3
    <2>2. g[m] = out \o c
      <3>1. m \in 0 - 1 .. last /\ ~(m < 0)
        BY <1>0
      <3>2. g[m] = IF m < 0 THEN <<>> ELSE g[m - 1] \o chunks[m]
        BY <1>0, <3>1
      <3> QED BY <3>1, <3>2
    <2>3. m \in Index
      BY LastIndex
    <2>4. /\ c \in Seq(Bytes) /\ Len(c) \in Nat
          /\ Start(m) \in Nat /\ Start(m + 1) = Start(m) + ChunkSize
          /\ size <= Start(m) => Len(c) = 0
          /\ Start(m) < size => Len(c) = Smaller(size - Start(m), ChunkSize)
          /\ Len(c) > 0 => Start(m) < size
          /\ \A j \in 1 .. Len(c) : c[j] = ByteAt(Start(m) + j - 1)
      BY <2>3, DenseRow
    <2> HIDE DEF out, c, S
    <2>5. ASSUME NEW j \in 1 .. Len(c) PROVE c[j] = ByteAt(0 + Len(out) + j - 1)
      <3>1. Len(c) > 0
        BY <2>4
      <3>2. Len(out) = Start(m)
        BY <1>1, <2>1, <2>4, <3>1 DEF Smaller
      <3>3. 0 + Len(out) + j - 1 = Start(m) + j - 1
        BY <2>4, <3>2
      <3> QED BY <2>4, <3>3
    <2>6. Holds(out \o c, 0) /\ Len(out \o c) = Len(out) + Len(c)
      <3>1. 0 \in Nat /\ c \in Seq(Bytes)
        BY <2>4
      <3> QED BY <2>1, <2>5, <3>1, HoldsMore
    <2>7. Len(out) + Len(c) = Smaller(Start(m + 1), size)
      <3> DEFINE a == Len(out)
                 b == Len(c)
      <3>1. a = Smaller(Start(m), size)
        BY <2>1
      <3> HIDE DEF a, b
      <3>2. CASE size <= Start(m)
        <4>1. b = 0
          BY <2>4, <3>2 DEF b
        <4>2. a + b = Smaller(Start(m + 1), size)
          BY <1>1, <2>4, <3>1, <3>2, <4>1, Size DEF Smaller
        <4> QED BY <4>2 DEF a, b
      <3>3. CASE Start(m) < size
        <4>1. b = Smaller(size - Start(m), ChunkSize)
          BY <2>4, <3>3 DEF b
        <4>a. Start(m) \in Nat /\ Start(m + 1) = Start(m) + ChunkSize /\ size \in Nat
          BY <1>1, <2>4
        <4>2. a + b = Smaller(Start(m + 1), size)
          BY <3>1, <3>3, <4>1, <4>a, Size DEF Smaller
        <4> QED BY <4>2 DEF a, b
      <3> QED BY <1>1, <2>4, <3>2, <3>3
    <2> QED BY <2>2, <2>6, <2>7
  <1>4. last + 1 \in S
    <2>1. last + 1 \in Nat
      BY <1>0
    <2> HIDE DEF S
    <2> QED BY <1>2, <1>3, <2>1, SetInduction
  <1>5. Holds(g[last], 0) /\ Len(g[last]) = Smaller(Start(last + 1), size)
    <2>1. (last + 1) - 1 = last
      OBVIOUS
    <2> QED BY <1>4, <2>1
  <1>6. Smaller(Start(last + 1), size) = size
    BY <1>1, LastIndex, Size DEF Smaller
  <1> QED BY <1>5, <1>6

LEMMA ReadFileReads ==
    ASSUME ChunkInv, \A i \in Index : Len(chunks[i]) = Fill(i, size)
    PROVE  ReadFile = Contents
PROOF
  <1> DEFINE last == Max(Index)
             g == CHOOSE f : f = AllRows(f, "file", <<>>, 0, last, 0, 0)
  <1>0. 0 - 1 = -1 /\ last \in Int /\ last = Max(Index) /\ 0 - 1 <= last
    BY LastIndex
  <1>1. ReadFile = g[last]
    <2>1. \A f : AllRows(f, "file", <<>>, 0, last, 0, 0) =
                   [k \in -1 .. last |-> IF k < 0 THEN <<>> ELSE f[k - 1] \o chunks[k]]
      BY <1>0 DEF AllRows, OneRow
    <2> QED BY <2>1 DEF ReadFile
  <1>2. g = AllRows(g, "file", <<>>, 0, last, 0, 0)
    <2> DEFINE how == "file"
               start == <<>>
    <2> HIDE DEF g, how, start, last
    <2>1. HaveRows(how, start, 0, last, 0, 0)
      BY <1>0, RowsExist
    <2> QED BY <2>1 DEF HaveRows, g, how, start
  <1> HIDE DEF g, last
  <1>3. Holds(g[last], 0) /\ Len(g[last]) = size
    BY <1>0, <1>2, FileRowsRead
  <1> DEFINE out == g[last]
  <1>4. out \in Seq(Bytes) /\ Len(out) = size /\ \A j \in 1 .. size : out[j] = ByteAt(0 + j - 1)
    BY <1>3 DEF Holds
  <1> HIDE DEF out
  <1>5. out = [j \in 1 .. size |-> out[j]]
    BY <1>4
  <1>6. \A j \in 1 .. size : out[j] = ByteAt(j - 1)
    <2>1. size \in Nat
      BY Size DEF ChunkInv
    <2>2. \A j \in 1 .. size : 0 + j - 1 = j - 1
      BY <2>1
    <2> QED BY <1>4, <2>2
  <1>7. out = Contents
    BY <1>5, <1>6 DEF Contents
  <1> QED BY <1>1, <1>7 DEF out

\* How much of n bytes at off has been read with the rows up to chunk k.
Got(k, first, off, n) ==
    IF k < first \/ off >= size THEN 0 ELSE Smaller(Smaller(Start(k + 1), size) - off, n)

\* One row of AgentFS::pread: skip is right as the rows before it, being full,
\* have yielded bytes.
LEMMA PathRowTaken ==
    ASSUME ChunkInv, \A i \in Index : Len(chunks[i]) = Fill(i, size),
           NEW off \in Nat, NEW n \in Nat, n > 0, NEW first \in Int, NEW last \in Int,
           Start(first) <= off, off < Start(first) + ChunkSize, Start(last) < off + n,
           NEW k \in Nat, first <= k, k <= last,
           NEW out, Holds(out, off), Len(out) = Got(k - 1, first, off, n)
    PROVE  /\ Holds(PathRow(out, k, first, last, off % ChunkSize, n), off)
           /\ Len(PathRow(out, k, first, last, off % ChunkSize, n)) = Got(k, first, off, n)
PROOF
  <1>0. size \in Nat /\ size <= MaxSize
    BY Size DEF ChunkInv
  <1>1. /\ Start(k) \in Nat /\ Start(k + 1) = Start(k) + ChunkSize /\ Start(first) \in Int /\ Start(last) \in Int
        /\ first < k => Start(first) + ChunkSize <= Start(k)
        /\ k < last => Start(k) + ChunkSize <= Start(last)
    BY Starts
  <1>2. (k - 1) + 1 = k /\ k >= first /\ ~(k < first) /\ (k - 1 < first <=> k = first)
    OBVIOUS
  <1>3. Got(k, first, off, n) = IF off >= size THEN 0 ELSE Smaller(Smaller(Start(k) + ChunkSize, size) - off, n)
    BY <1>1, <1>2 DEF Got
  <1>4. Got(k - 1, first, off, n) = IF k = first \/ off >= size THEN 0 ELSE Smaller(Smaller(Start(k), size) - off, n)
    BY <1>2 DEF Got
  <1>4a. Start(k) < off + n
    <2>1. CASE k = last
      BY <2>1
    <2>2. CASE k # last
      BY <1>1, <2>2, Size
    <2> QED BY <2>1, <2>2
  <1> DEFINE c == chunks[k]
             G == Got(k, first, off, n)
             L == Len(out)
             s == Start(k)
             R == PathRow(out, k, first, last, off % ChunkSize, n)
  <1>5. CASE k \notin Rows(first, last)
    <2>1. R = out
      BY <1>5 DEF PathRow
    <2>2. size <= Start(k)
      <3>1. CASE k \in Index
        <4>1. c = <<>>
          BY <1>5, <3>1 DEF Rows
        <4> QED BY <3>1, <4>1, DenseRow
      <3>2. CASE k \notin Index
        <4>1. Start(k) \in Nat /\ MaxSize < Start(k)
          BY <3>2, LastIndex
        <4> QED BY <1>0, <4>1, Size
      <3> QED BY <3>1, <3>2
    <2>3. L = (IF k = first \/ off >= size THEN 0 ELSE Smaller(Smaller(s, size) - off, n))
          /\ G = (IF off >= size THEN 0 ELSE Smaller(Smaller(s + ChunkSize, size) - off, n))
      BY <1>3, <1>4
    <2>4. s \in Nat /\ size <= s /\ (k = first => s <= off)
      BY <1>1, <2>2
    <2> HIDE DEF c, G, L, s, R
    <2>5. L = G
      BY <1>0, <2>3, <2>4, Size DEF Smaller
    <2> QED BY <2>1, <2>5 DEF G, L, R
  <1>6. CASE k \in Rows(first, last)
    <2>1. k \in Index /\ c # <<>>
      BY <1>6 DEF Rows
    <2>2. /\ c \in Seq(Bytes) /\ Len(c) \in Nat /\ Len(c) > 0
          /\ Len(c) > 0 => s < size
          /\ s < size => Len(c) = Smaller(size - s, ChunkSize)
          /\ \A j \in 1 .. Len(c) : c[j] = ByteAt(s + j - 1)
      <3>1. c \in Seq(Bytes)
        BY <2>1, DenseRow
      <3>2. Len(c) \in Nat /\ Len(c) > 0
        BY <2>1, <3>1
      <3> QED BY <2>1, <3>1, <3>2, DenseRow
    <2>3. s < size /\ Len(c) = Smaller(size - s, ChunkSize)
      BY <2>2
    <2> DEFINE skip == IF out = <<>> THEN off % ChunkSize ELSE 0
               top == Smaller(Len(c), skip + n - L)
               t == SubSeq(c, skip + 1, top)
    <2>4. R = out \o t
      BY <1>6 DEF PathRow
    <2>5. out \in Seq(Bytes) /\ L \in Nat /\ (out = <<>> <=> L = 0)
      BY DEF Holds
    <2>6. skip = IF L = 0 THEN off % ChunkSize ELSE 0
      BY <2>5
    <2>7. off % ChunkSize = off - Start(first)
      BY InChunk
    <2>8. L = (IF k = first \/ off >= size THEN 0 ELSE Smaller(Smaller(s, size) - off, n))
          /\ G = (IF off >= size THEN 0 ELSE Smaller(Smaller(s + ChunkSize, size) - off, n))
      BY <1>3, <1>4
    <2>9. s \in Nat /\ (k = first => s <= off /\ off < s + ChunkSize) /\ (k # first => off < s)
      <3>1. k # first => first < k
        BY <1>2
      <3> QED BY <1>1, <3>1, Size
    <2>10. s < off + n
      BY <1>4a
    <2> DEFINE len == Len(c)
               m == off - s
    <2>11. len = Smaller(size - s, ChunkSize) /\ len \in Nat
      BY <2>2, <2>3
    <2>12. top = Smaller(len, skip + n - L)
      OBVIOUS
    <2> HIDE DEF c, G, L, s, R, len, skip, top, t
    <2>13. CASE k = first
      <3>1. L = 0 /\ skip = off - s
        <4>1. s = Start(first)
          BY <2>13 DEF s
        <4> QED BY <2>6, <2>7, <2>8, <2>13, <4>1
      <3>2. skip \in Nat /\ skip < ChunkSize /\ off + L = s + skip
        BY <2>9, <2>13, <3>1, Size
      <3>3. CASE off >= size
        <4>1. top <= skip /\ top \in Int /\ G = 0
          BY <1>0, <2>3, <2>8, <2>9, <2>11, <2>12, <3>1, <3>2, <3>3, Size DEF Smaller
        <4>2. t = <<>>
          BY <2>2, <3>2, <4>1 DEF t
        <4>3. R = out
          BY <2>4, <2>5, <4>2
        <4> QED BY <3>1, <4>1, <4>3 DEF L, G, R
      <3>4. CASE off < size
        <4>1. top \in Int /\ top - skip \in Nat /\ top <= len /\ G = L + (top - skip)
          BY <1>0, <2>3, <2>8, <2>9, <2>11, <2>12, <2>13, <3>1, <3>2, <3>4, Size DEF Smaller
        <4> DEFINE x == top - skip
        <4>2. skip + x = top /\ x \in Nat /\ skip + x <= Len(c) /\ G = L + x
          BY <2>11, <3>2, <4>1 DEF len
        <4> HIDE DEF x
        <4>3. t = SubSeq(c, skip + 1, skip + x)
          BY <4>2 DEF t
        <4>4. t \in Seq(Bytes) /\ Len(t) = x /\ \A j \in 1 .. x : t[j] = c[skip + j]
          BY <2>2, <3>2, <4>2, <4>3, Piece
        <4>5. ASSUME NEW j \in 1 .. Len(t) PROVE t[j] = ByteAt(off + Len(out) + j - 1)
          <5>1. j \in 1 .. x /\ skip + j \in 1 .. Len(c)
            BY <2>2, <3>2, <4>2, <4>4
          <5>2. s + (skip + j) - 1 = off + L + j - 1
            BY <2>5, <2>9, <3>2, <4>2, <5>1
          <5> QED BY <2>2, <4>4, <5>1, <5>2 DEF L
        <4>6. Holds(out \o t, off) /\ Len(out \o t) = Len(out) + Len(t)
          BY <4>4, <4>5, HoldsMore
        <4> QED BY <2>4, <4>2, <4>4, <4>6 DEF L, G, R
      <3> QED BY <1>0, <3>3, <3>4
    <2>14. CASE k # first
      <3>1. off < s /\ s < size /\ L = s - off /\ L > 0
        BY <1>0, <2>3, <2>8, <2>9, <2>10, <2>14 DEF Smaller
      <3>2. skip = 0
        BY <2>6, <3>1
      <3>3. top \in Nat /\ top <= len /\ G = L + top
        BY <1>0, <2>3, <2>8, <2>9, <2>10, <2>11, <2>12, <2>14, <3>1, <3>2, Size DEF Smaller
      <3>4. t = SubSeq(c, 0 + 1, 0 + top)
        BY <3>2, <3>3 DEF t
      <3>5. t \in Seq(Bytes) /\ Len(t) = top /\ \A j \in 1 .. top : t[j] = c[0 + j]
        <4>1. 0 \in Nat /\ 0 + top <= Len(c)
          BY <2>11, <3>3 DEF len
        <4> QED BY <2>2, <3>3, <3>4, <4>1, Piece
      <3>6. ASSUME NEW j \in 1 .. Len(t) PROVE t[j] = ByteAt(off + Len(out) + j - 1)
        <4>1. j \in 1 .. top /\ j \in 1 .. Len(c) /\ 0 + j = j
          BY <2>2, <2>11, <3>3, <3>5 DEF len
        <4>2. s + j - 1 = off + L + j - 1
          BY <2>5, <2>9, <3>1, <4>1
        <4> QED BY <2>2, <3>5, <4>1, <4>2 DEF L
      <3>7. Holds(out \o t, off) /\ Len(out \o t) = Len(out) + Len(t)
        BY <3>5, <3>6, HoldsMore
      <3> QED BY <2>4, <3>3, <3>5, <3>7 DEF L, G, R
    <2> QED BY <2>13, <2>14
  <1> QED BY <1>5, <1>6

LEMMA PathRowsRead ==
    ASSUME ChunkInv, \A i \in Index : Len(chunks[i]) = Fill(i, size),
           NEW off \in Nat, NEW n \in Nat, n > 0, NEW first \in Nat, NEW last \in Int, first - 1 <= last,
           Start(first) <= off, off < Start(first) + ChunkSize, Start(last) < off + n,
           NEW g, g = AllRows(g, "path", <<>>, first, last, off % ChunkSize, n)
    PROVE  Holds(g[last], off) /\ Len(g[last]) = Got(last, first, off, n)
PROOF
  <1> DEFINE S == {m \in Nat : first - 1 + m <= last => /\ Holds(g[first - 1 + m], off)
                                                       /\ Len(g[first - 1 + m]) = Got(first - 1 + m, first, off, n)}
  <1>0. \A k \in first - 1 .. last :
           g[k] = IF k < first THEN <<>> ELSE PathRow(g[k - 1], k, first, last, off % ChunkSize, n)
    <2>1. \A k \in first - 1 .. last : AllRows(g, "path", <<>>, first, last, off % ChunkSize, n)[k] =
             IF k < first THEN <<>> ELSE PathRow(g[k - 1], k, first, last, off % ChunkSize, n)
      BY DEF AllRows, OneRow
    <2> QED BY <2>1
  <1>1. 0 \in S
    <2>1. g[first - 1] = <<>>
      BY <1>0
    <2>2. Holds(<<>>, off) /\ Len(<<>>) = 0
      BY DEF Holds
    <2>3. Got(first - 1, first, off, n) = 0
      BY DEF Got
    <2>4. first - 1 + 0 = first - 1
      OBVIOUS
    <2> QED BY <2>1, <2>2, <2>3, <2>4
  <1>2. ASSUME NEW m \in Nat, m \in S PROVE m + 1 \in S
    <2> DEFINE k == first + m
    <2> SUFFICES ASSUME k <= last PROVE Holds(g[k], off) /\ Len(g[k]) = Got(k, first, off, n)
      <3>1. first - 1 + (m + 1) = k
        OBVIOUS
      <3> QED BY <3>1
    <2>1. k \in Nat /\ first <= k /\ k - 1 = first - 1 + m /\ first - 1 + m <= last
      OBVIOUS
    <2>2. Holds(g[k - 1], off) /\ Len(g[k - 1]) = Got(k - 1, first, off, n)
      BY <1>2, <2>1
    <2>3. g[k] = PathRow(g[k - 1], k, first, last, off % ChunkSize, n)
      <3>1. k \in first - 1 .. last /\ ~(k < first)
        BY <2>1
      <3> HIDE DEF k
      <3>2. g[k] = IF k < first THEN <<>> ELSE PathRow(g[k - 1], k, first, last, off % ChunkSize, n)
        BY <1>0, <3>1
      <3> QED BY <3>1, <3>2
    <2> HIDE DEF k, S
    <2> DEFINE out == g[k - 1]
               R == PathRow(out, k, first, last, off % ChunkSize, n)
    <2>4. g[k] = R /\ Holds(out, off) /\ Len(out) = Got(k - 1, first, off, n) /\ k \in Nat /\ first <= k /\ first \in Int
      BY <2>1, <2>2, <2>3
    <2> HIDE DEF out
    <2>5. Holds(R, off) /\ Len(R) = Got(k, first, off, n)
      BY <2>4, PathRowTaken
    <2> QED BY <2>4, <2>5
  <1>3. last - (first - 1) \in Nat
    OBVIOUS
  <1>4. last - (first - 1) \in S
    <2> HIDE DEF S
    <2> QED BY <1>1, <1>2, <1>3, SetInduction
  <1>5. first - 1 + (last - (first - 1)) = last
    OBVIOUS
  <1> QED BY <1>4, <1>5

\* A read of nothing finds nothing in any row.
LEMMA NothingRead ==
    ASSUME ChunkInv, NEW off \in Nat, NEW first \in Int, NEW last \in Int, first - 1 <= last,
           NEW g, g = AllRows(g, "path", <<>>, first, last, off % ChunkSize, 0)
    PROVE  g[last] = <<>>
PROOF
  <1> DEFINE S == {m \in Nat : first - 1 + m <= last => g[first - 1 + m] = <<>>}
  <1>0. \A k \in first - 1 .. last :
           g[k] = IF k < first THEN <<>> ELSE PathRow(g[k - 1], k, first, last, off % ChunkSize, 0)
    <2>1. \A k \in first - 1 .. last : AllRows(g, "path", <<>>, first, last, off % ChunkSize, 0)[k] =
             IF k < first THEN <<>> ELSE PathRow(g[k - 1], k, first, last, off % ChunkSize, 0)
      BY DEF AllRows, OneRow
    <2> QED BY <2>1
  <1>1. 0 \in S
    <2>1. first - 1 + 0 \in first - 1 .. last /\ first - 1 + 0 < first
      OBVIOUS
    <2> QED BY <1>0, <2>1
  <1>2. ASSUME NEW k, PathRow(<<>>, k, first, last, off % ChunkSize, 0) # <<>> PROVE FALSE
    <2> DEFINE c == chunks[k]
               skip == off % ChunkSize
               top == Smaller(Len(c), skip + 0 - 0)
    <2>1. k \in Index /\ PathRow(<<>>, k, first, last, skip, 0) = <<>> \o SubSeq(c, skip + 1, top)
      BY <1>2 DEF PathRow, Rows
    <2>2. c \in Seq(Bytes) /\ Len(c) \in Nat /\ skip \in Nat
      BY <2>1, Division DEF ChunkInv, IsRow
    <2>3. top <= skip /\ top \in Int
      BY <2>2 DEF Smaller
    <2> HIDE DEF c, skip, top
    <2>4. SubSeq(c, skip + 1, top) = <<>>
      BY <2>2, <2>3
    <2>5. <<>> \o SubSeq(c, skip + 1, top) = <<>>
      BY <2>4
    <2> QED BY <1>2, <2>1, <2>5 DEF skip
  <1>3. ASSUME NEW m \in Nat, m \in S PROVE m + 1 \in S
    <2> DEFINE k == first + m
    <2> SUFFICES ASSUME k <= last PROVE g[k] = <<>>
      <3>1. first - 1 + (m + 1) = k
        OBVIOUS
      <3> QED BY <3>1
    <2>1. k \in first - 1 .. last /\ ~(k < first) /\ k - 1 = first - 1 + m /\ first - 1 + m <= last
      OBVIOUS
    <2>2. g[k - 1] = <<>>
      BY <1>3, <2>1
    <2> HIDE DEF k, S
    <2>3. g[k] = PathRow(g[k - 1], k, first, last, off % ChunkSize, 0)
      BY <1>0, <2>1
    <2> QED BY <1>2, <2>2, <2>3
  <1>4. last - (first - 1) \in Nat
    OBVIOUS
  <1>5. last - (first - 1) \in S
    <2> HIDE DEF S
    <2> QED BY <1>1, <1>3, <1>4, SetInduction
  <1>6. first - 1 + (last - (first - 1)) = last
    OBVIOUS
  <1> QED BY <1>5, <1>6

LEMMA PathPreadReads ==
    ASSUME ChunkInv, \A i \in Index : Len(chunks[i]) = Fill(i, size), NEW off \in Nat, NEW n \in Nat
    PROVE  PathPread(off, n) = BF!ReadAt(Contents, off, n)
PROOF
  <1>0. size \in Nat /\ size <= MaxSize
    BY Size DEF ChunkInv
  <1> DEFINE first == off \div ChunkSize
             last == Larger(off + n - 1, 0) \div ChunkSize
             g == CHOOSE f : f = AllRows(f, "path", <<>>, first, last, off % ChunkSize, n)
  <1>1. PathPread(off, n) = g[last]
    BY DEF PathPread, AllRows, OneRow, PathRow
  <1>2. first = off \div ChunkSize /\ last = Larger(off + n - 1, 0) \div ChunkSize
    OBVIOUS
  <1> HIDE DEF first, last
  <1>3. /\ first \in Int /\ last \in Int /\ first - 1 <= last
        /\ Start(first) <= off /\ off < Start(first) + ChunkSize
        /\ Start(last + 1) \in Int
        /\ n > 0 => off + n - 1 < Start(last + 1)
    BY <1>2, LastRow
  <1>4. g = AllRows(g, "path", <<>>, first, last, off % ChunkSize, n)
    <2> DEFINE how == "path"
               start == <<>>
               skip == off % ChunkSize
    <2>1. first \in Int /\ last \in Int /\ first - 1 <= last
      BY <1>3
    <2> HIDE DEF g, how, start, skip
    <2>2. HaveRows(how, start, first, last, skip, n)
      BY <2>1, RowsExist
    <2> QED BY <2>2 DEF HaveRows, g, how, start, skip
  <1> HIDE DEF g
  <1> DEFINE want == Smaller(n, size - off)
  <1>5. off < size => /\ want \in Nat
                      /\ BF!ReadAt(Contents, off, n) = [j \in 1 .. want |-> ByteAt(off + j - 1)]
    <2>1. ASSUME off < size
          PROVE  want \in Nat /\ BF!ReadAt(Contents, off, n) = [j \in 1 .. want |-> ByteAt(off + j - 1)]
      <3>1. want = Smaller(n, size - off)
        OBVIOUS
      <3> HIDE DEF want
      <3> QED BY <2>1, <3>1, ContentRead
    <2> QED BY <2>1
  <1>6. off >= size => BF!ReadAt(Contents, off, n) = <<>>
    BY PastEnd
  <1>7. CASE n = 0
    <2>1. g[last] = <<>>
      <3>1. g = AllRows(g, "path", <<>>, first, last, off % ChunkSize, 0)
        BY <1>4, <1>7
      <3> QED BY <1>3, <3>1, NothingRead
    <2>2. BF!ReadAt(Contents, off, n) = <<>>
      <3>1. CASE off < size
        <4>1. want = 0
          BY <1>0, <1>7, <3>1 DEF Smaller
        <4>2. BF!ReadAt(Contents, off, n) = [j \in 1 .. 0 |-> ByteAt(off + j - 1)]
          BY <1>5, <3>1, <4>1
        <4> DEFINE e == [j \in 1 .. 0 |-> ByteAt(off + j - 1)]
        <4>3. e \in Seq({}) /\ Len(e) = 0
          BY SeqOf
        <4>4. e = <<>>
          <5> HIDE DEF e
          <5> QED BY <4>3
        <4> QED BY <4>2, <4>4
      <3> QED BY <1>0, <1>6, <3>1
    <2> QED BY <1>1, <2>1, <2>2
  <1>8. CASE n > 0
    <2>1. first \in Nat /\ Start(last) < off + n
      <3> DEFINE q == Larger(off + n - 1, 0)
      <3>1. q \in Nat /\ q = off + n - 1
        BY <1>8 DEF Larger
      <3> HIDE DEF q
      <3>2. q = Start(last) + (q % ChunkSize) /\ 0 <= q % ChunkSize /\ q % ChunkSize \in Int
        BY <1>2, <3>1, Division DEF q
      <3>3. Start(last) \in Int
        BY <1>3, Starts
      <3>4. Start(last) < off + n
        BY <3>1, <3>2, <3>3
      <3>5. first >= 0
        <4>1. Start(first) \in Int /\ Start(0) = 0 /\ (first < 0 => Start(first) + ChunkSize <= Start(0))
          BY <1>3, Starts
        <4> QED BY <1>3, <4>1, Size
      <3> QED BY <1>3, <3>4, <3>5
    <2>2. Holds(g[last], off) /\ Len(g[last]) = Got(last, first, off, n)
      BY <1>3, <1>4, <1>8, <2>1, PathRowsRead
    <2>3. first <= last
      <3>1. last < first => Start(last + 1) <= Start(first)
        <4>1. last + 1 < first => Start(last + 1) + ChunkSize <= Start(first)
          BY <1>3, Starts
        <4>2. last + 1 = first \/ ~(last < first) \/ last + 1 < first
          BY <1>3
        <4>3. Start(first) \in Int
          BY <1>3, Starts
        <4> QED BY <1>3, <4>1, <4>2, <4>3, Size
      <3>2. Start(first) \in Int
        BY <1>3, Starts
      <3> QED BY <1>3, <1>8, <3>1, <3>2
    <2> DEFINE out == g[last]
               L == Got(last, first, off, n)
               E == Start(last + 1)
    <2>4. L = IF off >= size THEN 0 ELSE Smaller(Smaller(E, size) - off, n)
      BY <1>3, <2>3 DEF Got
    <2>5. E \in Int /\ off + n - 1 < E
      BY <1>3, <1>8
    <2>6. out \in Seq(Bytes) /\ Len(out) = L /\ \A j \in 1 .. L : out[j] = ByteAt(off + j - 1)
      BY <2>2 DEF Holds
    <2> HIDE DEF out, L, E
    <2>7. CASE off >= size
      <3>1. out = <<>>
        BY <2>4, <2>6, <2>7
      <3> QED BY <1>1, <1>6, <2>7, <3>1 DEF out
    <2>8. CASE off < size
      <3>1. L = want
        BY <1>0, <2>4, <2>5, <2>8 DEF Smaller
      <3>2. out = [j \in 1 .. L |-> out[j]]
        BY <2>6
      <3>3. out = [j \in 1 .. want |-> ByteAt(off + j - 1)]
        BY <2>6, <3>1, <3>2
      <3> QED BY <1>1, <1>5, <2>8, <3>3 DEF out
    <2> QED BY <1>0, <2>7, <2>8
  <1> QED BY <1>7, <1>8

\* As long as nothing skipped bytes, reading by path gives the content, though
\* it looks at neither the size nor the chunk numbers: every row of the file is
\* there and as long as the file is in it, so rows laid end to end are the file
\* and the first row read is the one with bytes to skip (agentfs.rs:
\* AgentFS::pread, read_file).
THEOREM PathReads == Spec => []PathReadsDenseContent
PROOF
  <1>1. DenseInv => PathReadsDenseContent
    <2> SUFFICES ASSUME DenseInv, ~holes PROVE ReadFile = Contents /\ \A off, n \in 0 .. MaxSize + 1 : PathPread(off, n) = BF!ReadAt(Contents, off, n)
      BY DEF PathReadsDenseContent
    <2>1. ChunkInv /\ \A i \in Index : Len(chunks[i]) = Fill(i, size)
      BY DEF DenseInv, Dense
    <2>2. ASSUME NEW off \in 0 .. MaxSize + 1, NEW n \in 0 .. MaxSize + 1
          PROVE  PathPread(off, n) = BF!ReadAt(Contents, off, n)
      <3>1. off \in Nat /\ n \in Nat
        BY Size
      <3> QED BY <2>1, <3>1, PathPreadReads
    <2> QED BY <2>1, <2>2, ReadFileReads
  <1> QED BY <1>1, DenseInvariant, PTL
================================================================================
