------------------------------- MODULE NfsProofs -------------------------------
(***************************************************************************)
(* Proofs about the NFS server, for any number of clients, calls, copies   *)
(* of calls, connections and restarts.                                     *)
(***************************************************************************)
EXTENDS NfsServer, FiniteSetTheorems, SequenceTheorems, TLAPS

(***************************************************************************)
(* The adapter's operations on the file system (nfs.rs).                   *)
(***************************************************************************)
\* FsOK, part by part.
LEMMA FsParts ==
    ASSUME NEW f
    PROVE  FsOK(f) <=>
           /\ f \in [dentry : {f.dentry}, attr : {f.attr}, next : {f.next}]
           /\ f.dentry = [s \in DOMAIN f.dentry |-> f.dentry[s]]
           /\ f.attr = [i \in DOMAIN f.attr |-> f.attr[i]]
           /\ f.next \in Nat \ {0} /\ f.next <= MaxId + 1
           /\ \A s \in DOMAIN f.dentry : s \in Ids \X Names /\ f.dentry[s] \in DOMAIN f.attr
           /\ IsFiniteSet(DOMAIN f.dentry)
           /\ \A i \in DOMAIN f.attr : i \in Nat \ {0} /\ i < f.next
PROOF
  <1> USE NameAssumption
  <1>1. ASSUME FsOK(f) PROVE f.next \in Nat \ {0} /\ f.next <= MaxId + 1 /\ \A i \in DOMAIN f.attr : i \in Nat \ {0} /\ i < f.next
    BY <1>1 DEF FsOK
  <1>2. ASSUME FsOK(f)
        PROVE  /\ f \in [dentry : {f.dentry}, attr : {f.attr}, next : {f.next}]
               /\ f.dentry = [s \in DOMAIN f.dentry |-> f.dentry[s]]
               /\ f.attr = [i \in DOMAIN f.attr |-> f.attr[i]]
               /\ \A s \in DOMAIN f.dentry : s \in Ids \X Names /\ f.dentry[s] \in DOMAIN f.attr
    BY <1>2 DEF FsOK
  <1>3. ASSUME f \in [dentry : {f.dentry}, attr : {f.attr}, next : {f.next}],
               f.dentry = [s \in DOMAIN f.dentry |-> f.dentry[s]],
               f.attr = [i \in DOMAIN f.attr |-> f.attr[i]],
               f.next \in Nat \ {0}, f.next <= MaxId + 1,
               \A s \in DOMAIN f.dentry : s \in Ids \X Names /\ f.dentry[s] \in DOMAIN f.attr,
               IsFiniteSet(DOMAIN f.dentry),
               \A i \in DOMAIN f.attr : i \in Nat \ {0} /\ i < f.next
        PROVE  FsOK(f)
    <2>1. f.attr \in [DOMAIN f.attr -> Range(f.attr)]
      BY <1>3 DEF Range
    <2>2. f.dentry \in [DOMAIN f.dentry -> DOMAIN f.attr] /\ DOMAIN f.dentry \subseteq Ids \X Names
      BY <1>3
    <2>3. f.next \in 1 .. (MaxId + 1) /\ DOMAIN f.attr \subseteq 1 .. (f.next - 1)
      BY <1>3
    <2>4. f \in [dentry : [DOMAIN f.dentry -> DOMAIN f.attr], attr : [DOMAIN f.attr -> Range(f.attr)], next : 1 .. (MaxId + 1)]
      BY <1>3, <2>1, <2>2, <2>3
    <2> QED BY <1>3, <2>2, <2>3, <2>4 DEF FsOK
  <1>4. FsOK(f) => IsFiniteSet(DOMAIN f.dentry)
    BY DEF FsOK
  <1> QED BY <1>1, <1>2, <1>3, <1>4

\* What an operation may answer: a well-formed file system, and no number of
\* an inode is given out twice.
Answers(f, r) == /\ r \in [st : {r.st}, fs : {r.fs}, id : {r.id}]
                 /\ FsOK(r.fs) /\ r.fs.next >= f.next

LEMMA FailedAnswers ==
    ASSUME NEW f, FsOK(f), NEW st
    PROVE  Answers(f, Failed(f, st)) /\ Failed(f, st).st = st
PROOF
  <1>1. f.next \in Nat
    BY FsParts
  <1> QED BY <1>1 DEF Answers, Failed

LEMMA DoneAnswers ==
    ASSUME NEW f, FsOK(f), NEW g, FsOK(g), g.next >= f.next, NEW i
    PROVE  Answers(f, Done(g, i)) /\ Done(g, i).st = "OK" /\ Done(g, i).id = i /\ Done(g, i).fs = g
BY DEF Answers, Done

\* A change of an inode's attributes.
LEMMA AttrChanged ==
    ASSUME NEW f, FsOK(f), NEW g, g \in [dentry : {f.dentry}, attr : {g.attr}, next : {f.next}],
           g.attr = [i \in DOMAIN f.attr |-> g.attr[i]]
    PROVE  FsOK(g) /\ g.next = f.next /\ g.dentry = f.dentry
PROOF
  <1>1. g.dentry = f.dentry /\ g.next = f.next /\ DOMAIN g.attr = DOMAIN f.attr
    BY Zenon
  <1>2. g \in [dentry : {g.dentry}, attr : {g.attr}, next : {g.next}]
    BY <1>1
  <1> QED BY <1>1, <1>2, FsParts

LEMMA TouchGood ==
    ASSUME NEW f, FsOK(f), NEW i, Exists(f, i)
    PROVE  FsOK(Touch(f, i)) /\ Touch(f, i).next = f.next /\ Touch(f, i).dentry = f.dentry
PROOF
  <1> DEFINE g == Touch(f, i)
  <1>1. /\ f \in [dentry : {f.dentry}, attr : {f.attr}, next : {f.next}]
        /\ f.attr = [j \in DOMAIN f.attr |-> f.attr[j]]
    BY FsParts
  <1>2. g \in [dentry : {f.dentry}, attr : {g.attr}, next : {f.next}] /\ g.attr = [j \in DOMAIN f.attr |-> g.attr[j]]
    BY <1>1 DEF Touch, Exists
  <1> HIDE DEF g
  <1>3. FsOK(g) /\ g.next = f.next /\ g.dentry = f.dentry
    BY <1>2, AttrChanged
  <1> QED BY <1>3 DEF g

\* chmod and chown.
LEMMA ChangesGood ==
    ASSUME NEW f, FsOK(f), NEW i, Exists(f, i), NEW m, NEW u, NEW o
    PROVE  \A g \in {Chmod(f, i, m), Chown(f, i, u, o)} : FsOK(g) /\ g.next = f.next /\ g.dentry = f.dentry /\ Exists(g, i)
PROOF
  <1>1. /\ f \in [dentry : {f.dentry}, attr : {f.attr}, next : {f.next}]
        /\ f.attr = [j \in DOMAIN f.attr |-> f.attr[j]]
    BY FsParts
  <1>2. ASSUME NEW g, g \in [dentry : {f.dentry}, attr : {g.attr}, next : {f.next}],
               g.attr = [j \in DOMAIN f.attr |-> g.attr[j]]
        PROVE  FsOK(Touch(g, i)) /\ Touch(g, i).next = f.next /\ Touch(g, i).dentry = f.dentry /\ Exists(Touch(g, i), i)
    <2>1. FsOK(g) /\ g.next = f.next /\ g.dentry = f.dentry /\ Exists(g, i)
      BY <1>2, AttrChanged DEF Exists
    <2>2. /\ g \in [dentry : {g.dentry}, attr : {g.attr}, next : {g.next}]
          /\ DOMAIN Touch(g, i).attr = DOMAIN g.attr
      BY <1>2, <2>1 DEF Touch, Exists
    <2> QED BY <2>1, <2>2, TouchGood DEF Exists
  <1> DEFINE Good(g) == FsOK(g) /\ g.next = f.next /\ g.dentry = f.dentry /\ Exists(g, i)
  <1>3. Good(Chmod(f, i, m))
    <2>1. CASE m = Void
      BY <2>1 DEF Chmod
    <2>2. CASE m # Void
      <3> DEFINE g == [f EXCEPT !.attr[i].mode = Value(m)]
      <3>1. g \in [dentry : {f.dentry}, attr : {g.attr}, next : {f.next}] /\ g.attr = [j \in DOMAIN f.attr |-> g.attr[j]]
        BY <1>1 DEF Exists
      <3>2. Chmod(f, i, m) = Touch(g, i)
        BY <2>2 DEF Chmod
      <3> HIDE DEF g
      <3> QED BY <1>2, <3>1, <3>2
    <2> QED BY <2>1, <2>2
  <1>4. Good(Chown(f, i, u, o))
    <2>1. CASE u = Void /\ o = Void
      BY <2>1 DEF Chown
    <2>2. CASE ~(u = Void /\ o = Void)
      <3> DEFINE g == [f EXCEPT !.attr[i].uid = IF u = Void THEN @ ELSE Value(u),
                                !.attr[i].gid = IF o = Void THEN @ ELSE Value(o)]
      <3>1. g \in [dentry : {f.dentry}, attr : {g.attr}, next : {f.next}] /\ g.attr = [j \in DOMAIN f.attr |-> g.attr[j]]
        BY <1>1 DEF Exists
      <3>2. Chown(f, i, u, o) = Touch(g, i)
        BY <2>2 DEF Chown
      <3> HIDE DEF g
      <3> QED BY <1>2, <3>1, <3>2
    <2> QED BY <2>1, <2>2
  <1> QED BY <1>3, <1>4

LEMMA SetattrAnswers ==
    ASSUME NEW f, FsOK(f), NEW i, NEW n
    PROVE  \A r \in vfs_setattr(f, i, n) : Answers(f, r)
PROOF
  <1>1. CASE ~Exists(f, i)
    BY <1>1, FailedAnswers DEF vfs_setattr
  <1>2. CASE Exists(f, i)
    <2> DEFINE g == Chmod(f, i, n.mode)
               h == Chown(g, i, n.uid, n.gid)
               e == IF n.size \/ n.times THEN Touch(h, i) ELSE h
    <2>1. FsOK(g) /\ g.next = f.next /\ Exists(g, i)
      BY <1>2, ChangesGood
    <2>2. FsOK(h) /\ h.next = f.next /\ Exists(h, i)
      <3> HIDE DEF g
      <3> QED BY <2>1, ChangesGood
    <2>3. FsOK(e) /\ e.next = f.next
      <3> HIDE DEF h
      <3> QED BY <2>2, TouchGood
    <2>4. vfs_setattr(f, i, n) = {Done(e, i)} \cup {Failed(k, "IO") : k \in {f, g, h, e}}
      BY <1>2 DEF vfs_setattr
    <2>5. f.next \in Nat
      BY FsParts
    <2> HIDE DEF g, h, e
    <2>6. \A k \in {f, g, h, e} : Answers(f, Failed(k, "IO")) /\ Answers(f, Done(e, i))
      BY <2>1, <2>2, <2>3, <2>5 DEF Answers, Failed, Done
    <2> QED BY <2>4, <2>6
  <1> QED BY <1>1, <1>2

LEMMA WriteAnswers ==
    ASSUME NEW f, FsOK(f), NEW i
    PROVE  Answers(f, vfs_write(f, i)) /\ (vfs_write(f, i).st = "OK" => Exists(vfs_write(f, i).fs, i))
PROOF
  <1>1. CASE ~Exists(f, i)
    BY <1>1, FailedAnswers DEF vfs_write
  <1>2. CASE Exists(f, i)
    <2>1. FsOK(Touch(f, i)) /\ Touch(f, i).next = f.next /\ f.next \in Nat
      BY <1>2, TouchGood, FsParts
    <2>2. Exists(Touch(f, i), i)
      BY <1>2 DEF Exists, Touch
    <2> QED BY <1>2, <2>1, <2>2, DoneAnswers DEF vfs_write
  <1> QED BY <1>1, <1>2

\* A new inode has the next number, and one entry.
LEMMA InsertAnswers ==
    ASSUME NEW f, FsOK(f), NEW d \in Ids, NEW n \in Names, NEW kind, NEW mode, NEW auth
    PROVE  LET r == Insert(f, d, n, kind, mode, auth)
           IN Answers(f, r) /\ (r.st = "OK" => r.id = f.next /\ r.fs.next = f.next + 1)
PROOF
  <1> DEFINE i == f.next
             a == [kind |-> kind, uid |-> auth.uid, gid |-> Max(auth.gids), mode |-> mode, ctime |-> 0]
             g == [f EXCEPT !.next = i + 1,
                            !.attr = [j \in DOMAIN @ \cup {i} |-> IF j = i THEN a ELSE @[j]],
                            !.dentry = [s \in DOMAIN @ \cup {<<d, n>>} |-> IF s = <<d, n>> THEN i ELSE @[s]]]
             r == Insert(f, d, n, kind, mode, auth)
  <1>0. MaxId \in Nat
    BY NameAssumption
  <1>1. CASE At(f, d, n) # None
    BY <1>1, FailedAnswers DEF Insert
  <1>2. CASE At(f, d, n) = None /\ f.next > MaxId
    BY <1>2, FailedAnswers DEF Insert
  <1>3. CASE At(f, d, n) = None /\ ~(f.next > MaxId)
    <2>1. r = Done(g, i)
      BY <1>3 DEF Insert
    <2>2. /\ f \in [dentry : {f.dentry}, attr : {f.attr}, next : {f.next}] /\ i \in Nat \ {0} /\ i <= MaxId + 1
          /\ \A s \in DOMAIN f.dentry : s \in Ids \X Names /\ f.dentry[s] \in DOMAIN f.attr
          /\ IsFiniteSet(DOMAIN f.dentry)
          /\ \A j \in DOMAIN f.attr : j \in Nat \ {0} /\ j < i
      BY FsParts
    <2> HIDE DEF a
    <2>3. /\ g \in [dentry : {g.dentry}, attr : {g.attr}, next : {g.next}] /\ g.next = i + 1
          /\ g.attr = [j \in DOMAIN f.attr \cup {i} |-> IF j = i THEN a ELSE f.attr[j]]
          /\ g.dentry = [s \in DOMAIN f.dentry \cup {<<d, n>>} |-> IF s = <<d, n>> THEN i ELSE f.dentry[s]]
      BY <2>2
    <2> HIDE DEF g
    <2>4. g.attr = [j \in DOMAIN g.attr |-> g.attr[j]] /\ DOMAIN g.attr = DOMAIN f.attr \cup {i}
      BY <2>3
    <2>5. g.dentry = [s \in DOMAIN g.dentry |-> g.dentry[s]] /\ DOMAIN g.dentry = DOMAIN f.dentry \cup {<<d, n>>}
      BY <2>3
    <2>6. IsFiniteSet(DOMAIN g.dentry)
      <3>1. IsFiniteSet(DOMAIN f.dentry \cup {<<d, n>>})
        BY <2>2, FS_AddElement, Zenon
      <3> QED BY <2>5, <3>1
    <2>7. \A s \in DOMAIN g.dentry : s \in Ids \X Names /\ g.dentry[s] \in DOMAIN g.attr
      BY <2>2, <2>3, <2>4, <2>5
    <2>8. \A j \in DOMAIN g.attr : j \in Nat \ {0} /\ j < g.next
      BY <2>2, <2>3, <2>4
    <2>9. g.next \in Nat \ {0} /\ g.next <= MaxId + 1 /\ g.next >= f.next
      BY <1>0, <1>3, <2>2, <2>3
    <2>10. FsOK(g)
      BY <2>3, <2>4, <2>5, <2>6, <2>7, <2>8, <2>9, FsParts
    <2> QED BY <2>1, <2>3, <2>9, <2>10, DoneAnswers
  <1>4. Failed(f, "EXIST").st # "OK" /\ Failed(f, "NOSPC").st # "OK"
    BY FailedAnswers
  <1> QED BY <1>1, <1>2, <1>3, <1>4

\* An inode that another entry names is not the last name's.
LEMMA NamedTwice ==
    ASSUME NEW f, FsOK(f), NEW s \in DOMAIN f.dentry, NEW u \in DOMAIN f.dentry, s # u, f.dentry[s] = f.dentry[u]
    PROVE  Cardinality(NamesOf(f, f.dentry[s])) > 1
PROOF
  <1> DEFINE N == NamesOf(f, f.dentry[s])
  <1>1. IsFiniteSet(N)
    <2>1. IsFiniteSet(DOMAIN f.dentry)
      BY FsParts
    <2>2. N \in SUBSET DOMAIN f.dentry
      BY DEF NamesOf
    <2> HIDE DEF N
    <2> QED BY <2>1, <2>2, FS_Subset
  <1>2. {s, u} \subseteq N
    BY DEF NamesOf
  <1> HIDE DEF N
  <1>3. Cardinality({s, u}) = 2
    <2>1. IsFiniteSet({s}) /\ Cardinality({s}) = 1
      BY FS_Singleton
    <2>2. Cardinality({s} \cup {u}) = Cardinality({s}) + 1
      BY <2>1, FS_AddElement
    <2>3. {s} \cup {u} = {s, u}
      OBVIOUS
    <2> QED BY <2>1, <2>2, <2>3
  <1>4. Cardinality({s, u}) <= Cardinality(N) /\ Cardinality(N) \in Nat
    BY <1>1, <1>2, FS_Subset, FS_CardinalityType
  <1> QED BY <1>3, <1>4 DEF N

LEMMA DropGood ==
    ASSUME NEW f, FsOK(f), NEW s \in DOMAIN f.dentry
    PROVE  LET g == Drop(f, s)
           IN /\ FsOK(g) /\ g.next = f.next
              /\ g.dentry = [x \in DOMAIN f.dentry \ {s} |-> f.dentry[x]]
              /\ \A u \in DOMAIN f.dentry \ {s} : f.dentry[u] \in DOMAIN g.attr
PROOF
  <1> DEFINE i == f.dentry[s]
             keep == IF IsDir(f, i) \/ Cardinality(NamesOf(f, i)) > 1 THEN DOMAIN f.attr ELSE DOMAIN f.attr \ {i}
             g == Drop(f, s)
  <1>1. /\ f \in [dentry : {f.dentry}, attr : {f.attr}, next : {f.next}] /\ f.next \in Nat \ {0} /\ f.next <= MaxId + 1
        /\ \A x \in DOMAIN f.dentry : x \in Ids \X Names /\ f.dentry[x] \in DOMAIN f.attr
        /\ IsFiniteSet(DOMAIN f.dentry)
        /\ \A j \in DOMAIN f.attr : j \in Nat \ {0} /\ j < f.next
    BY FsParts
  <1>2. \A u \in DOMAIN f.dentry \ {s} : f.dentry[u] \in keep
    <2> SUFFICES ASSUME NEW u \in DOMAIN f.dentry \ {s} PROVE f.dentry[u] \in keep
      OBVIOUS
    <2>1. CASE f.dentry[u] = i
      BY <1>1, <2>1, NamedTwice
    <2>2. CASE f.dentry[u] # i
      BY <1>1, <2>2
    <2> QED BY <2>1, <2>2
  <1>3. keep \subseteq DOMAIN f.attr
    OBVIOUS
  <1>4. g = [f EXCEPT !.dentry = [x \in DOMAIN @ \ {s} |-> @[x]], !.attr = [j \in keep |-> @[j]]]
    BY DEF Drop
  <1> HIDE DEF keep, g
  <1>5. /\ g \in [dentry : {g.dentry}, attr : {g.attr}, next : {g.next}] /\ g.next = f.next
        /\ g.dentry = [x \in DOMAIN f.dentry \ {s} |-> f.dentry[x]] /\ g.attr = [j \in keep |-> f.attr[j]]
    BY <1>1, <1>4
  <1>6. g.dentry = [x \in DOMAIN g.dentry |-> g.dentry[x]] /\ DOMAIN g.dentry = DOMAIN f.dentry \ {s}
    BY <1>5
  <1>7. g.attr = [j \in DOMAIN g.attr |-> g.attr[j]] /\ DOMAIN g.attr = keep
    BY <1>5
  <1>8. IsFiniteSet(DOMAIN g.dentry)
    BY <1>1, <1>6, FS_RemoveElement
  <1>9. FsOK(g)
    BY <1>1, <1>2, <1>3, <1>5, <1>6, <1>7, <1>8, FsParts
  <1> QED BY <1>2, <1>5, <1>7, <1>9 DEF g

LEMMA RemoveAnswers ==
    ASSUME NEW f, FsOK(f), NEW d, NEW n
    PROVE  Answers(f, vfs_remove(f, d, n))
PROOF
  <1>1. ASSUME At(f, d, n) # None PROVE FsOK(Drop(f, <<d, n>>)) /\ Drop(f, <<d, n>>).next >= f.next
    <2>1. <<d, n>> \in DOMAIN f.dentry /\ f.next \in Nat
      BY <1>1, FsParts DEF At
    <2>2. \A s \in DOMAIN f.dentry : FsOK(Drop(f, s)) /\ Drop(f, s).next = f.next
      BY DropGood
    <2>3. FsOK(Drop(f, <<d, n>>)) /\ Drop(f, <<d, n>>).next = f.next
      BY <2>1, <2>2, Zenon
    <2> QED BY <2>1, <2>3
  <1> QED BY <1>1, FailedAnswers, DoneAnswers DEF vfs_remove

\* One entry is written.
Named(f, S, s, i) == [f EXCEPT !.dentry = [x \in S \cup {s} |-> IF x = s THEN i ELSE @[x]]]
LEMMA NamedGood ==
    ASSUME NEW f, FsOK(f), NEW S \in SUBSET DOMAIN f.dentry, NEW s \in Ids \X Names, NEW i \in DOMAIN f.attr,
           NEW g, g = Named(f, S, s, i)
    PROVE  FsOK(g) /\ g.next = f.next /\ g.attr = f.attr
PROOF
  <1>1. /\ f \in [dentry : {f.dentry}, attr : {f.attr}, next : {f.next}] /\ f.next \in Nat \ {0} /\ f.next <= MaxId + 1
        /\ \A x \in DOMAIN f.dentry : x \in Ids \X Names /\ f.dentry[x] \in DOMAIN f.attr
        /\ f.attr = [j \in DOMAIN f.attr |-> f.attr[j]]
        /\ IsFiniteSet(DOMAIN f.dentry)
        /\ \A j \in DOMAIN f.attr : j \in Nat \ {0} /\ j < f.next
    BY FsParts
  <1>2. /\ g \in [dentry : {g.dentry}, attr : {g.attr}, next : {g.next}] /\ g.next = f.next /\ g.attr = f.attr
        /\ g.dentry = [x \in S \cup {s} |-> IF x = s THEN i ELSE f.dentry[x]]
    BY <1>1 DEF Named
  <1>3. g.dentry = [x \in DOMAIN g.dentry |-> g.dentry[x]] /\ DOMAIN g.dentry = S \cup {s}
    BY <1>2
  <1>4. IsFiniteSet(S \cup {s})
    <2>1. IsFiniteSet(S)
      BY <1>1, FS_Subset
    <2> QED BY <2>1, FS_AddElement, Zenon
  <1>5. \A x \in DOMAIN g.dentry : x \in Ids \X Names /\ g.dentry[x] \in DOMAIN g.attr
    BY <1>1, <1>2, <1>3
  <1> QED BY <1>1, <1>2, <1>3, <1>4, <1>5, FsParts

LEMMA LinkAnswers ==
    ASSUME NEW f, FsOK(f), NEW i, NEW d \in Ids, NEW n \in Names
    PROVE  Answers(f, vfs_link(f, i, d, n))
PROOF
  <1>1. CASE ~Exists(f, i) \/ At(f, d, n) # None
    BY <1>1, FailedAnswers DEF vfs_link
  <1>2. CASE Exists(f, i) /\ At(f, d, n) = None
    <2> DEFINE g == Named(f, DOMAIN f.dentry, <<d, n>>, i)
    <2>1. vfs_link(f, i, d, n) = Done(Touch(g, i), i)
      BY <1>2 DEF vfs_link, Named
    <2>2. FsOK(g) /\ g.next = f.next /\ g.attr = f.attr
      <3>1. <<d, n>> \in Ids \X Names /\ i \in DOMAIN f.attr
        BY <1>2 DEF Exists
      <3> HIDE DEF g
      <3>2. \A h : h = Named(f, DOMAIN f.dentry, <<d, n>>, i) => FsOK(h) /\ h.next = f.next /\ h.attr = f.attr
        BY <3>1, NamedGood
      <3> QED BY <3>2 DEF g
    <2> HIDE DEF g
    <2>3. FsOK(Touch(g, i)) /\ Touch(g, i).next = f.next /\ f.next \in Nat
      BY <1>2, <2>2, TouchGood, FsParts DEF Exists
    <2> QED BY <2>1, <2>3, DoneAnswers
  <1> QED BY <1>1, <1>2

LEMMA RenameAnswers ==
    ASSUME NEW f, FsOK(f), NEW d, NEW n, NEW e \in Ids, NEW m \in Names, <<d, n>> # <<e, m>>
    PROVE  Answers(f, vfs_rename(f, d, n, e, m))
PROOF
  <1> DEFINE i == At(f, d, n)
             j == At(f, e, m)
             h == IF j = None THEN f ELSE Drop(f, <<e, m>>)
             S == DOMAIN h.dentry \ {<<d, n>>}
             g == Named(h, S, <<e, m>>, i)
             r == vfs_rename(f, d, n, e, m)
  <1>1. (\E st : r = Failed(f, st)) \/ (i # None /\ r = Done(Touch(g, i), i))
    BY DEF vfs_rename, Named
  <1>2. ASSUME i # None PROVE Answers(f, Done(Touch(g, i), i))
    <2>1. <<d, n>> \in DOMAIN f.dentry /\ i = f.dentry[<<d, n>>]
      BY <1>2 DEF At
    <2>2. FsOK(h) /\ h.next = f.next /\ i \in DOMAIN h.attr
      <3>1. CASE j = None
        BY <2>1, <3>1, FsParts
      <3>2. CASE j # None
        <4>1. <<e, m>> \in DOMAIN f.dentry
          BY <3>2 DEF At
        <4>2. \A s \in DOMAIN f.dentry : /\ FsOK(Drop(f, s)) /\ Drop(f, s).next = f.next
                                        /\ \A u \in DOMAIN f.dentry \ {s} : f.dentry[u] \in DOMAIN Drop(f, s).attr
          BY DropGood
        <4>3. <<d, n>> \in DOMAIN f.dentry \ {<<e, m>>}
          BY <2>1
        <4>4. h = Drop(f, <<e, m>>)
          BY <3>2
        <4>5. /\ FsOK(Drop(f, <<e, m>>)) /\ Drop(f, <<e, m>>).next = f.next
              /\ f.dentry[<<d, n>>] \in DOMAIN Drop(f, <<e, m>>).attr
          BY <4>1, <4>2, <4>3, Zenon
        <4> QED BY <2>1, <4>4, <4>5
      <3> QED BY <3>1, <3>2
    <2>3. <<e, m>> \in Ids \X Names /\ S \in SUBSET DOMAIN h.dentry
      OBVIOUS
    <2> HIDE DEF h, S, i
    <2>4. FsOK(g) /\ g.next = h.next /\ g.attr = h.attr
      <3> HIDE DEF g
      <3>1. \A y : y = Named(h, S, <<e, m>>, i) => FsOK(y) /\ y.next = h.next /\ y.attr = h.attr
        BY <2>2, <2>3, NamedGood
      <3> QED BY <3>1 DEF g
    <2> HIDE DEF g
    <2>5. FsOK(Touch(g, i)) /\ Touch(g, i).next = f.next /\ f.next \in Nat
      <3>1. Exists(g, i)
        BY <2>2, <2>4 DEF Exists
      <3>2. FsOK(Touch(g, i)) /\ Touch(g, i).next = g.next
        BY <2>4, <3>1, TouchGood
      <3>3. f.next \in Nat
        BY FsParts
      <3> QED BY <2>2, <2>4, <3>2, <3>3
    <2> QED BY <2>5, DoneAnswers
  <1> QED BY <1>1, <1>2, FailedAnswers

Makes == {"CREATE", "GUARDED", "EXCLUSIVE"}

\* The operations that make an inode.
LEMMA CreateAnswers ==
    ASSUME NEW f, FsOK(f), NEW d \in Ids, NEW n \in Names, NEW auth,
           NEW r \in {vfs_create(f, d, n, auth), vfs_create_exclusive(f, d, n, auth), vfs_mkdir(f, d, n, auth),
                      vfs_mknod(f, d, n, auth), vfs_symlink(f, d, n, auth)}
    PROVE  Answers(f, r) /\ (r.st = "OK" => r.id = f.next /\ r.fs.next = f.next + 1)
PROOF
  <1>1. ASSUME NEW kind, NEW mode
        PROVE  LET q == Insert(f, d, n, kind, mode, auth)
               IN Answers(f, q) /\ (q.st = "OK" => q.id = f.next /\ q.fs.next = f.next + 1)
    BY InsertAnswers
  <1>2. Answers(f, Failed(f, "EXIST")) /\ Failed(f, "EXIST").st # "OK"
    BY FailedAnswers
  <1> QED BY <1>1, <1>2 DEF vfs_create, vfs_create_exclusive, vfs_mkdir, vfs_mknod, vfs_symlink

(***************************************************************************)
(* The server's tasks.  A call carries what its operation needs; a task    *)
(* has passed the check of its file handle before it asks the file system. *)
(***************************************************************************)
IsSeq(s) == \E S : s \in Seq(S)
ShapedTask(u) == u \in [pc : {u.pc}, kept : {u.kept}, out : {u.out}, made : {u.made}]

CallOK(c, l) ==
    /\ c.c \in Clients /\ c.life \in 1 .. l
    /\ c.proc \in OnName \cup {"LINK"} => c.d \in Ids /\ c.n \in Names
    /\ c.proc = "RENAME" => c.e \in Ids /\ c.m \in Names /\ <<c.d, c.n>> # <<c.e, c.m>>

CallsInv ==
    /\ IsSeq(calls) /\ \A x \in 1 .. Len(calls) : CallOK(calls[x], life)
    /\ life \in Nat \ {0} /\ conn \in [Clients -> Nat] /\ waiting \subseteq 1 .. Len(calls)
    /\ IsSeq(answers) /\ Len(answers) = Len(calls) /\ \A x \in 1 .. Len(calls) : IsSeq(answers[x])
    /\ IsSeq(effects) /\ Len(effects) = Len(calls) /\ \A x \in 1 .. Len(calls) : IsSeq(effects[x])

TaskOK(t, u, c) ==
    /\ ShapedTask(u)
    /\ c.proc = "BADVERS" => u.pc \in {"rpc", "reply"}
    /\ c.proc \in Makes /\ u.pc # "reply" => u.out = <<>>

TasksInv ==
    /\ tasks = [t \in DOMAIN tasks |-> tasks[t]]
    /\ \A t \in DOMAIN tasks :
          /\ t.xid \in 1 .. Len(calls) /\ t.conn[1] \in Clients /\ t.conn[2] \in 0 .. conn[t.conn[1]]
          /\ TaskOK(t, tasks[t], CallOf(t))
          /\ tasks[t].pc \notin {"rpc", "start", "reply"} => CallOf(t).life = life

BaseInv == CallsInv /\ TasksInv /\ FsOK(fs)

(***************************************************************************)
(* What a step of a handler between handle_rpc and the answer may do: ask  *)
(* the file system once, and then go on or answer.                         *)
(***************************************************************************)
Ran(t) == effects' = [effects EXCEPT ![t.xid] = Append(@, <<t.conn, life>>)]
Creates(t, u) ==
    CallOf(t).proc \in Makes =>
       IF u.pc = "reply" THEN u.out # <<>> /\ (Head(u.out) = "OK" => u.made = fs.next /\ fs'.next = fs.next + 1)
       ELSE u.out = <<>>
Advances(t) ==
    /\ tasks[t].pc \notin {"rpc", "reply"}
    /\ \E u : /\ tasks' = [tasks EXCEPT ![t] = u] /\ ShapedTask(u) /\ u.pc \notin {"rpc", "start"}
              /\ u.pc = "reply" \/ CallOf(t).life = life
              /\ effects' = effects \/ (tasks[t].pc # "start" /\ u.pc = "reply" /\ Ran(t))
              /\ Creates(t, u)
    /\ FsOK(fs') /\ fs'.next >= fs.next
    /\ UNCHANGED <<life, tracker, calls, waiting, conn, up, answers, expired, faults>>

LEMMA BecomeAdvances ==
    ASSUME BaseInv, NEW t \in DOMAIN tasks, NEW u, Become(t, u), UNCHANGED <<fs, effects, owed>>,
           ShapedTask(u), u.pc \notin {"rpc", "start"}, u.pc = "reply" \/ CallOf(t).life = life,
           tasks[t].pc \notin {"rpc", "reply"},
           CallOf(t).proc \in Makes => IF u.pc = "reply" THEN u.out # <<>> /\ Head(u.out) # "OK" ELSE u.out = <<>>
    PROVE  Advances(t)
PROOF
  <1>1. FsOK(fs') /\ fs'.next >= fs.next
    <2>1. FsOK(fs) /\ fs.next \in Nat
      BY FsParts DEF BaseInv
    <2> QED BY <2>1
  <1>2. Creates(t, u)
    BY DEF Creates
  <1> QED BY <1>1, <1>2 DEF Become, Advances, client

LEMMA RespondAdvances ==
    ASSUME BaseInv, NEW t \in DOMAIN tasks, NEW st, Respond(t, st), tasks[t].pc \notin {"rpc", "reply"},
           CallOf(t).proc \in Makes => st # "OK"
    PROVE  Advances(t)
PROOF
  <1> DEFINE u == [tasks[t] EXCEPT !.pc = "reply", !.out = Append(@, st)]
  <1>1. ShapedTask(tasks[t]) /\ (CallOf(t).proc \in Makes => tasks[t].out = <<>>)
    BY DEF BaseInv, TasksInv, TaskOK
  <1>2. ShapedTask(u) /\ u.pc = "reply" /\ u.out = Append(tasks[t].out, st)
    BY <1>1 DEF ShapedTask
  <1>3. CallOf(t).proc \in Makes => u.out # <<>> /\ Head(u.out) # "OK"
    <2>1. Append(<<>>, st) = <<st>>
      OBVIOUS
    <2>2. CallOf(t).proc \in Makes => u.out = <<st>>
      BY <1>1, <1>2, <2>1
    <2> QED BY <2>2
  <1>4. Become(t, u) /\ UNCHANGED <<fs, effects, owed>>
    BY DEF Respond
  <1> HIDE DEF u
  <1> QED BY <1>2, <1>3, <1>4, BecomeAdvances

LEMMA ProceedAdvances ==
    ASSUME BaseInv, NEW t \in DOMAIN tasks, NEW pc, NEW v, Proceed(t, pc, v), tasks[t].pc \notin {"rpc", "reply"},
           pc \notin {"rpc", "start", "reply"}, CallOf(t).life = life
    PROVE  Advances(t)
PROOF
  <1> DEFINE u == [tasks[t] EXCEPT !.pc = pc, !.kept = v]
  <1>1. ShapedTask(tasks[t]) /\ (CallOf(t).proc \in Makes => tasks[t].out = <<>>)
    BY DEF BaseInv, TasksInv, TaskOK
  <1>2. ShapedTask(u) /\ u.pc = pc /\ u.out = tasks[t].out
    BY <1>1 DEF ShapedTask
  <1>3. Become(t, u) /\ UNCHANGED <<fs, effects, owed>>
    BY DEF Proceed
  <1> HIDE DEF u
  <1> QED BY <1>1, <1>2, <1>3, BecomeAdvances

LEMMA PerformAdvances ==
    ASSUME BaseInv, NEW t \in DOMAIN tasks, NEW r, NEW o, Perform(t, r, o), Answers(fs, r),
           tasks[t].pc \notin {"rpc", "start", "reply"},
           CallOf(t).proc \in Makes /\ r.st = "OK" => r.id = fs.next /\ r.fs.next = fs.next + 1
    PROVE  Advances(t)
PROOF
  <1> DEFINE u == [tasks[t] EXCEPT !.pc = "reply", !.out = Append(@, r.st), !.made = r.id]
  <1>1. ShapedTask(tasks[t]) /\ (CallOf(t).proc \in Makes => tasks[t].out = <<>>)
    BY DEF BaseInv, TasksInv, TaskOK
  <1>2. ShapedTask(u) /\ u.pc = "reply" /\ u.out = Append(tasks[t].out, r.st) /\ u.made = r.id
    BY <1>1 DEF ShapedTask
  <1>3. tasks' = [tasks EXCEPT ![t] = u]
    BY DEF Perform
  <1>4. /\ fs' = r.fs
        /\ effects' = effects \/ Ran(t)
        /\ UNCHANGED <<life, tracker, calls, waiting, conn, up, answers, expired, faults>>
    BY DEF Perform, Ran
  <1> HIDE DEF u
  <1>5. Creates(t, u)
    <2>1. Append(<<>>, r.st) = <<r.st>>
      OBVIOUS
    <2>2. CallOf(t).proc \in Makes => u.out = <<r.st>>
      BY <1>1, <1>2, <2>1
    <2> QED BY <1>2, <1>4, <2>2 DEF Creates
  <1> QED BY <1>2, <1>3, <1>4, <1>5 DEF Advances, Answers

Handles(t) ==
    \/ handle_mount(t) \/ handle_portmap(t) \/ unavailable(t)
    \/ nfsproc3_null(t) \/ nfsproc3_getattr(t) \/ nfsproc3_fsinfo(t) \/ nfsproc3_pathconf(t) \/ nfsproc3_fsstat(t)
    \/ nfsproc3_access(t) \/ nfsproc3_lookup(t) \/ nfsproc3_read(t) \/ nfsproc3_readlink(t)
    \/ nfsproc3_readdirplus(t) \/ nfsproc3_readdir(t) \/ nfsproc3_write(t) \/ nfsproc3_setattr(t)
    \/ nfsproc3_create(t) \/ nfsproc3_mkdir(t) \/ nfsproc3_symlink(t) \/ nfsproc3_mknod(t) \/ nfsproc3_link(t)
    \/ nfsproc3_remove(t) \/ nfsproc3_rename(t)

\* Every handler goes this way: whatever it answers before it has passed the
\* check of its handle is an error or concerns no file.
LEMMA HandlersAdvance ==
    ASSUME BaseInv, NEW t \in DOMAIN tasks, Handles(t)
    PROVE  Advances(t)
PROOF
  <1> DEFINE c == CallOf(t)
             pc == tasks[t].pc
  <1> DEFINE Open == pc \notin {"rpc", "reply"}
  <1>0. CallOK(c, life) /\ FsOK(fs) /\ ShapedTask(tasks[t]) /\ (pc \notin {"rpc", "start", "reply"} => c.life = life)
    BY DEF BaseInv, TasksInv, CallsInv, TaskOK, CallOf
  <1>1. ASSUME NEW st, Respond(t, st), Open, c.proc \in Makes => st # "OK" PROVE Advances(t)
    BY <1>1, RespondAdvances
  <1>2. ASSUME NEW p, NEW v, Proceed(t, p, v), Open, p \notin {"rpc", "start", "reply"}, c.life = life PROVE Advances(t)
    BY <1>2, ProceedAdvances
  <1>3. ASSUME NEW ok, NEW p, NEW v, Decide(t, ok, p, v), Open, p \notin {"rpc", "start", "reply"}, c.life = life
        PROVE  Advances(t)
    BY <1>1, <1>2, <1>3 DEF Decide
  <1>4. ASSUME NEW r, NEW o, Perform(t, r, o), Answers(fs, r), pc \notin {"rpc", "start", "reply"},
               c.proc \in Makes /\ r.st = "OK" => r.id = fs.next /\ r.fs.next = fs.next + 1
        PROVE  Advances(t)
    BY <1>4, PerformAdvances
  <1>5. ASSUME NEW u, Become(t, u), UNCHANGED <<fs, effects, owed>>, Open, ShapedTask(u),
               u.pc = "reply" \/ (u.pc \notin {"rpc", "start"} /\ c.life = life), c.proc \notin Makes
        PROVE  Advances(t)
    BY <1>5, BecomeAdvances
  <1>6. ASSUME handle_mount(t) \/ handle_portmap(t) \/ unavailable(t) \/ nfsproc3_null(t) PROVE Advances(t)
    BY <1>1, <1>6 DEF handle_mount, handle_portmap, unavailable, nfsproc3_null, In, Makes
  <1>7. ASSUME nfsproc3_getattr(t) PROVE Advances(t)
    BY <1>1, <1>7 DEF nfsproc3_getattr, Admit, fh_to_id, In, Makes
  <1>8. ASSUME nfsproc3_fsinfo(t) \/ nfsproc3_pathconf(t) \/ nfsproc3_fsstat(t) PROVE Advances(t)
    BY <1>1, <1>8 DEF nfsproc3_fsinfo, nfsproc3_pathconf, nfsproc3_fsstat, fh_to_id, In, Makes
  <1>9. ASSUME nfsproc3_access(t) PROVE Advances(t)
    <2>1. \A k : ShapedTask([tasks[t] EXCEPT !.pc = "reply", !.out = <<"OK">>, !.kept = k])
                 /\ [tasks[t] EXCEPT !.pc = "reply", !.out = <<"OK">>, !.kept = k].pc = "reply"
      BY <1>0 DEF ShapedTask
    <2> QED BY <1>1, <1>5, <1>9, <2>1 DEF nfsproc3_access, Admit, fh_to_id, In, Makes
  <1>10. ASSUME nfsproc3_lookup(t) PROVE Advances(t)
    BY <1>0, <1>1, <1>2, <1>3, <1>10 DEF nfsproc3_lookup, Admit, fh_to_id, In, Makes
  <1>11. ASSUME nfsproc3_read(t) \/ nfsproc3_readlink(t) PROVE Advances(t)
    BY <1>0, <1>1, <1>2, <1>3, <1>11 DEF nfsproc3_read, nfsproc3_readlink, Admit, fh_to_id, In, Makes
  <1>12. ASSUME nfsproc3_readdirplus(t) \/ nfsproc3_readdir(t) PROVE Advances(t)
    <2>1. \A k : ShapedTask([tasks[t] EXCEPT !.pc = "reply", !.out = <<"OK">>, !.kept = k])
                 /\ [tasks[t] EXCEPT !.pc = "reply", !.out = <<"OK">>, !.kept = k].pc = "reply"
      BY <1>0 DEF ShapedTask
    <2>2. ASSUME NEW p, Page(t, p), c.proc \in {"READDIR", "READDIRPLUS"}, pc = "op" PROVE Advances(t)
      BY <1>5, <2>1, <2>2 DEF Page, In, Makes
    <2> QED BY <1>0, <1>1, <1>3, <1>12, <2>2 DEF nfsproc3_readdirplus, nfsproc3_readdir, MayList, Admit, fh_to_id, In, Makes
  <1>13. ASSUME nfsproc3_write(t) PROVE Advances(t)
    <2> DEFINE i == c.id
               w == vfs_write(fs, i)
    <2>1. CASE In(t, "WRITE", "start")
      BY <1>0, <1>1, <1>3, <1>13, <2>1 DEF nfsproc3_write, Admit, fh_to_id, In, Makes
    <2>2. CASE In(t, "WRITE", "op")
      <3>1. Answers(fs, w)
        BY <1>0, WriteAnswers
      <3>2. ASSUME NEW o, Perform(t, w, o) PROVE Advances(t)
        BY <1>4, <2>2, <3>1, <3>2 DEF In, Makes
      <3>3. ASSUME NEW o, Become(t, [tasks[t] EXCEPT !.pc = "clear", !.kept = w.fs.attr[i].mode \ SetId]),
                   fs' = w.fs, owed' = o, UNCHANGED effects
            PROVE  Advances(t)
        <4> DEFINE u == [tasks[t] EXCEPT !.pc = "clear", !.kept = w.fs.attr[i].mode \ SetId]
        <4>1. ShapedTask(u) /\ u.pc = "clear"
          BY <1>0 DEF ShapedTask
        <4>2. Become(t, u)
          BY <3>3
        <4> HIDE DEF u, w
        <4>3. Creates(t, u)
          BY <2>2, <3>3, <4>1 DEF Creates, In, Makes
        <4>4. c.life = life
          BY <1>0, <2>2 DEF In
        <4> QED BY <2>2, <3>1, <3>3, <4>1, <4>2, <4>3, <4>4 DEF Become, Advances, client, Answers, In
      <3> QED BY <1>13, <2>2, <3>2, <3>3 DEF nfsproc3_write, In
    <2>3. CASE In(t, "WRITE", "clear")
      <3>1. PICK r \in vfs_setattr(fs, i, [NoSattr EXCEPT !.mode = Some(Kept(t))]) : \E o : Perform(t, [r EXCEPT !.st = "OK"], o)
        BY <1>13, <2>3 DEF nfsproc3_write, In
      <3>2. Answers(fs, r)
        BY <1>0, SetattrAnswers
      <3>3. Answers(fs, [r EXCEPT !.st = "OK"])
        BY <3>2 DEF Answers
      <3> QED BY <1>4, <2>3, <3>1, <3>3 DEF In, Makes
    <2> QED BY <1>13, <2>1, <2>2, <2>3 DEF nfsproc3_write
  <1>14. ASSUME nfsproc3_setattr(t) PROVE Advances(t)
    <2>1. CASE In(t, "SETATTR", "start")
      <3>1. \A k, o : /\ ShapedTask([tasks[t] EXCEPT !.pc = "op", !.kept = k, !.out = o])
                      /\ [tasks[t] EXCEPT !.pc = "op", !.kept = k, !.out = o].pc = "op"
        BY <1>0 DEF ShapedTask
      <3> QED BY <1>1, <1>5, <1>14, <2>1, <3>1 DEF nfsproc3_setattr, Admit, fh_to_id, In, Makes
    <2>2. CASE In(t, "SETATTR", "op")
      <3>1. PICK r \in vfs_setattr(fs, c.id, Kept(t)) : \E o : Perform(t, r, o)
        BY <1>14, <2>2 DEF nfsproc3_setattr, In
      <3>2. Answers(fs, r)
        BY <1>0, SetattrAnswers
      <3> QED BY <1>4, <2>2, <3>1, <3>2 DEF In, Makes
    <2> QED BY <1>14, <2>1, <2>2 DEF nfsproc3_setattr
  <1>15. ASSUME NEW d, NEW p, MayModify(t, d, p), Open, p \notin {"rpc", "start", "reply"} PROVE Advances(t)
    BY <1>1, <1>3, <1>15 DEF MayModify, Admit, fh_to_id
  <1>16. ASSUME NEW r, Answers(fs, r), r.st = "OK" => r.id = fs.next /\ r.fs.next = fs.next + 1, Perform(t, r, owed), pc = "op"
         PROVE  Advances(t)
    BY <1>4, <1>16 DEF In
  <1>17. ASSUME c.proc \in OnName
         PROVE  \A r \in {vfs_create(fs, c.d, c.n, AuthOf(t)), vfs_create_exclusive(fs, c.d, c.n, AuthOf(t)),
                          vfs_mkdir(fs, c.d, c.n, AuthOf(t)), vfs_mknod(fs, c.d, c.n, AuthOf(t)),
                          vfs_symlink(fs, c.d, c.n, AuthOf(t))} :
                   Answers(fs, r) /\ (r.st = "OK" => r.id = fs.next /\ r.fs.next = fs.next + 1)
    BY <1>0, <1>17, CreateAnswers DEF CallOK
  <1>18. ASSUME nfsproc3_create(t) PROVE Advances(t)
    BY <1>0, <1>1, <1>2, <1>15, <1>16, <1>17, <1>18 DEF nfsproc3_create, In, Makes, OnName
  <1>19. ASSUME nfsproc3_mkdir(t) \/ nfsproc3_symlink(t) \/ nfsproc3_mknod(t) PROVE Advances(t)
    BY <1>15, <1>16, <1>17, <1>19 DEF nfsproc3_mkdir, nfsproc3_symlink, nfsproc3_mknod, In, OnName
  <1>20. ASSUME nfsproc3_link(t) PROVE Advances(t)
    <2>1. In(t, "LINK", "op") => Answers(fs, vfs_link(fs, c.id, c.d, c.n))
      BY <1>0, LinkAnswers DEF CallOK, In
    <2> QED BY <1>1, <1>2, <1>4, <1>15, <1>20, <2>1 DEF nfsproc3_link, Admit, fh_to_id, In, Makes
  <1>21. ASSUME NEW a, NEW d, NEW n, NEW p, NEW q, LookEntry(t, a, d, n, p, q), Open, c.life = life,
                p \notin {"rpc", "start", "reply"}, q \notin {"rpc", "start", "reply"}
         PROVE  Advances(t)
    BY <1>2, <1>3, <1>21 DEF LookEntry
  <1>22. ASSUME NEW a, NEW k, NEW p, NEW q, FromDir(t, a, k, p, q), Open, c.life = life,
                p \notin {"rpc", "start", "reply"}, q \notin {"rpc", "start", "reply"}
         PROVE  Advances(t)
    BY <1>2, <1>3, <1>22 DEF FromDir
  <1>23. ASSUME nfsproc3_remove(t) PROVE Advances(t)
    <2>1. Answers(fs, vfs_remove(fs, c.d, c.n))
      BY <1>0, RemoveAnswers
    <2> QED BY <1>0, <1>1, <1>3, <1>4, <1>21, <1>22, <1>23, <2>1 DEF nfsproc3_remove, Admit, fh_to_id, In, Makes
  <1>24. ASSUME nfsproc3_rename(t) PROVE Advances(t)
    <2>1. In(t, "RENAME", "op") => Answers(fs, vfs_rename(fs, c.d, c.n, c.e, c.m))
      BY <1>0, RenameAnswers DEF CallOK, In
    <2> QED BY <1>0, <1>1, <1>2, <1>3, <1>4, <1>21, <1>22, <1>24, <2>1 DEF nfsproc3_rename, Admit, fh_to_id, In, Makes
  <1> QED BY <1>6, <1>7, <1>8, <1>9, <1>10, <1>11, <1>12, <1>13, <1>14, <1>18, <1>19, <1>20, <1>23, <1>24 DEF Handles

(***************************************************************************)
(* The other steps.  Clients only add tasks and calls; a task is never     *)
(* replaced by a copy.                                                     *)
(***************************************************************************)
Longer(s, r) == IsSeq(r) /\ Len(r) >= Len(s) /\ \A x \in 1 .. Len(s) : r[x] = s[x]

Arrives(t) == /\ t \notin DOMAIN tasks /\ t.xid \in 1 .. Len(calls')
              /\ t.conn[1] \in Clients /\ t.conn[2] \in 0 .. conn'[t.conn[1]]
Grows ==
    /\ \E T : Spawn(T) /\ \A t \in T : Arrives(t)
    /\ Longer(calls, calls') /\ Longer(answers, answers') /\ Longer(effects, effects')
    /\ Len(answers') = Len(calls') /\ Len(effects') = Len(calls') /\ waiting' \subseteq 1 .. Len(calls')
    /\ \A x \in 1 .. Len(calls') : x > Len(calls) => /\ CallOK(calls'[x], life)
                                                   /\ answers'[x] = <<>> /\ effects'[x] = <<>>
    /\ conn' \in [Clients -> Nat] /\ \A c \in Clients : conn[c] <= conn'[c]
    /\ UNCHANGED <<fs, life, tracker, expired, owed>>

Still == UNCHANGED <<fs, life, tasks, tracker, calls, waiting, conn, answers, effects, expired, owed>>

Ends(t) ==
    /\ tasks[t].pc # "rpc" /\ ~In(t, "WRITE", "clear") /\ mark_processed(t)
    /\ tasks' = [u \in DOMAIN tasks \ {t} |-> tasks[u]]
    /\ waiting' \subseteq waiting
    /\ \/ answers' = answers
       \/ /\ tasks[t].pc = "reply"
          /\ answers' = [answers EXCEPT ![t.xid] = Append(@, [st |-> Head(tasks[t].out), id |-> tasks[t].made])]
    /\ UNCHANGED <<fs, life, calls, conn, effects, expired, owed>>

LEMMA EndSteps ==
    ASSUME NEW t \in DOMAIN tasks, reply(t) \/ handler_error(t)
    PROVE  Ends(t)
PROOF
  <1>1. End(t) => tasks' = [u \in DOMAIN tasks \ {t} |-> tasks[u]]
    BY DEF End, Restrict
  <1>2. CASE reply(t)
    BY <1>1, <1>2 DEF reply, Ends, In
  <1>3. CASE handler_error(t)
    BY <1>1, <1>3 DEF handler_error, Ends, In
  <1> QED BY <1>2, <1>3

\* A call is added to the sequence.
LEMMA Added ==
    ASSUME NEW s, IsSeq(s), NEW e
    PROVE  LET r == Append(s, e)
           IN Longer(s, r) /\ Len(s) \in Nat /\ Len(r) = Len(s) + 1 /\ r[Len(s) + 1] = e
PROOF
  <1>1. PICK S : s \in Seq(S)
    BY DEF IsSeq
  <1>2. s \in Seq(S \cup {e}) /\ e \in S \cup {e}
    BY <1>1
  <1> HIDE <1>1
  <1>3. Append(s, e) \in Seq(S \cup {e}) /\ Len(s) \in Nat /\ Len(Append(s, e)) = Len(s) + 1
    BY <1>2
  <1>4. Append(s, e)[Len(s) + 1] = e /\ \A x \in 1 .. Len(s) : Append(s, e)[x] = s[x]
    BY <1>2
  <1> QED BY <1>3, <1>4 DEF Longer, IsSeq

LEMMA SendGrows ==
    ASSUME BaseInv, NEW c \in Clients, NEW k, Send(c, k), CallOK([k EXCEPT !.c = c], life)
    PROVE  Grows
PROOF
  <1> DEFINE n == Len(calls) + 1
             t == Task(n, 1)
  <1>1. /\ calls' = Append(calls, [k EXCEPT !.c = c]) /\ answers' = Append(answers, <<>>) /\ effects' = Append(effects, <<>>)
        /\ waiting' = waiting \cup {Len(calls')} /\ Spawn({Task(Len(calls'), 1)})
        /\ UNCHANGED <<conn, fs, life, tracker, expired, owed>>
    BY DEF Send
  <1>2. /\ IsSeq(calls) /\ IsSeq(answers) /\ IsSeq(effects) /\ Len(answers) = Len(calls) /\ Len(effects) = Len(calls)
        /\ conn \in [Clients -> Nat] /\ waiting \subseteq 1 .. Len(calls)
    BY DEF BaseInv, CallsInv
  <1> DEFINE d == [k EXCEPT !.c = c]
  <1> HIDE DEF d
  <1>3. calls' = Append(calls, d) /\ CallOK(d, life)
    BY <1>1 DEF d
  <1>4. Longer(calls, calls') /\ Len(calls) \in Nat /\ Len(calls') = n /\ calls'[n] = d
    BY <1>2, <1>3, Added
  <1>5. Longer(answers, answers') /\ Len(answers') = n /\ answers'[n] = <<>>
    BY <1>1, <1>2, Added
  <1>6. Longer(effects, effects') /\ Len(effects') = n /\ effects'[n] = <<>>
    BY <1>1, <1>2, Added
  <1>7. waiting' \subseteq 1 .. n
    BY <1>1, <1>2, <1>4
  <1>8. \A x \in 1 .. Len(calls') : x > Len(calls) => CallOK(calls'[x], life) /\ answers'[x] = <<>> /\ effects'[x] = <<>>
    BY <1>3, <1>4, <1>5, <1>6
  <1>9. Arrives(t)
    <2>1. d.c \in Clients /\ calls'[n].c = d.c
      BY <1>3, <1>4 DEF CallOK
    <2>2. t.xid = n /\ t.conn[1] = d.c /\ t.conn[2] = conn'[d.c]
      BY <2>1 DEF Task
    <2>3. t \notin DOMAIN tasks
      BY <1>4, <2>2 DEF BaseInv, TasksInv
    <2>4. conn'[d.c] \in Nat
      BY <1>1, <1>2, <2>1
    <2> QED BY <1>4, <2>1, <2>2, <2>3, <2>4 DEF Arrives
  <1>10. Spawn({t})
    BY <1>1, <1>4
  <1>11. \A a \in Clients : conn[a] <= conn'[a]
    BY <1>1, <1>2
  <1> HIDE DEF t
  <1> QED BY <1>1, <1>2, <1>4, <1>5, <1>6, <1>7, <1>8, <1>9, <1>10, <1>11 DEF Grows

\* What clients send is well formed: handles are of this life, names and
\* directories are there.
LEMMA ClientsSend ==
    ASSUME BaseInv, NEW c \in Clients, Client(c)
    PROVE  Grows \/ Disconnect(c) \/ Reconnect(c)
PROOF
  <1> DEFINE OK(k) == CallOK([k EXCEPT !.c = c], life)
  <1>1. ASSUME NEW k, Send(c, k), OK(k) PROVE Grows
    BY <1>1, SendGrows
  <1>2. life \in 1 .. life
    BY DEF BaseInv, CallsInv
  <1>3. Dirs \subseteq Ids
    <2>1. /\ \A i \in DOMAIN fs.attr : i \in Nat \ {0} /\ i < fs.next
          /\ fs.next \in Nat /\ fs.next <= MaxId + 1
      BY FsParts DEF BaseInv
    <2> QED BY <2>1, NameAssumption DEF Dirs, Ids
  <1>4. ASSUME NEW p, NEW i, p \notin OnName \cup {"LINK", "RENAME"} PROVE OK(Call(p, i, None, None, None, None))
    BY <1>2, <1>4 DEF CallOK, Call
  <1>5. ASSUME SendOther(c) \/ SendOnObject(c) \/ SendReaddir(c) PROVE Grows
    <2>1. PICK p, i : p \notin OnName \cup {"LINK", "RENAME"} /\ Send(c, Call(p, i, None, None, None, None))
      BY <1>5 DEF SendOther, SendOnObject, SendReaddir, Other, OnObject, OnName
    <2> QED BY <1>1, <1>4, <2>1
  <1>6. ASSUME SendOnName(c) \/ SendLink(c) PROVE Grows
    <2>1. ASSUME NEW p \in OnName \cup {"LINK"}, NEW i, NEW d \in Dirs, NEW n \in Names, Send(c, Call(p, i, d, n, None, None))
          PROVE  Grows
      <3>1. OK(Call(p, i, d, n, None, None))
        BY <1>2, <1>3 DEF CallOK, Call, OnName
      <3> QED BY <1>1, <2>1, <3>1
    <2>2. CASE SendOnName(c)
      BY <2>1, <2>2 DEF SendOnName
    <2>3. CASE SendLink(c)
      BY <2>1, <2>3 DEF SendLink
    <2> QED BY <1>6, <2>2, <2>3
  <1>7. ASSUME SendRename(c) PROVE Grows
    <2>1. PICK s \in Dirs \X Names, t \in Dirs \X Names : s # t /\ Send(c, Call("RENAME", None, s[1], s[2], t[1], t[2]))
      BY <1>7 DEF SendRename
    <2>2. t[1] \in Ids /\ t[2] \in Names /\ <<s[1], s[2]>> # <<t[1], t[2]>>
      BY <1>3, <2>1
    <2>3. OK(Call("RENAME", None, s[1], s[2], t[1], t[2]))
      BY <1>2, <2>2 DEF CallOK, Call, OnName
    <2> QED BY <1>1, <2>1, <2>3
  <1>8. ASSUME SendSetattr(c) PROVE Grows
    <2>1. PICK i, a, g : Send(c, [Call("SETATTR", i, None, None, None, None) EXCEPT !.sattr = a, !.guard = g])
      BY <1>8 DEF SendSetattr
    <2>2. OK([Call("SETATTR", i, None, None, None, None) EXCEPT !.sattr = a, !.guard = g])
      BY <1>2 DEF CallOK, Call, OnName
    <2> QED BY <1>1, <2>1, <2>2
  <1>9. ASSUME SendReaddirplus(c) PROVE Grows
    <2>1. PICK k : Send(c, [Call("READDIRPLUS", ROOT_INO, None, None, None, None) EXCEPT !.cookie = k])
      BY <1>9 DEF SendReaddirplus
    <2>2. OK([Call("READDIRPLUS", ROOT_INO, None, None, None, None) EXCEPT !.cookie = k])
      BY <1>2 DEF CallOK, Call, OnName
    <2> QED BY <1>1, <2>1, <2>2
  <1> QED BY <1>5, <1>6, <1>7, <1>8, <1>9 DEF Client

\* Copies of calls arrive as tasks of their own: on the same connection once,
\* on a new connection with its new number.
LEMMA CopiesArrive ==
    ASSUME BaseInv, \/ \E x \in waiting : Retransmit(x)
                    \/ \E c \in Clients : Reconnect(c)
    PROVE  Grows
PROOF
  <1>1. /\ IsSeq(calls) /\ IsSeq(answers) /\ IsSeq(effects) /\ Len(answers) = Len(calls) /\ Len(effects) = Len(calls)
        /\ conn \in [Clients -> Nat] /\ waiting \subseteq 1 .. Len(calls) /\ \A x \in 1 .. Len(calls) : calls[x].c \in Clients
    BY DEF BaseInv, CallsInv, CallOK
  <1>2. Len(calls) \in Nat
    BY <1>1, LenProperties DEF IsSeq
  <1>3. Longer(calls, calls) /\ Longer(answers, answers) /\ Longer(effects, effects)
    BY <1>1, <1>2 DEF Longer
  <1>4. ASSUME NEW x \in waiting, Retransmit(x) PROVE Grows
    <2> DEFINE t == Task(x, 2)
    <2>1. /\ UNCHANGED <<calls, waiting, conn, answers, fs, life, tracker, effects, expired, owed>>
          /\ t \notin DOMAIN tasks /\ Spawn({t})
      BY <1>4 DEF Retransmit, client
    <2>2. t.xid = x /\ t.conn[1] = calls[x].c /\ t.conn[2] = conn[calls[x].c]
      BY <2>1 DEF Task
    <2>3. calls[x].c \in Clients /\ conn[calls[x].c] \in Nat
      BY <1>1
    <2>4. Arrives(t)
      BY <1>1, <2>1, <2>2, <2>3 DEF Arrives
    <2>5. \A a \in Clients : conn[a] <= conn'[a]
      BY <1>1, <2>1
    <2> HIDE DEF t
    <2> QED BY <1>1, <1>2, <1>3, <2>1, <2>4, <2>5 DEF Grows
  <1>5. ASSUME NEW c \in Clients, Reconnect(c) PROVE Grows
    <2> DEFINE T == {Task(x, 1) : x \in {y \in waiting : calls[y].c = c}}
    <2>1. /\ UNCHANGED <<calls, waiting, answers, fs, life, tracker, effects, expired, owed>>
          /\ conn' = [conn EXCEPT ![c] = @ + 1] /\ Spawn(T)
      BY <1>5 DEF Reconnect
    <2>2. conn' \in [Clients -> Nat] /\ \A a \in Clients : conn[a] <= conn'[a] /\ conn'[c] = conn[c] + 1
      BY <1>1, <2>1
    <2>3. ASSUME NEW t \in T PROVE Arrives(t)
      <3>1. PICK x \in waiting : calls[x].c = c /\ t = Task(x, 1)
        OBVIOUS
      <3>2. t.xid = x /\ t.conn[1] = c /\ t.conn[2] = conn'[c]
        BY <2>1, <3>1 DEF Task
      <3>3. t \notin DOMAIN tasks
        BY <1>1, <2>2, <3>2 DEF BaseInv, TasksInv
      <3> QED BY <1>1, <2>1, <2>2, <3>2, <3>3 DEF Arrives
    <2> HIDE DEF T
    <2> QED BY <1>1, <1>2, <1>3, <2>1, <2>2, <2>3 DEF Grows
  <1> QED BY <1>4, <1>5

\* Every step is one of these.
LEMMA Steps ==
    ASSUME BaseInv, Next
    PROVE  \/ Grows \/ Still \/ Restart
           \/ \E t \in DOMAIN tasks : handle_rpc(t) \/ (Handles(t) /\ Advances(t)) \/ Ends(t)
           \/ \E k \in DOMAIN tracker : housekeeping(k)
PROOF
  <1>1. ASSUME NEW t \in DOMAIN tasks, Run(t) PROVE handle_rpc(t) \/ (Handles(t) /\ Advances(t)) \/ Ends(t)
    BY <1>1, EndSteps, HandlersAdvance DEF Run, Handles
  <1>2. ASSUME NEW c \in Clients, Client(c) PROVE Grows \/ Still
    <2>1. Disconnect(c) => Still
      BY DEF Disconnect, Still
    <2> QED BY <1>2, <2>1, ClientsSend, CopiesArrive
  <1>3. ASSUME NEW x \in waiting, Retransmit(x) PROVE Grows
    BY <1>3, CopiesArrive
  <1> QED BY <1>1, <1>2, <1>3 DEF Next, Server

LEMMA BaseInit == Init => BaseInv
PROOF
  <1> SUFFICES ASSUME Init PROVE BaseInv
    OBVIOUS
  <1>1. IsSeq(<<>>) /\ Len(<<>>) = 0
    <2>1. <<>> \in Seq({})
      OBVIOUS
    <2> QED BY <2>1 DEF IsSeq
  <1>2. CallsInv
    BY <1>1 DEF Init, CallsInv
  <1>3. TasksInv
    BY DEF Init, TasksInv
  <1> QED BY <1>2, <1>3, NfsAssumption DEF Init, BaseInv

LEMMA BaseStep == BaseInv /\ [Next]_vars => BaseInv'
PROOF
  <1> SUFFICES ASSUME BaseInv, [Next]_vars PROVE BaseInv'
    OBVIOUS
  <1>0. /\ IsSeq(calls) /\ IsSeq(answers) /\ IsSeq(effects) /\ Len(answers) = Len(calls) /\ Len(effects) = Len(calls)
        /\ Len(calls) \in Nat /\ life \in Nat \ {0} /\ conn \in [Clients -> Nat]
    BY LenProperties DEF BaseInv, CallsInv, IsSeq
  <1>1. CASE Grows
    <2>1. PICK T : /\ tasks' = [t \in DOMAIN tasks \cup T |-> IF t \in T THEN NewTask ELSE tasks[t]]
                   /\ \A t \in T : Arrives(t)
      BY <1>1 DEF Grows, Spawn
    <2>2. /\ Longer(calls, calls') /\ Longer(answers, answers') /\ Longer(effects, effects')
          /\ Len(calls') \in Nat
      BY <1>1, LenProperties DEF Grows, Longer, IsSeq
    <2>3. CallsInv'
      <3>1. \A x \in 1 .. Len(calls') : CallOK(calls'[x], life)
        BY <1>0, <1>1, <2>2 DEF Grows, Longer, BaseInv, CallsInv
      <3>2. \A x \in 1 .. Len(calls') : IsSeq(answers'[x]) /\ IsSeq(effects'[x])
        <4>1. IsSeq(<<>>)
          <5>1. <<>> \in Seq({})
            OBVIOUS
          <5> QED BY <5>1 DEF IsSeq
        <4> QED BY <1>0, <1>1, <2>2, <4>1 DEF Grows, Longer, BaseInv, CallsInv
      <3> QED BY <1>0, <1>1, <2>2, <3>1, <3>2 DEF Grows, Longer, CallsInv
    <2>4. ASSUME NEW t \in DOMAIN tasks'
          PROVE  /\ t.xid \in 1 .. Len(calls') /\ t.conn[1] \in Clients /\ t.conn[2] \in 0 .. conn'[t.conn[1]]
                 /\ TaskOK(t, tasks'[t], calls'[t.xid])
                 /\ tasks'[t].pc \notin {"rpc", "start", "reply"} => calls'[t.xid].life = life'
      <3>1. CASE t \in T
        <4>1. tasks'[t] = NewTask
          BY <2>1, <3>1
        <4>2. TaskOK(t, NewTask, calls'[t.xid]) /\ NewTask.pc = "rpc"
          BY DEF TaskOK, ShapedTask, NewTask
        <4> QED BY <2>1, <3>1, <4>1, <4>2 DEF Arrives
      <3>2. CASE t \notin T
        <4>1. tasks'[t] = tasks[t] /\ t \in DOMAIN tasks
          BY <2>1, <3>2
        <4>2. /\ t.xid \in 1 .. Len(calls) /\ t.conn[1] \in Clients /\ t.conn[2] \in 0 .. conn[t.conn[1]]
              /\ TaskOK(t, tasks[t], calls[t.xid])
              /\ tasks[t].pc \notin {"rpc", "start", "reply"} => calls[t.xid].life = life
          BY <4>1 DEF BaseInv, TasksInv, CallOf
        <4>3. calls'[t.xid] = calls[t.xid] /\ t.xid \in 1 .. Len(calls')
          BY <1>0, <2>2, <4>2 DEF Longer
        <4>4. conn[t.conn[1]] \in Nat /\ conn'[t.conn[1]] \in Nat /\ conn[t.conn[1]] <= conn'[t.conn[1]] /\ life' = life
          BY <1>0, <1>1, <4>2 DEF Grows
        <4>5. t.conn[2] \in 0 .. conn'[t.conn[1]]
          BY <4>2, <4>4
        <4> QED BY <4>1, <4>2, <4>3, <4>4, <4>5
      <3> QED BY <3>1, <3>2
    <2>5. tasks' = [t \in DOMAIN tasks' |-> tasks'[t]]
      BY <2>1
    <2>6. TasksInv'
      BY <2>4, <2>5 DEF TasksInv, CallOf
    <2> QED BY <1>1, <2>3, <2>6 DEF Grows, BaseInv
  <1>2. CASE Still \/ UNCHANGED vars
    BY <1>2 DEF Still, vars, BaseInv, CallsInv, TasksInv, CallOf
  <1>3. CASE Restart
    <2>1. /\ UNCHANGED <<calls, answers, effects, waiting, conn, fs>> /\ life' = life + 1 /\ tasks' = <<>>
      BY <1>3 DEF Restart
    <2>2. \A x \in 1 .. Len(calls) : CallOK(calls[x], life + 1)
      BY <1>0 DEF BaseInv, CallsInv, CallOK
    <2>3. CallsInv'
      BY <1>0, <2>1, <2>2 DEF BaseInv, CallsInv
    <2>4. TasksInv'
      BY <2>1 DEF TasksInv
    <2> QED BY <2>1, <2>3, <2>4 DEF BaseInv
  <1>4. CASE \E k \in DOMAIN tracker : housekeeping(k)
    BY <1>4 DEF housekeeping, client, BaseInv, CallsInv, TasksInv, CallOf
  <1>5. ASSUME NEW t \in DOMAIN tasks, handle_rpc(t) PROVE BaseInv'
    <2>1. UNCHANGED <<calls, answers, effects, waiting, conn, fs, life>>
      BY <1>5 DEF handle_rpc, Become, client
    <2>2. \/ \E u : /\ tasks' = [tasks EXCEPT ![t] = u] /\ TaskOK(t, u, CallOf(t))
                    /\ u.pc \in {"start", "reply"}
          \/ tasks' = [u \in DOMAIN tasks \ {t} |-> tasks[u]]
      <3>1. ShapedTask(tasks[t]) /\ tasks[t].pc = "rpc" /\ (CallOf(t).proc \in Makes => tasks[t].out = <<>>)
        BY <1>5 DEF BaseInv, TasksInv, TaskOK, handle_rpc
      <3>2. CASE CallOf(t).proc = "BADVERS"
        <4> DEFINE u == [tasks[t] EXCEPT !.pc = "reply", !.out = <<"RPC_MISMATCH">>]
        <4>1. tasks' = [tasks EXCEPT ![t] = u]
          BY <1>5, <3>2 DEF handle_rpc, Become
        <4>2. ShapedTask(u) /\ u.pc = "reply"
          BY <3>1 DEF ShapedTask
        <4>3. TaskOK(t, u, CallOf(t))
          BY <3>2, <4>2 DEF TaskOK
        <4> QED BY <4>1, <4>2, <4>3
      <3>3. CASE CallOf(t).proc # "BADVERS" /\ tasks' = [tasks EXCEPT ![t].pc = "start"]
        <4> DEFINE u == [tasks[t] EXCEPT !.pc = "start"]
        <4>1. tasks' = [tasks EXCEPT ![t] = u]
          BY <3>3
        <4>2. ShapedTask(u) /\ u.pc = "start" /\ u.out = tasks[t].out
          BY <3>1 DEF ShapedTask
        <4>3. TaskOK(t, u, CallOf(t))
          BY <3>1, <3>3, <4>2 DEF TaskOK
        <4> QED BY <4>1, <4>2, <4>3
      <3> QED BY <1>5, <3>2, <3>3 DEF handle_rpc, End, Restrict
    <2>3. TasksInv'
      <3>1. CASE tasks' = [u \in DOMAIN tasks \ {t} |-> tasks[u]]
        BY <2>1, <3>1 DEF BaseInv, TasksInv, CallOf
      <3>2. ASSUME NEW u, tasks' = [tasks EXCEPT ![t] = u], TaskOK(t, u, CallOf(t)), u.pc \in {"start", "reply"}
            PROVE  TasksInv'
        BY <2>1, <3>2 DEF BaseInv, TasksInv, CallOf
      <3> QED BY <2>2, <3>1, <3>2
    <2> QED BY <2>1, <2>3 DEF BaseInv, CallsInv
  <1>6. ASSUME NEW t \in DOMAIN tasks, Advances(t) PROVE BaseInv'
    <2>1. UNCHANGED <<calls, answers, waiting, conn, life>> /\ FsOK(fs')
      BY <1>6 DEF Advances
    <2>2. PICK u : /\ tasks' = [tasks EXCEPT ![t] = u] /\ ShapedTask(u) /\ u.pc \notin {"rpc", "start"}
                   /\ u.pc = "reply" \/ CallOf(t).life = life
                   /\ effects' = effects \/ Ran(t)
                   /\ Creates(t, u)
      BY <1>6 DEF Advances
    <2>3. TaskOK(t, u, CallOf(t))
      <3>1. CallOf(t).proc # "BADVERS"
        BY <1>6 DEF Advances, BaseInv, TasksInv, TaskOK
      <3> QED BY <2>2, <3>1 DEF TaskOK, Creates
    <2>4. TasksInv'
      BY <2>1, <2>2, <2>3 DEF BaseInv, TasksInv, CallOf
    <2>5. IsSeq(effects') /\ Len(effects') = Len(calls) /\ \A x \in 1 .. Len(calls) : IsSeq(effects'[x])
      <3>1. CASE effects' = effects
        BY <3>1 DEF BaseInv, CallsInv
      <3>2. CASE Ran(t)
        <4> DEFINE e == Append(effects[t.xid], <<t.conn, life>>)
        <4>1. t.xid \in 1 .. Len(effects) /\ IsSeq(effects[t.xid])
          BY <1>0 DEF BaseInv, TasksInv, CallsInv
        <4>2. IsSeq(e)
          BY <4>1, Added DEF Longer
        <4>3. effects' = [effects EXCEPT ![t.xid] = e]
          BY <3>2 DEF Ran
        <4> HIDE DEF e
        <4>4. PICK S : effects \in Seq(S)
          BY <1>0 DEF IsSeq
        <4>5. effects \in Seq(S \cup {e})
          BY <4>4
        <4>6. effects' \in Seq(S \cup {e}) /\ Len(effects') = Len(effects)
          BY <4>1, <4>3, <4>5
        <4>7. \A x \in 1 .. Len(effects) : effects'[x] = IF x = t.xid THEN e ELSE effects[x]
          BY <4>3, <4>4
        <4>8. IsSeq(effects')
          BY <4>6 DEF IsSeq
        <4> QED BY <1>0, <4>2, <4>6, <4>7, <4>8 DEF BaseInv, CallsInv
      <3> QED BY <2>2, <3>1, <3>2
    <2>6. CallsInv'
      BY <1>0, <2>1, <2>5 DEF BaseInv, CallsInv
    <2> QED BY <2>1, <2>4, <2>6 DEF BaseInv
  <1>7. ASSUME NEW t \in DOMAIN tasks, Ends(t) PROVE BaseInv'
    <2>1. /\ UNCHANGED <<calls, effects, conn, fs, life>> /\ waiting' \subseteq waiting
          /\ tasks' = [u \in DOMAIN tasks \ {t} |-> tasks[u]]
      BY <1>7 DEF Ends
    <2>2. TasksInv'
      BY <2>1 DEF BaseInv, TasksInv, CallOf
    <2>3. IsSeq(answers') /\ Len(answers') = Len(calls) /\ \A x \in 1 .. Len(calls) : IsSeq(answers'[x])
      <3>1. CASE answers' = answers
        BY <3>1 DEF BaseInv, CallsInv
      <3>2. ASSUME NEW a, answers' = [answers EXCEPT ![t.xid] = Append(@, a)] PROVE IsSeq(answers') /\ Len(answers') = Len(calls) /\ \A x \in 1 .. Len(calls) : IsSeq(answers'[x])
        <4> DEFINE e == Append(answers[t.xid], a)
        <4>1. t.xid \in 1 .. Len(answers) /\ IsSeq(answers[t.xid])
          BY <1>0 DEF BaseInv, TasksInv, CallsInv
        <4>2. IsSeq(e)
          BY <4>1, Added DEF Longer
        <4>3. answers' = [answers EXCEPT ![t.xid] = e]
          BY <3>2
        <4> HIDE DEF e
        <4>4. PICK S : answers \in Seq(S)
          BY <1>0 DEF IsSeq
        <4>5. answers \in Seq(S \cup {e})
          BY <4>4
        <4>6. answers' \in Seq(S \cup {e}) /\ Len(answers') = Len(answers)
          BY <4>1, <4>3, <4>5
        <4>7. \A x \in 1 .. Len(answers) : answers'[x] = IF x = t.xid THEN e ELSE answers[x]
          BY <4>3, <4>4
        <4>8. IsSeq(answers')
          BY <4>6 DEF IsSeq
        <4> QED BY <1>0, <4>2, <4>6, <4>7, <4>8 DEF BaseInv, CallsInv
      <3> QED BY <1>7, <3>1, <3>2 DEF Ends
    <2>4. CallsInv'
      BY <1>0, <2>1, <2>3 DEF BaseInv, CallsInv
    <2> QED BY <2>1, <2>2, <2>4 DEF BaseInv
  <1> QED BY <1>1, <1>2, <1>3, <1>4, <1>5, <1>6, <1>7, Steps
(***************************************************************************)
(* The request tracker.  A task that handle_rpc let through is the only    *)
(* one of its key, and the tracker holds the key as InProgress; so a       *)
(* call's operation cannot have run when a task of its key still has to    *)
(* run it.                                                                 *)
(***************************************************************************)
Past(t) == tasks[t].pc # "rpc" /\ CallOf(t).proc # "BADVERS"
TrackInv ==
    /\ \A t \in DOMAIN tasks : Past(t) => /\ <<t.xid, t.conn>> \in DOMAIN tracker
                                          /\ tracker[<<t.xid, t.conn>>] = "InProgress"
    /\ \A t, u \in DOMAIN tasks : Past(t) /\ Past(u) /\ t.xid = u.xid /\ t.conn = u.conn => t = u

OnceInv ==
    \A x \in 1 .. Len(effects) :
       /\ \A j \in DOMAIN effects[x] : effects[x][j][2] = calls[x].life
       /\ x \notin expired =>
             /\ IsInjective(effects[x])
             /\ calls[x].life = life => \A j \in DOMAIN effects[x] : <<x, effects[x][j][1]>> \in DOMAIN tracker
             /\ \A t \in DOMAIN tasks : t.xid = x /\ tasks[t].pc \notin {"rpc", "reply"} =>
                   \A j \in DOMAIN effects[x] : effects[x][j] # <<t.conn, life>>

(***************************************************************************)
(* Set-id bits: the write that saw them has not yet taken them away.       *)
(***************************************************************************)
OwedInv ==
    /\ AttrsOK(fs)
    /\ SetIdGoes
    /\ \A t \in DOMAIN tasks : In(t, "WRITE", "clear") => Kept(t) \cap SetId = {}

(***************************************************************************)
(* New inodes: x has been told, or is about to be told, that it made i.    *)
(***************************************************************************)
Told(x, i) == \E k \in DOMAIN answers[x] : answers[x][k].st = "OK" /\ answers[x][k].id = i
ToBeTold(x, i) == \E t \in DOMAIN tasks : /\ t.xid = x /\ tasks[t].pc = "reply"
                                          /\ Head(tasks[t].out) = "OK" /\ tasks[t].made = i
Claims(x, i) == x \in 1 .. Len(calls) /\ calls[x].proc \in Makes /\ (Told(x, i) \/ ToBeTold(x, i))
CreatorInv ==
    /\ \A x, i : Claims(x, i) => i \in Nat /\ i < fs.next
    /\ \A x, y, i : Claims(x, i) /\ Claims(y, i) => x = y

LEMMA TrackStep == BaseInv /\ TrackInv /\ [Next]_vars => TrackInv'
PROOF
  <1> SUFFICES ASSUME BaseInv, TrackInv, [Next]_vars PROVE TrackInv'
    OBVIOUS
  <1>0. \A t \in DOMAIN tasks : t.xid \in 1 .. Len(calls)
    BY DEF BaseInv, TasksInv
  <1>1. CASE Grows
    <2>1. PICK T : /\ tasks' = [t \in DOMAIN tasks \cup T |-> IF t \in T THEN NewTask ELSE tasks[t]]
                   /\ \A t \in T : Arrives(t)
      BY <1>1 DEF Grows, Spawn
    <2>2. \A t \in DOMAIN tasks' : Past(t)' => t \in DOMAIN tasks /\ Past(t)
      <3> SUFFICES ASSUME NEW t \in DOMAIN tasks', Past(t)' PROVE t \in DOMAIN tasks /\ Past(t)
        OBVIOUS
      <3>1. t \notin T
        BY <2>1 DEF Past, NewTask
      <3>2. t \in DOMAIN tasks /\ tasks'[t] = tasks[t]
        BY <2>1, <3>1
      <3>3. calls'[t.xid] = calls[t.xid]
        BY <1>0, <1>1, <3>2 DEF Grows, Longer
      <3> QED BY <3>2, <3>3 DEF Past, CallOf
    <2> QED BY <1>1, <2>2 DEF TrackInv, Grows
  <1>2. CASE Still \/ UNCHANGED vars
    BY <1>2 DEF Still, vars, TrackInv, Past, CallOf
  <1>3. CASE Restart
    BY <1>3 DEF Restart, TrackInv
  <1>4. ASSUME NEW k \in DOMAIN tracker, housekeeping(k) PROVE TrackInv'
    <2>1. /\ tasks' = tasks /\ calls' = calls /\ tracker[k] = "Completed"
          /\ tracker' = [x \in DOMAIN tracker \ {k} |-> tracker[x]]
      BY <1>4 DEF housekeeping, client
    <2> QED BY <2>1 DEF TrackInv, Past, CallOf
  <1>5. ASSUME NEW t \in DOMAIN tasks, handle_rpc(t) PROVE TrackInv'
    <2> DEFINE key == <<t.xid, t.conn>>
    <2>1. calls' = calls
      BY <1>5 DEF handle_rpc, Become, client
    <2>2. CASE CallOf(t).proc = "BADVERS"
      <3>1. \E u : tasks' = [tasks EXCEPT ![t] = u] /\ UNCHANGED tracker
        BY <1>5, <2>2 DEF handle_rpc, Become
      <3>2. \A u \in DOMAIN tasks' : u \in DOMAIN tasks /\ (Past(u)' => Past(u))
        BY <2>1, <2>2, <3>1 DEF Past, CallOf
      <3> QED BY <3>1, <3>2 DEF TrackInv
    <2>3. CASE CallOf(t).proc # "BADVERS" /\ is_retransmission(key)
      <3>1. tasks' = [u \in DOMAIN tasks \ {t} |-> tasks[u]] /\ UNCHANGED tracker
        BY <1>5, <2>3 DEF handle_rpc, End, Restrict
      <3> QED BY <2>1, <3>1 DEF TrackInv, Past, CallOf
    <2>4. CASE CallOf(t).proc # "BADVERS" /\ ~is_retransmission(key)
      <3>1. tasks' = [tasks EXCEPT ![t].pc = "start"] /\ Mark(key, "InProgress")
        BY <1>5, <2>4 DEF handle_rpc
      <3>2. key \notin DOMAIN tracker
        BY <2>4 DEF is_retransmission
      <3>3. \A u \in DOMAIN tasks' : u \in DOMAIN tasks /\ (Past(u)' => u = t \/ Past(u))
        BY <2>1, <3>1 DEF Past, CallOf
      <3>4. \A x : x \in DOMAIN tracker' <=> x = key \/ x \in DOMAIN tracker
        BY <3>1 DEF Mark
      <3>5. tracker'[key] = "InProgress" /\ \A x \in DOMAIN tracker : x # key => tracker'[x] = tracker[x]
        BY <3>1 DEF Mark
      <3>6. \A u \in DOMAIN tasks : Past(u) => <<u.xid, u.conn>> # key
        BY <3>2 DEF TrackInv
      <3>7. \A u \in DOMAIN tasks : Past(u) => ~(u.xid = t.xid /\ u.conn = t.conn)
        BY <3>6
      <3> HIDE DEF key
      <3>8. ASSUME NEW u \in DOMAIN tasks', Past(u)'
            PROVE  <<u.xid, u.conn>> \in DOMAIN tracker' /\ tracker'[<<u.xid, u.conn>>] = "InProgress"
        <4>1. CASE u = t
          BY <3>4, <3>5, <4>1 DEF key
        <4>2. CASE u # t
          <5>1. Past(u) /\ u \in DOMAIN tasks
            BY <3>3, <3>8, <4>2
          <5>2. /\ <<u.xid, u.conn>> \in DOMAIN tracker /\ tracker[<<u.xid, u.conn>>] = "InProgress"
                /\ <<u.xid, u.conn>> # key
            BY <3>6, <5>1 DEF TrackInv
          <5> QED BY <3>4, <3>5, <5>2
        <4> QED BY <4>1, <4>2
      <3>9. ASSUME NEW u \in DOMAIN tasks', NEW w \in DOMAIN tasks', Past(u)', Past(w)', u.xid = w.xid, u.conn = w.conn
            PROVE  u = w
        BY <3>3, <3>7, <3>9 DEF TrackInv
      <3> QED BY <3>8, <3>9 DEF TrackInv
    <2> QED BY <2>2, <2>3, <2>4
  <1>6. ASSUME NEW t \in DOMAIN tasks, Advances(t) PROVE TrackInv'
    <2>1. /\ UNCHANGED <<calls, tracker>> /\ tasks[t].pc # "rpc"
          /\ \E u : tasks' = [tasks EXCEPT ![t] = u]
      BY <1>6 DEF Advances
    <2>2. \A u \in DOMAIN tasks' : u \in DOMAIN tasks /\ (Past(u)' => Past(u))
      BY <2>1 DEF Past, CallOf
    <2> QED BY <2>1, <2>2 DEF TrackInv
  <1>7. ASSUME NEW t \in DOMAIN tasks, Ends(t) PROVE TrackInv'
    <2> DEFINE key == <<t.xid, t.conn>>
    <2>1. /\ calls' = calls /\ mark_processed(t) /\ tasks' = [u \in DOMAIN tasks \ {t} |-> tasks[u]]
          /\ tasks[t].pc # "rpc"
      BY <1>7 DEF Ends
    <2>2. \A u \in DOMAIN tasks' : u \in DOMAIN tasks /\ u # t /\ (Past(u)' => Past(u))
      BY <2>1 DEF Past, CallOf
    <2>3. \A x \in DOMAIN tracker : x \in DOMAIN tracker' /\ (x # key => tracker'[x] = tracker[x])
      BY <2>1 DEF mark_processed, Mark
    <2>4. \A u \in DOMAIN tasks : u # t /\ Past(u) => ~(u.xid = t.xid /\ u.conn = t.conn)
      BY <2>1 DEF TrackInv, Past, CallOf
    <2>5. \A u \in DOMAIN tasks : u # t /\ Past(u) => <<u.xid, u.conn>> # key
      BY <2>4
    <2> HIDE DEF key
    <2> QED BY <2>2, <2>3, <2>5 DEF TrackInv
  <1> QED BY <1>1, <1>2, <1>3, <1>4, <1>5, <1>6, <1>7, Steps

LEMMA OnceStep == BaseInv /\ TrackInv /\ OnceInv /\ [Next]_vars => OnceInv'
PROOF
  <1> SUFFICES ASSUME BaseInv, TrackInv, OnceInv, [Next]_vars PROVE OnceInv'
    OBVIOUS
  <1>0. /\ Len(effects) = Len(calls) /\ Len(calls) \in Nat /\ life \in Nat \ {0}
        /\ \A t \in DOMAIN tasks : t.xid \in 1 .. Len(effects)
        /\ \A x \in 1 .. Len(effects) : IsSeq(effects[x]) /\ calls[x].life \in 1 .. life
    BY LenProperties DEF BaseInv, CallsInv, TasksInv, CallOK, IsSeq
  <1>1. CASE Grows
    <2>1. PICK T : /\ tasks' = [t \in DOMAIN tasks \cup T |-> IF t \in T THEN NewTask ELSE tasks[t]]
                   /\ \A t \in T : Arrives(t)
      BY <1>1 DEF Grows, Spawn
    <2>2. UNCHANGED <<life, tracker, expired>> /\ Longer(calls, calls') /\ Longer(effects, effects')
      BY <1>1 DEF Grows
    <2>3. \A t \in DOMAIN tasks' : tasks'[t].pc \notin {"rpc", "reply"} => t \in DOMAIN tasks /\ tasks'[t] = tasks[t]
      BY <2>1 DEF NewTask
    <2>4. ASSUME NEW x \in 1 .. Len(effects')
          PROVE  effects'[x] = <<>> \/ (x \in 1 .. Len(effects) /\ effects'[x] = effects[x] /\ calls'[x] = calls[x])
      BY <1>0, <1>1, <2>2 DEF Grows, Longer
    <2>5. DOMAIN <<>> = {} /\ IsInjective(<<>>)
      BY DEF IsInjective
    <2> QED BY <2>2, <2>3, <2>4, <2>5 DEF OnceInv
  <1>2. CASE Still \/ UNCHANGED vars
    BY <1>2 DEF Still, vars, OnceInv
  <1>3. CASE Restart
    <2>1. UNCHANGED <<calls, effects, expired>> /\ life' = life + 1 /\ tasks' = <<>>
      BY <1>3 DEF Restart
    <2>2. \A x \in 1 .. Len(effects) : calls[x].life # life'
      BY <1>0, <2>1
    <2> QED BY <2>1, <2>2 DEF OnceInv
  <1>4. ASSUME NEW k \in DOMAIN tracker, housekeeping(k) PROVE OnceInv'
    <2>1. /\ UNCHANGED <<tasks, calls, effects, life>> /\ expired' = expired \cup {k[1]}
          /\ \A x \in DOMAIN tracker : x # k => x \in DOMAIN tracker'
      BY <1>4 DEF housekeeping, client
    <2>2. \A x, c : x # k[1] => <<x, c>> # k
      OBVIOUS
    <2> QED BY <2>1, <2>2 DEF OnceInv
  <1>5. ASSUME NEW t \in DOMAIN tasks, handle_rpc(t) PROVE OnceInv'
    <2> DEFINE key == <<t.xid, t.conn>>
    <2>1. UNCHANGED <<calls, effects, life, expired>>
      BY <1>5 DEF handle_rpc, Become, client
    <2>2. CASE CallOf(t).proc = "BADVERS" \/ is_retransmission(key)
      <3>1. UNCHANGED tracker
        BY <1>5, <2>2 DEF handle_rpc, Become
      <3>2. \A u \in DOMAIN tasks' : tasks'[u].pc \notin {"rpc", "reply"} => u \in DOMAIN tasks /\ tasks'[u] = tasks[u]
        <4>1. CASE CallOf(t).proc = "BADVERS"
          <5> DEFINE w == [tasks[t] EXCEPT !.pc = "reply", !.out = <<"RPC_MISMATCH">>]
          <5>1. tasks' = [tasks EXCEPT ![t] = w]
            BY <1>5, <4>1 DEF handle_rpc, Become
          <5>2. w.pc = "reply"
            BY DEF BaseInv, TasksInv, TaskOK, ShapedTask
          <5> HIDE DEF w
          <5> QED BY <5>1, <5>2
        <4>2. CASE CallOf(t).proc # "BADVERS"
          BY <1>5, <2>2, <4>2 DEF handle_rpc, End, Restrict
        <4> QED BY <4>1, <4>2
      <3> QED BY <2>1, <3>1, <3>2 DEF OnceInv
    <2>3. CASE CallOf(t).proc # "BADVERS" /\ ~is_retransmission(key)
      <3>1. tasks' = [tasks EXCEPT ![t].pc = "start"] /\ Mark(key, "InProgress")
        BY <1>5, <2>3 DEF handle_rpc
      <3>2. \A x \in DOMAIN tracker : x \in DOMAIN tracker'
        BY <3>1 DEF Mark
      <3>3. \A u \in DOMAIN tasks' : u \in DOMAIN tasks /\ (u # t => tasks'[u] = tasks[u])
        BY <3>1
      <3>4. ASSUME t.xid \notin expired, NEW j \in DOMAIN effects[t.xid] PROVE effects[t.xid][j] # <<t.conn, life>>
        <4>1. SUFFICES ASSUME effects[t.xid][j] = <<t.conn, life>> PROVE FALSE
          OBVIOUS
        <4>2. effects[t.xid][j][1] = t.conn /\ effects[t.xid][j][2] = life
          BY <4>1
        <4>3. calls[t.xid].life = life
          BY <1>0, <4>2 DEF OnceInv
        <4>4. <<t.xid, effects[t.xid][j][1]>> \in DOMAIN tracker
          BY <1>0, <3>4, <4>3 DEF OnceInv
        <4> QED BY <2>3, <4>2, <4>4 DEF is_retransmission
      <3> HIDE DEF key
      <3> QED BY <2>1, <3>2, <3>3, <3>4 DEF OnceInv
    <2> QED BY <2>2, <2>3
  <1>6. ASSUME NEW t \in DOMAIN tasks, Advances(t) PROVE OnceInv'
    <2>1. UNCHANGED <<calls, tracker, life, expired>> /\ tasks[t].pc \notin {"rpc", "reply"}
      BY <1>6 DEF Advances
    <2>2. PICK u : /\ tasks' = [tasks EXCEPT ![t] = u]
                   /\ effects' = effects \/ (tasks[t].pc # "start" /\ u.pc = "reply" /\ Ran(t))
      BY <1>6 DEF Advances
    <2>3. \A w \in DOMAIN tasks' : w \in DOMAIN tasks /\ tasks'[w] = IF w = t THEN u ELSE tasks[w]
      BY <2>2
    <2>4. CASE effects' = effects
      BY <2>1, <2>3, <2>4 DEF OnceInv
    <2>5. CASE tasks[t].pc # "start" /\ u.pc = "reply" /\ Ran(t)
      <3> DEFINE x == t.xid
                 e == Append(effects[x], <<t.conn, life>>)
                 n == Len(effects[x])
      <3>1. Past(t) /\ CallOf(t).life = life
        BY <2>1, <2>5 DEF BaseInv, TasksInv, TaskOK, Past
      <3>2. /\ IsSeq(effects[x]) /\ x \in 1 .. Len(effects) /\ DOMAIN effects[x] = 1 .. n
        BY <1>0, LenProperties DEF IsSeq
      <3>3. n \in Nat /\ Len(e) = n + 1 /\ e[n + 1] = <<t.conn, life>> /\ IsSeq(e) /\ \A j \in 1 .. n : e[j] = effects[x][j]
        BY <3>2, Added DEF Longer
      <3>4. effects' = [effects EXCEPT ![x] = e]
        BY <2>5 DEF Ran
      <3> HIDE DEF e
      <3>5. DOMAIN e = 1 .. (n + 1)
        BY <3>3, LenProperties DEF IsSeq
      <3>6. \A j \in DOMAIN e : e[j] = <<t.conn, life>> \/ (j \in DOMAIN effects[x] /\ e[j] = effects[x][j])
        BY <3>2, <3>3, <3>5
      <3>7. \A y \in 1 .. Len(effects) : effects'[y] = IF y = x THEN e ELSE effects[y]
        <4>1. DOMAIN effects = 1 .. Len(effects)
          BY LenProperties DEF BaseInv, CallsInv, IsSeq
        <4> QED BY <3>4, <4>1
      <3>8. Len(effects') = Len(effects)
        <4>1. BaseInv'
          BY BaseStep
        <4> QED BY <1>0, <2>1, <4>1 DEF BaseInv, CallsInv
      <3>9. \A j \in DOMAIN e : e[j][2] = calls[x].life
        BY <3>1, <3>2, <3>6 DEF OnceInv, CallOf
      <3>10. ASSUME x \notin expired PROVE IsInjective(e)
        <4>1. IsInjective(effects[x]) /\ \A j \in DOMAIN effects[x] : effects[x][j] # <<t.conn, life>>
          BY <2>1, <3>2, <3>10 DEF OnceInv
        <4>2. ASSUME NEW i \in 1 .. (n + 1), NEW j \in 1 .. (n + 1), e[i] = e[j] PROVE i = j
          <5>1. CASE i \in 1 .. n /\ j \in 1 .. n
            BY <3>2, <3>3, <4>1, <4>2, <5>1 DEF IsInjective
          <5>2. CASE i = n + 1 /\ j \in 1 .. n
            BY <3>2, <3>3, <4>1, <4>2, <5>2
          <5>3. CASE j = n + 1 /\ i \in 1 .. n
            BY <3>2, <3>3, <4>1, <4>2, <5>3
          <5>4. CASE i = n + 1 /\ j = n + 1
            BY <5>4
          <5>5. (i \in 1 .. n \/ i = n + 1) /\ (j \in 1 .. n \/ j = n + 1)
            BY <3>3
          <5> QED BY <5>1, <5>2, <5>3, <5>4, <5>5
        <4> QED BY <3>5, <4>2 DEF IsInjective
      <3>11. ASSUME x \notin expired PROVE \A j \in DOMAIN e : <<x, e[j][1]>> \in DOMAIN tracker
        <4>1. <<x, t.conn>> \in DOMAIN tracker
          BY <3>1 DEF TrackInv
        <4>2. \A j \in DOMAIN effects[x] : <<x, effects[x][j][1]>> \in DOMAIN tracker
          BY <3>1, <3>2, <3>11 DEF OnceInv, CallOf
        <4> QED BY <3>6, <4>1, <4>2
      <3>12. ASSUME x \notin expired, NEW w \in DOMAIN tasks', w.xid = x, tasks'[w].pc \notin {"rpc", "reply"}, NEW j \in DOMAIN e
             PROVE  e[j] # <<w.conn, life>>
        <4>1. w # t /\ w \in DOMAIN tasks /\ tasks[w].pc \notin {"rpc", "reply"}
          BY <2>3, <2>5, <3>12
        <4>2. Past(w)
          BY <4>1 DEF Past, BaseInv, TasksInv, TaskOK
        <4>3. w.conn # t.conn
          BY <3>1, <3>12, <4>1, <4>2 DEF TrackInv
        <4>4. \A i \in DOMAIN effects[x] : effects[x][i] # <<w.conn, life>>
          BY <3>2, <3>12, <4>1 DEF OnceInv
        <4> QED BY <3>6, <4>3, <4>4
      <3>13. ASSUME NEW y \in 1 .. Len(effects'), y # x
             PROVE  effects'[y] = effects[y] /\ y \in 1 .. Len(effects)
        BY <3>7, <3>8, <3>13
      <3>14. effects'[x] = e
        BY <3>2, <3>7
      <3>15. \A w \in DOMAIN tasks' : tasks'[w].pc \notin {"rpc", "reply"} => w \in DOMAIN tasks /\ tasks'[w] = tasks[w]
        BY <2>3, <2>5
      <3> HIDE DEF x
      <3> DEFINE Good(y) ==
            /\ \A j \in DOMAIN effects'[y] : effects'[y][j][2] = calls[y].life
            /\ y \notin expired =>
                  /\ IsInjective(effects'[y])
                  /\ calls[y].life = life => \A j \in DOMAIN effects'[y] : <<y, effects'[y][j][1]>> \in DOMAIN tracker
                  /\ \A w \in DOMAIN tasks' : w.xid = y /\ tasks'[w].pc \notin {"rpc", "reply"} =>
                        \A j \in DOMAIN effects'[y] : effects'[y][j] # <<w.conn, life>>
      <3>16. Good(x)
        BY <3>9, <3>10, <3>11, <3>12, <3>14
      <3>17. ASSUME NEW y \in 1 .. Len(effects'), y # x PROVE Good(y)
        <4>1. effects'[y] = effects[y] /\ y \in 1 .. Len(effects)
          BY <3>13, <3>17
        <4>2. /\ \A j \in DOMAIN effects[y] : effects[y][j][2] = calls[y].life
              /\ y \notin expired =>
                   /\ IsInjective(effects[y])
                   /\ calls[y].life = life => \A j \in DOMAIN effects[y] : <<y, effects[y][j][1]>> \in DOMAIN tracker
                   /\ \A w \in DOMAIN tasks : w.xid = y /\ tasks[w].pc \notin {"rpc", "reply"} =>
                         \A j \in DOMAIN effects[y] : effects[y][j] # <<w.conn, life>>
          BY <4>1 DEF OnceInv
        <4> QED BY <3>15, <4>1, <4>2
      <3>18. \A y \in 1 .. Len(effects') : Good(y)
        BY <3>16, <3>17
      <3> QED BY <2>1, <3>18 DEF OnceInv
    <2> QED BY <2>2, <2>4, <2>5
  <1>7. ASSUME NEW t \in DOMAIN tasks, Ends(t) PROVE OnceInv'
    <2>1. UNCHANGED <<calls, effects, life, expired>> /\ tasks' = [u \in DOMAIN tasks \ {t} |-> tasks[u]]
      BY <1>7 DEF Ends
    <2>2. \A x \in DOMAIN tracker : x \in DOMAIN tracker'
      BY <1>7 DEF Ends, mark_processed, Mark
    <2> QED BY <2>1, <2>2 DEF OnceInv
  <1> QED BY <1>1, <1>2, <1>3, <1>4, <1>5, <1>6, <1>7, Steps
(***************************************************************************)
(* What the operations do to the modes of files: only SETATTR and the      *)
(* second half of WRITE change them, and new files have no set-id bits.    *)
(***************************************************************************)
Tame(f, g) == AttrsOK(g) /\ \A j : HasSetId(g, j) => HasSetId(f, j)

LEMMA TouchTame ==
    ASSUME NEW f, FsOK(f), AttrsOK(f), NEW i, Exists(f, i)
    PROVE  /\ Tame(f, Touch(f, i)) /\ DOMAIN Touch(f, i).attr = DOMAIN f.attr
           /\ \A j \in DOMAIN f.attr : Touch(f, i).attr[j].mode = f.attr[j].mode
PROOF
  <1> DEFINE g == Touch(f, i)
  <1>1. f \in [dentry : {f.dentry}, attr : {f.attr}, next : {f.next}] /\ f.attr = [j \in DOMAIN f.attr |-> f.attr[j]]
    BY FsParts
  <1>2. g.attr = [j \in DOMAIN f.attr |-> IF j = i THEN [f.attr[i] EXCEPT !.ctime = @ + 1] ELSE f.attr[j]]
    BY <1>1 DEF Touch, Exists
  <1>3. \A j \in DOMAIN f.attr :
           f.attr[j] = [kind |-> f.attr[j].kind, uid |-> f.attr[j].uid, gid |-> f.attr[j].gid,
                        mode |-> f.attr[j].mode, ctime |-> f.attr[j].ctime]
    BY DEF AttrsOK
  <1> HIDE DEF g
  <1>4. \A j \in DOMAIN f.attr : g.attr[j] = IF j = i THEN [f.attr[i] EXCEPT !.ctime = @ + 1] ELSE f.attr[j]
    BY <1>2
  <1>5. ASSUME NEW j \in DOMAIN f.attr
        PROVE  LET a == g.attr[j]
               IN /\ a = [kind |-> a.kind, uid |-> a.uid, gid |-> a.gid, mode |-> a.mode, ctime |-> a.ctime]
                  /\ a.mode = f.attr[j].mode
    <2>1. CASE j # i
      BY <1>3, <1>4, <2>1
    <2>2. CASE j = i
      <3> DEFINE a == f.attr[i]
                 b == [kind |-> a.kind, uid |-> a.uid, gid |-> a.gid, mode |-> a.mode, ctime |-> a.ctime + 1]
      <3>1. a = [kind |-> a.kind, uid |-> a.uid, gid |-> a.gid, mode |-> a.mode, ctime |-> a.ctime]
        BY <1>3, <2>2
      <3>2. g.attr[j] = [a EXCEPT !.ctime = @ + 1]
        BY <1>4, <2>2
      <3> HIDE DEF a
      <3>3. [a EXCEPT !.ctime = @ + 1] = b
        BY <3>1
      <3> QED BY <2>2, <3>2, <3>3 DEF a
    <2> QED BY <2>1, <2>2
  <1>6. DOMAIN g.attr = DOMAIN f.attr
    BY <1>2
  <1> QED BY <1>5, <1>6 DEF g, Tame, AttrsOK, HasSetId, Exists

LEMMA InsertTame ==
    ASSUME NEW f, FsOK(f), AttrsOK(f), NEW d, NEW n, NEW kind, NEW mode, mode \cap SetId = {}, NEW auth
    PROVE  Tame(f, Insert(f, d, n, kind, mode, auth).fs)
PROOF
  <1> DEFINE i == f.next
             a == [kind |-> kind, uid |-> auth.uid, gid |-> Max(auth.gids), mode |-> mode, ctime |-> 0]
             g == [f EXCEPT !.next = i + 1,
                            !.attr = [j \in DOMAIN @ \cup {i} |-> IF j = i THEN a ELSE @[j]],
                            !.dentry = [s \in DOMAIN @ \cup {<<d, n>>} |-> IF s = <<d, n>> THEN i ELSE @[s]]]
             r == Insert(f, d, n, kind, mode, auth)
  <1>1. r.fs = f \/ r.fs = g
    BY DEF Insert, Done, Failed
  <1>2. f \in [dentry : {f.dentry}, attr : {f.attr}, next : {f.next}]
    BY FsParts
  <1> DEFINE u == auth.uid
             o == Max(auth.gids)
  <1>3. a = [kind |-> kind, uid |-> u, gid |-> o, mode |-> mode, ctime |-> 0]
    OBVIOUS
  <1> HIDE DEF u, o, a
  <1>4. g.attr = [j \in DOMAIN f.attr \cup {i} |-> IF j = i THEN a ELSE f.attr[j]]
    BY <1>2
  <1> HIDE DEF g
  <1>5. a = [kind |-> a.kind, uid |-> a.uid, gid |-> a.gid, mode |-> a.mode, ctime |-> a.ctime] /\ a.mode = mode
    BY <1>3
  <1>6. ASSUME NEW j \in DOMAIN g.attr
        PROVE  (j = i /\ g.attr[j] = a) \/ (j \in DOMAIN f.attr /\ g.attr[j] = f.attr[j])
    BY <1>4, <1>6
  <1>7. Tame(f, g)
    BY <1>5, <1>6 DEF Tame, AttrsOK, HasSetId, Exists
  <1>8. Tame(f, f)
    BY DEF Tame
  <1> HIDE DEF r
  <1> QED BY <1>1, <1>7, <1>8 DEF r

LEMMA DropTame ==
    ASSUME NEW f, FsOK(f), AttrsOK(f), NEW s
    PROVE  Tame(f, Drop(f, s))
PROOF
  <1> DEFINE i == f.dentry[s]
             keep == IF IsDir(f, i) \/ Cardinality(NamesOf(f, i)) > 1 THEN DOMAIN f.attr ELSE DOMAIN f.attr \ {i}
             g == Drop(f, s)
  <1>1. f \in [dentry : {f.dentry}, attr : {f.attr}, next : {f.next}]
    BY FsParts
  <1>2. g = [f EXCEPT !.dentry = [x \in DOMAIN @ \ {s} |-> @[x]], !.attr = [j \in keep |-> @[j]]] /\ keep \subseteq DOMAIN f.attr
    BY DEF Drop
  <1> HIDE DEF keep, g
  <1>3. g.attr = [j \in keep |-> f.attr[j]]
    BY <1>1, <1>2
  <1>4. DOMAIN g.attr \subseteq DOMAIN f.attr /\ \A j \in DOMAIN g.attr : g.attr[j] = f.attr[j]
    BY <1>2, <1>3
  <1> QED BY <1>4 DEF g, Tame, AttrsOK, HasSetId, Exists

LEMMA NamedTame ==
    ASSUME NEW f, FsOK(f), NEW S, NEW s, NEW i
    PROVE  Named(f, S, s, i).attr = f.attr
PROOF
  <1>1. f \in [dentry : {f.dentry}, attr : {f.attr}, next : {f.next}]
    BY FsParts
  <1> QED BY <1>1 DEF Named

\* Every operation but setattr, on inodes and names there may be.
LEMMA OperationsTame ==
    ASSUME NEW f, FsOK(f), AttrsOK(f), NEW i, NEW auth
    PROVE  /\ Tame(f, f) /\ Tame(f, vfs_write(f, i).fs)
           /\ \A d, n : /\ Tame(f, vfs_remove(f, d, n).fs)
                        /\ \A r \in {vfs_create(f, d, n, auth), vfs_create_exclusive(f, d, n, auth),
                                     vfs_mkdir(f, d, n, auth), vfs_mknod(f, d, n, auth), vfs_symlink(f, d, n, auth)} :
                              Tame(f, r.fs)
           /\ \A d \in Ids, n \in Names : Tame(f, vfs_link(f, i, d, n).fs)
           /\ \A d, n : \A e \in Ids, m \in Names : <<d, n>> # <<e, m>> => Tame(f, vfs_rename(f, d, n, e, m).fs)
PROOF
  <1>1. Tame(f, f)
    BY DEF Tame
  <1>2. \A st : Failed(f, st).fs = f
    BY DEF Failed
  <1>3. \A g, j : Done(g, j).fs = g
    BY DEF Done
  <1>4. Tame(f, vfs_write(f, i).fs)
    BY <1>1, <1>2, <1>3, TouchTame DEF vfs_write
  <1>5. ASSUME NEW d, NEW n PROVE Tame(f, vfs_remove(f, d, n).fs)
    BY <1>1, <1>2, <1>3, DropTame DEF vfs_remove
  <1>6. ASSUME NEW d, NEW n
        PROVE  \A r \in {vfs_create(f, d, n, auth), vfs_create_exclusive(f, d, n, auth),
                         vfs_mkdir(f, d, n, auth), vfs_mknod(f, d, n, auth), vfs_symlink(f, d, n, auth)} : Tame(f, r.fs)
    <2>1. DefaultFile \cap SetId = {} /\ DefaultDir \cap SetId = {}
      BY DEF DefaultFile, DefaultDir, SetId, Bits
    <2>2. \A kind, mode : mode \cap SetId = {} => Tame(f, Insert(f, d, n, kind, mode, auth).fs)
      BY InsertTame
    <2>3. \A kind : Tame(f, Insert(f, d, n, kind, DefaultFile, auth).fs) /\ Tame(f, Insert(f, d, n, kind, DefaultDir, auth).fs)
      BY <2>1, <2>2
    <2> QED BY <1>1, <1>2, <2>3 DEF vfs_create, vfs_create_exclusive, vfs_mkdir, vfs_mknod, vfs_symlink
  \* A tree whose entries alone differ, and then an inode's ctime.
  <1>7. ASSUME NEW h, FsOK(h), Tame(f, h), NEW g, FsOK(g), g.attr = h.attr, NEW j, Exists(g, j)
        PROVE  Tame(f, Touch(g, j))
    <2>1. AttrsOK(g) /\ \A k : HasSetId(g, k) => HasSetId(f, k)
      BY <1>7 DEF Tame, AttrsOK, HasSetId, Exists
    <2>2. Tame(g, Touch(g, j))
      BY <1>7, <2>1, TouchTame
    <2> QED BY <2>1, <2>2 DEF Tame
  <1>8. ASSUME NEW d \in Ids, NEW n \in Names PROVE Tame(f, vfs_link(f, i, d, n).fs)
    <2>1. CASE ~Exists(f, i) \/ At(f, d, n) # None
      BY <1>1, <1>2, <2>1 DEF vfs_link
    <2>2. CASE Exists(f, i) /\ At(f, d, n) = None
      <3> DEFINE g == Named(f, DOMAIN f.dentry, <<d, n>>, i)
      <3>1. vfs_link(f, i, d, n).fs = Touch(g, i)
        BY <1>3, <2>2 DEF vfs_link, Named
      <3>2. FsOK(g) /\ g.attr = f.attr /\ Exists(g, i)
        <4>1. <<d, n>> \in Ids \X Names /\ i \in DOMAIN f.attr
          BY <2>2 DEF Exists
        <4> HIDE DEF g
        <4>2. \A h : h = Named(f, DOMAIN f.dentry, <<d, n>>, i) => FsOK(h) /\ h.attr = f.attr
          BY <4>1, NamedGood
        <4>3. FsOK(g) /\ g.attr = f.attr
          BY <4>2 DEF g
        <4> QED BY <4>1, <4>3 DEF Exists
      <3> HIDE DEF g
      <3> QED BY <1>1, <1>7, <3>1, <3>2
    <2> QED BY <2>1, <2>2
  <1>9. ASSUME NEW d, NEW n, NEW e \in Ids, NEW m \in Names, <<d, n>> # <<e, m>>
        PROVE  Tame(f, vfs_rename(f, d, n, e, m).fs)
    <2> DEFINE k == At(f, d, n)
               j == At(f, e, m)
               h == IF j = None THEN f ELSE Drop(f, <<e, m>>)
               S == DOMAIN h.dentry \ {<<d, n>>}
               g == Named(h, S, <<e, m>>, k)
               r == vfs_rename(f, d, n, e, m)
    <2>1. (\E st : r = Failed(f, st)) \/ (k # None /\ r = Done(Touch(g, k), k))
      BY DEF vfs_rename, Named
    <2>2. ASSUME k # None PROVE Tame(f, Touch(g, k))
      <3>1. <<d, n>> \in DOMAIN f.dentry /\ k = f.dentry[<<d, n>>]
        BY <2>2 DEF At
      <3>2. FsOK(h) /\ Tame(f, h) /\ k \in DOMAIN h.attr
        <4>1. CASE j = None
          BY <1>1, <3>1, <4>1, FsParts
        <4>2. CASE j # None
          <5>1. <<e, m>> \in DOMAIN f.dentry
            BY <4>2 DEF At
          <5>2. \A s \in DOMAIN f.dentry : FsOK(Drop(f, s)) /\ \A u \in DOMAIN f.dentry \ {s} : f.dentry[u] \in DOMAIN Drop(f, s).attr
            BY DropGood
          <5>3. <<d, n>> \in DOMAIN f.dentry \ {<<e, m>>}
            BY <1>9, <3>1
          <5>4. h = Drop(f, <<e, m>>)
            BY <4>2
          <5>5. FsOK(Drop(f, <<e, m>>)) /\ f.dentry[<<d, n>>] \in DOMAIN Drop(f, <<e, m>>).attr
            BY <5>1, <5>2, <5>3, Zenon
          <5>6. Tame(f, Drop(f, <<e, m>>))
            BY DropTame
          <5> QED BY <3>1, <5>4, <5>5, <5>6
        <4> QED BY <4>1, <4>2
      <3>3. <<e, m>> \in Ids \X Names /\ S \in SUBSET DOMAIN h.dentry
        OBVIOUS
      <3> HIDE DEF h, S, k
      <3>4. FsOK(g) /\ g.attr = h.attr
        <4> HIDE DEF g
        <4>1. \A y : y = Named(h, S, <<e, m>>, k) => FsOK(y) /\ y.attr = h.attr
          BY <3>2, <3>3, NamedGood
        <4> QED BY <4>1 DEF g
      <3> HIDE DEF g
      <3>5. Exists(g, k)
        BY <3>2, <3>4 DEF Exists
      <3> QED BY <1>7, <3>2, <3>4, <3>5
    <2> HIDE DEF g, k, r
    <2> QED BY <1>1, <1>2, <1>3, <2>1, <2>2 DEF r
  <1> QED BY <1>1, <1>4, <1>5, <1>6, <1>8, <1>9

\* A change of one attribute's value: what is left of the record is as it was.
LEMMA ChmodModes ==
    ASSUME NEW f, FsOK(f), AttrsOK(f), NEW i, Exists(f, i), NEW m
    PROVE  LET g == Chmod(f, i, m)
           IN /\ FsOK(g) /\ AttrsOK(g) /\ Exists(g, i)
              /\ \A j : HasSetId(g, j) => \/ m = Void /\ HasSetId(f, j)
                                          \/ m # Void /\ j # i /\ HasSetId(f, j)
                                          \/ m # Void /\ j = i /\ Value(m) \cap SetId # {}
PROOF
  <1>1. CASE m = Void
    BY <1>1 DEF Chmod
  <1>2. CASE m # Void
    <2> DEFINE v == Value(m)
               a == f.attr[i]
               h == [f EXCEPT !.attr[i].mode = v]
    <2>1. Chmod(f, i, m) = Touch(h, i)
      BY <1>2 DEF Chmod
    <2>2. f \in [dentry : {f.dentry}, attr : {f.attr}, next : {f.next}] /\ f.attr = [j \in DOMAIN f.attr |-> f.attr[j]]
      BY FsParts
    <2>3. a = [kind |-> a.kind, uid |-> a.uid, gid |-> a.gid, mode |-> a.mode, ctime |-> a.ctime]
      BY DEF AttrsOK, Exists
    <2> HIDE DEF v
    <2>4. /\ h \in [dentry : {f.dentry}, attr : {h.attr}, next : {f.next}]
          /\ h.attr = [f.attr EXCEPT ![i] = [a EXCEPT !.mode = v]]
      BY <2>2 DEF Exists
    <2> HIDE DEF h, a
    <2>5. [a EXCEPT !.mode = v] = [kind |-> a.kind, uid |-> a.uid, gid |-> a.gid, mode |-> v, ctime |-> a.ctime]
      BY <2>3
    <2>6. h.attr = [j \in DOMAIN f.attr |-> h.attr[j]] /\ \A j \in DOMAIN f.attr : j # i => h.attr[j] = f.attr[j]
      BY <2>2, <2>4
    <2>7. h.attr[i] = [kind |-> a.kind, uid |-> a.uid, gid |-> a.gid, mode |-> v, ctime |-> a.ctime]
      BY <2>2, <2>4, <2>5 DEF Exists
    <2>8. FsOK(h) /\ Exists(h, i)
      BY <2>4, <2>6, AttrChanged DEF Exists
    <2>9. AttrsOK(h)
      BY <2>6, <2>7 DEF AttrsOK
    <2>10. \A j : HasSetId(h, j) => (j # i /\ HasSetId(f, j)) \/ (j = i /\ v \cap SetId # {})
      BY <2>6, <2>7 DEF HasSetId, Exists
    <2>11. FsOK(Touch(h, i)) /\ Tame(h, Touch(h, i)) /\ Exists(Touch(h, i), i)
      BY <2>8, <2>9, TouchGood, TouchTame DEF Exists
    <2> QED BY <1>2, <2>1, <2>10, <2>11 DEF Tame, v
  <1> QED BY <1>1, <1>2

LEMMA ChownTame ==
    ASSUME NEW f, FsOK(f), AttrsOK(f), NEW i, Exists(f, i), NEW u, NEW o
    PROVE  LET g == Chown(f, i, u, o) IN FsOK(g) /\ Tame(f, g) /\ Exists(g, i)
PROOF
  <1>1. CASE u = Void /\ o = Void
    BY <1>1 DEF Chown, Tame
  <1>2. CASE ~(u = Void /\ o = Void)
    <2> DEFINE a == f.attr[i]
               x == IF u = Void THEN a.uid ELSE Value(u)
               y == IF o = Void THEN a.gid ELSE Value(o)
               h == [f EXCEPT !.attr[i].uid = IF u = Void THEN @ ELSE Value(u),
                              !.attr[i].gid = IF o = Void THEN @ ELSE Value(o)]
    <2>1. Chown(f, i, u, o) = Touch(h, i)
      BY <1>2 DEF Chown
    <2>2. f \in [dentry : {f.dentry}, attr : {f.attr}, next : {f.next}] /\ f.attr = [j \in DOMAIN f.attr |-> f.attr[j]]
      BY FsParts
    <2>3. a = [kind |-> a.kind, uid |-> a.uid, gid |-> a.gid, mode |-> a.mode, ctime |-> a.ctime]
      BY DEF AttrsOK, Exists
    <2>4. /\ h \in [dentry : {f.dentry}, attr : {h.attr}, next : {f.next}]
          /\ DOMAIN h.attr = DOMAIN f.attr
          /\ \A j \in DOMAIN f.attr : j # i => h.attr[j] = f.attr[j]
          /\ h.attr = [j \in DOMAIN f.attr |-> h.attr[j]]
      BY <2>2 DEF Exists
    <2>5. h.attr[i] = [[a EXCEPT !.uid = IF u = Void THEN @ ELSE Value(u)] EXCEPT !.gid = IF o = Void THEN @ ELSE Value(o)]
      BY <2>2 DEF Exists
    <2> HIDE DEF h, a
    <2>6. h.attr[i] = [kind |-> a.kind, uid |-> x, gid |-> y, mode |-> a.mode, ctime |-> a.ctime]
      BY <2>3, <2>5
    <2> HIDE DEF x, y
    <2>7. FsOK(h) /\ Exists(h, i)
      BY <2>4, AttrChanged DEF Exists
    <2>8. AttrsOK(h)
      BY <2>4, <2>6 DEF AttrsOK
    <2>9. h.attr[i].mode = f.attr[i].mode
      BY <2>6 DEF a
    <2>10. \A j : HasSetId(h, j) => HasSetId(f, j)
      BY <2>4, <2>9 DEF HasSetId, Exists
    <2>11. FsOK(Touch(h, i)) /\ Tame(h, Touch(h, i)) /\ Exists(Touch(h, i), i)
      BY <2>7, <2>8, TouchGood, TouchTame DEF Exists
    <2> QED BY <2>1, <2>10, <2>11 DEF Tame
  <1> QED BY <1>1, <1>2

\* setattr gives no file set-id bits that the new mode does not have.
LEMMA SetattrModes ==
    ASSUME NEW f, FsOK(f), AttrsOK(f), NEW i, NEW n, NEW r \in vfs_setattr(f, i, n)
    PROVE  /\ AttrsOK(r.fs)
           /\ \A j : HasSetId(r.fs, j) => HasSetId(f, j) \/ (j = i /\ n.mode # Void /\ Value(n.mode) \cap SetId # {})
           /\ n.mode # Void /\ Value(n.mode) \cap SetId = {} /\ r.st = "OK" => ~HasSetId(r.fs, i)
PROOF
  <1>1. CASE ~Exists(f, i)
    BY <1>1 DEF vfs_setattr, Failed
  <1>2. CASE Exists(f, i)
    <2> DEFINE g == Chmod(f, i, n.mode)
               h == Chown(g, i, n.uid, n.gid)
               e == IF n.size \/ n.times THEN Touch(h, i) ELSE h
    <2>1. /\ FsOK(g) /\ AttrsOK(g) /\ Exists(g, i)
          /\ \A j : HasSetId(g, j) => \/ n.mode = Void /\ HasSetId(f, j)
                                      \/ n.mode # Void /\ j # i /\ HasSetId(f, j)
                                      \/ n.mode # Void /\ j = i /\ Value(n.mode) \cap SetId # {}
      BY <1>2, ChmodModes
    <2>2. FsOK(h) /\ Tame(g, h) /\ Exists(h, i)
      <3> HIDE DEF g
      <3> QED BY <2>1, ChownTame
    <2>3. Tame(h, e)
      <3> HIDE DEF h
      <3>1. AttrsOK(h)
        BY <2>2 DEF Tame
      <3>2. Tame(h, h) /\ Tame(h, Touch(h, i))
        BY <2>2, <3>1, TouchTame DEF Tame
      <3> QED BY <3>2
    <2>4. vfs_setattr(f, i, n) = {Done(e, i)} \cup {Failed(k, "IO") : k \in {f, g, h, e}}
      BY <1>2 DEF vfs_setattr
    <2> HIDE DEF g, h, e
    <2>5. (r.st = "OK" /\ r.fs = e) \/ (r.st # "OK" /\ r.fs \in {f, g, h, e})
      BY <2>4 DEF Done, Failed
    <2>6. \A k \in {g, h, e} : AttrsOK(k) /\ \A j : HasSetId(k, j) => HasSetId(g, j)
      BY <2>1, <2>2, <2>3 DEF Tame
    <2> QED BY <2>1, <2>5, <2>6
  <1> QED BY <1>1, <1>2

(***************************************************************************)
(* What a step of a handler does to the set-id bits of written files.      *)
(***************************************************************************)
Modest(t) ==
    /\ UNCHANGED <<life, calls>> /\ AttrsOK(fs')
    /\ \E u : /\ tasks' = [tasks EXCEPT ![t] = u]
              /\ CallOf(t).proc = "WRITE" /\ u.pc = "clear" => u.kept \cap SetId = {}
              /\ \A i \in owed' : HasSetId(fs', i) =>
                    \/ i \in owed /\ HasSetId(fs, i) /\ ~Clears(t, i)
                    \/ CallOf(t).proc = "WRITE" /\ u.pc = "clear" /\ CallOf(t).id = i

LEMMA HandlersModest ==
    ASSUME BaseInv, OwedInv, NEW t \in DOMAIN tasks, Handles(t)
    PROVE  Modest(t)
PROOF
  <1> DEFINE c == CallOf(t)
             pc == tasks[t].pc
             Open == ~In(t, "WRITE", "clear")
  <1>0. CallOK(c, life) /\ FsOK(fs) /\ AttrsOK(fs) /\ ShapedTask(tasks[t])
    BY DEF BaseInv, TasksInv, CallsInv, TaskOK, CallOf, OwedInv
  <1>1. ASSUME NEW u, tasks' = [tasks EXCEPT ![t] = u], UNCHANGED <<life, calls, fs, owed>>, Open,
               c.proc = "WRITE" => u.pc # "clear"
        PROVE  Modest(t)
    BY <1>0, <1>1 DEF Modest, Clears
  <1>2. ASSUME NEW st, Respond(t, st), Open PROVE Modest(t)
    <2> DEFINE u == [tasks[t] EXCEPT !.pc = "reply", !.out = Append(@, st)]
    <2>1. tasks' = [tasks EXCEPT ![t] = u] /\ UNCHANGED <<life, calls, fs, owed>>
      BY <1>2 DEF Respond, Become, client
    <2>2. u.pc = "reply"
      BY <1>0 DEF ShapedTask
    <2> QED BY <1>1, <1>2, <2>1, <2>2
  <1>3. ASSUME NEW p, NEW v, Proceed(t, p, v), Open, p # "clear" PROVE Modest(t)
    <2> DEFINE u == [tasks[t] EXCEPT !.pc = p, !.kept = v]
    <2>1. tasks' = [tasks EXCEPT ![t] = u] /\ UNCHANGED <<life, calls, fs, owed>>
      BY <1>3 DEF Proceed, Become, client
    <2>2. u.pc = p
      BY <1>0 DEF ShapedTask
    <2> QED BY <1>1, <1>3, <2>1, <2>2
  <1>4. ASSUME NEW ok, NEW p, NEW v, Decide(t, ok, p, v), Open, p # "clear" PROVE Modest(t)
    BY <1>2, <1>3, <1>4 DEF Decide
  <1>5. ASSUME NEW r, NEW o, Perform(t, r, o), AttrsOK(r.fs),
               \A i \in o : HasSetId(r.fs, i) => i \in owed /\ HasSetId(fs, i) /\ ~Clears(t, i)
        PROVE  Modest(t)
    <2> DEFINE u == [tasks[t] EXCEPT !.pc = "reply", !.out = Append(@, r.st), !.made = r.id]
    <2>1. tasks' = [tasks EXCEPT ![t] = u] /\ UNCHANGED <<life, calls>> /\ fs' = r.fs /\ owed' = o
      BY <1>5 DEF Perform
    <2>2. u.pc = "reply"
      BY <1>0 DEF ShapedTask
    <2> QED BY <1>5, <2>1, <2>2 DEF Modest
  <1>6. ASSUME NEW r, Perform(t, r, owed), Tame(fs, r.fs), Open PROVE Modest(t)
    BY <1>5, <1>6 DEF Tame, Clears
  <1>7. ASSUME NEW u, Become(t, u), UNCHANGED <<fs, effects, owed>>, Open, c.proc # "WRITE" PROVE Modest(t)
    BY <1>1, <1>7 DEF Become, client
  <1>8. ASSUME handle_mount(t) \/ handle_portmap(t) \/ unavailable(t) \/ nfsproc3_null(t) PROVE Modest(t)
    BY <1>2, <1>8 DEF handle_mount, handle_portmap, unavailable, nfsproc3_null, In
  <1>9. ASSUME nfsproc3_getattr(t) PROVE Modest(t)
    BY <1>2, <1>9 DEF nfsproc3_getattr, Admit, fh_to_id, In
  <1>10. ASSUME nfsproc3_fsinfo(t) \/ nfsproc3_pathconf(t) \/ nfsproc3_fsstat(t) PROVE Modest(t)
    BY <1>2, <1>10 DEF nfsproc3_fsinfo, nfsproc3_pathconf, nfsproc3_fsstat, fh_to_id, In
  <1>11. ASSUME nfsproc3_access(t) PROVE Modest(t)
    BY <1>2, <1>7, <1>11 DEF nfsproc3_access, Admit, fh_to_id, In
  <1>12. ASSUME nfsproc3_lookup(t) PROVE Modest(t)
    BY <1>2, <1>3, <1>4, <1>12 DEF nfsproc3_lookup, Admit, fh_to_id, In
  <1>13. ASSUME nfsproc3_read(t) \/ nfsproc3_readlink(t) PROVE Modest(t)
    BY <1>2, <1>3, <1>4, <1>13 DEF nfsproc3_read, nfsproc3_readlink, Admit, fh_to_id, In
  <1>14. ASSUME nfsproc3_readdirplus(t) \/ nfsproc3_readdir(t) PROVE Modest(t)
    <2>1. ASSUME NEW p, Page(t, p), c.proc \in {"READDIR", "READDIRPLUS"}, Open PROVE Modest(t)
      BY <1>7, <2>1 DEF Page
    <2> QED BY <1>2, <1>4, <1>14, <2>1 DEF nfsproc3_readdirplus, nfsproc3_readdir, MayList, Admit, fh_to_id, In
  <1>15. ASSUME nfsproc3_write(t) PROVE Modest(t)
    <2> DEFINE i == c.id
               w == vfs_write(fs, i)
               due == IF w.st = "OK" /\ AuthOf(t).uid # RootUid THEN owed \cup {i} ELSE owed
    <2>1. CASE In(t, "WRITE", "start")
      BY <1>2, <1>4, <1>15, <2>1 DEF nfsproc3_write, Admit, fh_to_id, In
    <2>2. CASE In(t, "WRITE", "op")
      <3>1. Tame(fs, w.fs) /\ (w.st = "OK" => Exists(w.fs, i))
        BY <1>0, OperationsTame, WriteAnswers
      <3>2. ~In(t, "WRITE", "clear")
        BY <2>2 DEF In
      <3>3. CASE Perform(t, w, due) /\ ~(w.st = "OK" /\ AuthOf(t).uid # RootUid /\ w.fs.attr[i].mode \cap SetId # {})
        <4>1. \A j \in due : HasSetId(w.fs, j) => j \in owed /\ HasSetId(fs, j) /\ ~Clears(t, j)
          BY <3>1, <3>2, <3>3 DEF Tame, HasSetId, Clears
        <4> QED BY <1>5, <3>1, <3>3, <4>1 DEF Tame
      <3>4. CASE /\ Become(t, [tasks[t] EXCEPT !.pc = "clear", !.kept = w.fs.attr[i].mode \ SetId])
                 /\ fs' = w.fs /\ owed' = due /\ UNCHANGED effects
        <4> DEFINE u == [tasks[t] EXCEPT !.pc = "clear", !.kept = w.fs.attr[i].mode \ SetId]
        <4>1. u.pc = "clear" /\ u.kept = w.fs.attr[i].mode \ SetId
          BY <1>0 DEF ShapedTask
        <4>2. tasks' = [tasks EXCEPT ![t] = u] /\ UNCHANGED <<life, calls>> /\ c.proc = "WRITE"
          BY <2>2, <3>4 DEF Become, client, In
        <4>3. u.kept \cap SetId = {}
          BY <4>1
        <4> HIDE DEF u, w
        <4>4. \A j \in owed' : HasSetId(fs', j) => (j \in owed /\ HasSetId(fs, j) /\ ~Clears(t, j)) \/ j = i
          BY <3>1, <3>2, <3>4 DEF Tame, Clears
        <4> QED BY <3>1, <3>4, <4>1, <4>2, <4>3, <4>4 DEF Modest, Tame
      <3> QED BY <1>15, <2>2, <3>3, <3>4 DEF nfsproc3_write, In
    <2>3. CASE In(t, "WRITE", "clear")
      <3> DEFINE n == [NoSattr EXCEPT !.mode = Some(Kept(t))]
      <3>1. PICK r \in vfs_setattr(fs, i, n) :
               Perform(t, [r EXCEPT !.st = "OK"], IF r.st = "OK" THEN owed \cup {i} ELSE owed \ {i})
        BY <1>15, <2>3 DEF nfsproc3_write, In
      <3>2. n.mode = Some(Kept(t))
        BY DEF NoSattr
      <3>3. n.mode # Void /\ Value(n.mode) = Kept(t)
        BY <3>2 DEF Some, Void, Value
      <3>4. Value(n.mode) \cap SetId = {}
        BY <2>3, <3>3 DEF OwedInv
      <3> HIDE DEF n
      <3>5. /\ AttrsOK(r.fs) /\ (\A j : HasSetId(r.fs, j) => HasSetId(fs, j))
            /\ (r.st = "OK" => ~HasSetId(r.fs, i))
        BY <1>0, <3>3, <3>4, SetattrModes
      <3>6. Answers(fs, r)
        BY <1>0, SetattrAnswers
      <3>7. [r EXCEPT !.st = "OK"].fs = r.fs
        BY <3>6 DEF Answers
      <3>8. \A j : Clears(t, j) => j = i
        BY DEF Clears
      <3> DEFINE q == [r EXCEPT !.st = "OK"]
                 o == IF r.st = "OK" THEN owed \cup {i} ELSE owed \ {i}
      <3>9. Perform(t, q, o) /\ q.fs = r.fs
        BY <3>1, <3>7
      <3>10. \A j \in o : HasSetId(r.fs, j) => j \in owed /\ HasSetId(fs, j) /\ ~Clears(t, j)
        BY <3>5, <3>8
      <3> HIDE DEF q, o
      <3> QED BY <1>5, <3>5, <3>9, <3>10
    <2> QED BY <1>15, <2>1, <2>2, <2>3 DEF nfsproc3_write
  <1>16. ASSUME nfsproc3_setattr(t) PROVE Modest(t)
    <2>1. CASE In(t, "SETATTR", "start")
      BY <1>2, <1>7, <1>16, <2>1 DEF nfsproc3_setattr, Admit, fh_to_id, In
    <2>2. CASE In(t, "SETATTR", "op")
      <3>1. PICK r \in vfs_setattr(fs, c.id, Kept(t)) :
               Perform(t, r, IF r.fs # fs /\ Kept(t).mode # Void /\ Value(Kept(t).mode) \cap SetId # {}
                             THEN owed \ {c.id} ELSE owed)
        BY <1>16, <2>2 DEF nfsproc3_setattr, In
      <3>2. /\ AttrsOK(r.fs)
            /\ \A j : HasSetId(r.fs, j) =>
                  HasSetId(fs, j) \/ (j = c.id /\ Kept(t).mode # Void /\ Value(Kept(t).mode) \cap SetId # {})
        BY <1>0, SetattrModes
      <3>3. ~In(t, "WRITE", "clear")
        BY <2>2 DEF In
      <3>4. \A j : j \in (IF r.fs # fs /\ Kept(t).mode # Void /\ Value(Kept(t).mode) \cap SetId # {} THEN owed \ {c.id} ELSE owed)
                   => (HasSetId(r.fs, j) => j \in owed /\ HasSetId(fs, j) /\ ~Clears(t, j))
        BY <3>2, <3>3 DEF Clears
      <3> QED BY <1>5, <3>1, <3>2, <3>4
    <2> QED BY <1>16, <2>1, <2>2 DEF nfsproc3_setattr
  <1>17. ASSUME NEW d, NEW p, MayModify(t, d, p), Open, p # "clear" PROVE Modest(t)
    BY <1>2, <1>4, <1>17 DEF MayModify, Admit, fh_to_id
  <1>18. /\ \A d, n : /\ Tame(fs, vfs_remove(fs, d, n).fs)
                      /\ \A r \in {vfs_create(fs, d, n, AuthOf(t)), vfs_create_exclusive(fs, d, n, AuthOf(t)),
                                   vfs_mkdir(fs, d, n, AuthOf(t)), vfs_mknod(fs, d, n, AuthOf(t)), vfs_symlink(fs, d, n, AuthOf(t))} :
                            Tame(fs, r.fs)
         /\ c.proc = "LINK" => Tame(fs, vfs_link(fs, c.id, c.d, c.n).fs)
         /\ c.proc = "RENAME" => Tame(fs, vfs_rename(fs, c.d, c.n, c.e, c.m).fs)
    BY <1>0, OperationsTame DEF CallOK
  <1>19. ASSUME nfsproc3_create(t) PROVE Modest(t)
    BY <1>2, <1>3, <1>6, <1>17, <1>18, <1>19 DEF nfsproc3_create, In
  <1>20. ASSUME nfsproc3_mkdir(t) \/ nfsproc3_symlink(t) \/ nfsproc3_mknod(t) PROVE Modest(t)
    BY <1>6, <1>17, <1>18, <1>20 DEF nfsproc3_mkdir, nfsproc3_symlink, nfsproc3_mknod, In
  <1>21. ASSUME nfsproc3_link(t) PROVE Modest(t)
    BY <1>2, <1>3, <1>6, <1>17, <1>18, <1>21 DEF nfsproc3_link, Admit, fh_to_id, In
  <1>22. ASSUME NEW a, NEW d, NEW n, NEW p, NEW q, LookEntry(t, a, d, n, p, q), Open, p # "clear", q # "clear"
         PROVE  Modest(t)
    BY <1>3, <1>4, <1>22 DEF LookEntry
  <1>23. ASSUME NEW a, NEW k, NEW p, NEW q, FromDir(t, a, k, p, q), Open, p # "clear", q # "clear" PROVE Modest(t)
    BY <1>3, <1>4, <1>23 DEF FromDir
  <1>24. ASSUME nfsproc3_remove(t) PROVE Modest(t)
    BY <1>2, <1>4, <1>6, <1>18, <1>22, <1>23, <1>24 DEF nfsproc3_remove, Admit, fh_to_id, In
  <1>25. ASSUME nfsproc3_rename(t) PROVE Modest(t)
    BY <1>2, <1>3, <1>4, <1>6, <1>18, <1>22, <1>23, <1>25 DEF nfsproc3_rename, Admit, fh_to_id, In
  <1> QED BY <1>8, <1>9, <1>10, <1>11, <1>12, <1>13, <1>14, <1>15, <1>16, <1>19, <1>20, <1>21, <1>24, <1>25 DEF Handles

LEMMA OwedStep == BaseInv /\ OwedInv /\ [Next]_vars => OwedInv'
PROOF
  <1> SUFFICES ASSUME BaseInv, OwedInv, [Next]_vars PROVE OwedInv'
    OBVIOUS
  <1>0. \A t \in DOMAIN tasks : t.xid \in 1 .. Len(calls)
    BY DEF BaseInv, CallsInv, TasksInv
  \* Tasks that are about to clear go on being so.
  <1>1. ASSUME fs' = fs, owed' = owed,
               \A t \in DOMAIN tasks : In(t, "WRITE", "clear") =>
                  t \in DOMAIN tasks' /\ tasks'[t] = tasks[t] /\ calls'[t.xid] = calls[t.xid],
               \A t \in DOMAIN tasks' : tasks'[t].pc = "clear" => t \in DOMAIN tasks /\ tasks'[t] = tasks[t] /\ calls'[t.xid] = calls[t.xid]
        PROVE  OwedInv'
    BY <1>1 DEF OwedInv, SetIdGoes, Clears, In, CallOf, Kept
  <1>2. CASE Grows
    <2>1. PICK T : Spawn(T) /\ \A t \in T : Arrives(t)
      BY <1>2 DEF Grows
    <2>2. \A t \in DOMAIN tasks : t \in DOMAIN tasks' /\ tasks'[t] = tasks[t] /\ calls'[t.xid] = calls[t.xid]
      BY <1>0, <1>2, <2>1 DEF Grows, Spawn, Arrives, Longer
    <2>3. \A t \in DOMAIN tasks' : t \in DOMAIN tasks \/ tasks'[t].pc = "rpc"
      BY <2>1 DEF Spawn, NewTask
    <2> QED BY <1>1, <1>2, <2>2, <2>3 DEF Grows
  <1>3. CASE Still \/ UNCHANGED vars
    BY <1>1, <1>3 DEF Still, vars
  <1>4. CASE Restart
    <2>1. fs' = fs /\ DOMAIN tasks' = {} /\ owed' = {i \in owed : ~\E t \in DOMAIN tasks : Clears(t, i)}
      BY <1>4 DEF Restart
    <2> QED BY <2>1 DEF OwedInv, SetIdGoes
  <1>5. ASSUME NEW k \in DOMAIN tracker, housekeeping(k) PROVE OwedInv'
    BY <1>1, <1>5 DEF housekeeping, client
  <1>6. ASSUME NEW t \in DOMAIN tasks, handle_rpc(t) PROVE OwedInv'
    <2>1. UNCHANGED <<calls, fs, owed>> /\ tasks[t].pc = "rpc" /\ ShapedTask(tasks[t])
      BY <1>6 DEF handle_rpc, Become, client, BaseInv, TasksInv, TaskOK
    <2>2. \A u \in DOMAIN tasks : u # t => u \in DOMAIN tasks' /\ tasks'[u] = tasks[u]
      BY <1>6 DEF handle_rpc, Become, End, Restrict
    <2>3. DOMAIN tasks' \subseteq DOMAIN tasks /\ (t \in DOMAIN tasks' => tasks'[t].pc # "clear")
      BY <1>6, <2>1 DEF handle_rpc, Become, End, Restrict, ShapedTask
    <2> QED BY <1>1, <2>1, <2>2, <2>3 DEF In
  <1>7. ASSUME NEW t \in DOMAIN tasks, Handles(t) PROVE OwedInv'
    <2>1. Modest(t)
      BY <1>7, HandlersModest
    <2>2. UNCHANGED calls /\ AttrsOK(fs')
      BY <2>1 DEF Modest
    <2>3. PICK u : /\ tasks' = [tasks EXCEPT ![t] = u]
                   /\ CallOf(t).proc = "WRITE" /\ u.pc = "clear" => u.kept \cap SetId = {}
                   /\ \A i \in owed' : HasSetId(fs', i) =>
                         \/ i \in owed /\ HasSetId(fs, i) /\ ~Clears(t, i)
                         \/ CallOf(t).proc = "WRITE" /\ u.pc = "clear" /\ CallOf(t).id = i
      BY <2>1 DEF Modest
    <2>4. DOMAIN tasks' = DOMAIN tasks /\ \A w \in DOMAIN tasks : tasks'[w] = IF w = t THEN u ELSE tasks[w]
      BY <2>3
    <2>5. ASSUME NEW i \in owed', HasSetId(fs', i) PROVE \E w \in DOMAIN tasks' : Clears(w, i)'
      <3>1. CASE i \in owed /\ HasSetId(fs, i) /\ ~Clears(t, i)
        <4>1. PICK w \in DOMAIN tasks : Clears(w, i)
          BY <3>1 DEF OwedInv, SetIdGoes
        <4>2. w # t
          BY <3>1, <4>1
        <4> QED BY <2>2, <2>4, <4>1, <4>2 DEF Clears, In, CallOf
      <3>2. CASE CallOf(t).proc = "WRITE" /\ u.pc = "clear" /\ CallOf(t).id = i
        BY <2>2, <2>4, <3>2 DEF Clears, In, CallOf
      <3> QED BY <2>3, <2>5, <3>1, <3>2
    <2>6. ASSUME NEW w \in DOMAIN tasks', In(w, "WRITE", "clear")' PROVE Kept(w)' \cap SetId = {}
      <3>1. CASE w = t
        BY <2>2, <2>3, <2>4, <2>6, <3>1 DEF In, CallOf, Kept
      <3>2. CASE w # t
        BY <2>2, <2>4, <2>6, <3>2 DEF In, CallOf, Kept, OwedInv
      <3> QED BY <3>1, <3>2
    <2> QED BY <2>2, <2>5, <2>6 DEF OwedInv, SetIdGoes
  <1>8. ASSUME NEW t \in DOMAIN tasks, Ends(t) PROVE OwedInv'
    BY <1>1, <1>8 DEF Ends
  <1> QED BY <1>2, <1>3, <1>4, <1>5, <1>6, <1>7, <1>8, Steps

\* Where no new claim appears and no number is taken back, CreatorInv stays.
LEMMA NoNewClaim ==
    ASSUME BaseInv, CreatorInv, FsOK(fs'), fs'.next >= fs.next, \A x, i : Claims(x, i)' => Claims(x, i)
    PROVE  CreatorInv'
PROOF
  <1>1. fs.next \in Nat /\ fs'.next \in Nat
    BY FsParts DEF BaseInv
  <1>2. \A x, i : Claims(x, i)' => i \in Nat /\ i < fs'.next
    BY <1>1 DEF CreatorInv
  <1> QED BY <1>2 DEF CreatorInv

LEMMA CreatorStep == BaseInv /\ CreatorInv /\ [Next]_vars => CreatorInv'
PROOF
  <1> SUFFICES ASSUME BaseInv, CreatorInv, [Next]_vars PROVE CreatorInv'
    OBVIOUS
  <1>0. /\ \A t \in DOMAIN tasks : t.xid \in 1 .. Len(calls)
        /\ fs.next \in Nat /\ FsOK(fs) /\ DOMAIN answers = 1 .. Len(answers) /\ Len(answers) = Len(calls)
        /\ \A x \in 1 .. Len(calls) : IsSeq(answers[x])
    BY FsParts, LenProperties DEF BaseInv, CallsInv, TasksInv, IsSeq
  <1>1. CASE Grows
    <2>1. PICK T : Spawn(T) /\ \A t \in T : Arrives(t)
      BY <1>1 DEF Grows
    <2>2. \A t \in DOMAIN tasks' : tasks'[t].pc = "reply" => t \in DOMAIN tasks /\ tasks'[t] = tasks[t]
      BY <2>1 DEF Spawn, NewTask
    <2>3. \A x \in 1 .. Len(calls') :
             \/ answers'[x] = <<>> /\ x \notin 1 .. Len(calls)
             \/ x \in 1 .. Len(calls) /\ answers'[x] = answers[x] /\ calls'[x] = calls[x]
      <3>1. Len(calls') \in Nat /\ Len(calls) \in Nat
        BY <1>1, LenProperties DEF Grows, Longer, IsSeq, BaseInv, CallsInv
      <3>2. \A x \in 1 .. Len(calls) : answers'[x] = answers[x] /\ calls'[x] = calls[x]
        BY <1>0, <1>1 DEF Grows, Longer
      <3>3. \A x \in 1 .. Len(calls') : x \notin 1 .. Len(calls) => x > Len(calls)
        BY <3>1
      <3> QED BY <1>1, <3>2, <3>3 DEF Grows
    <2>4. ASSUME NEW x, NEW i, Claims(x, i)' PROVE Claims(x, i)
      <3>1. x \in 1 .. Len(calls') /\ calls'[x].proc \in Makes /\ (Told(x, i)' \/ ToBeTold(x, i)')
        BY <2>4 DEF Claims
      <3>2. ToBeTold(x, i)' => ToBeTold(x, i) /\ x \in 1 .. Len(calls)
        BY <1>0, <2>2 DEF ToBeTold
      <3>3. Told(x, i)' => Told(x, i) /\ x \in 1 .. Len(calls)
        BY <2>3, <3>1 DEF Told
      <3> QED BY <2>3, <3>1, <3>2, <3>3 DEF Claims
    <2>5. fs' = fs
      BY <1>1 DEF Grows
    <2> QED BY <1>0, <2>4, <2>5, NoNewClaim
  <1>2. CASE Still \/ UNCHANGED vars
    <2>1. UNCHANGED <<fs, calls, answers, tasks>>
      BY <1>2 DEF Still, vars
    <2>2. \A x, i : Claims(x, i)' => Claims(x, i)
      BY <2>1 DEF Claims, Told, ToBeTold
    <2> QED BY <1>0, <2>1, <2>2, NoNewClaim
  <1>3. CASE Restart
    <2>1. UNCHANGED <<fs, calls, answers>> /\ tasks' = <<>>
      BY <1>3 DEF Restart
    <2>2. \A x, i : Claims(x, i)' => Claims(x, i)
      BY <2>1 DEF Claims, Told, ToBeTold
    <2> QED BY <1>0, <2>1, <2>2, NoNewClaim
  <1>4. ASSUME NEW k \in DOMAIN tracker, housekeeping(k) PROVE CreatorInv'
    <2>1. UNCHANGED <<fs, calls, answers, tasks>>
      BY <1>4 DEF housekeeping, client
    <2>2. \A x, i : Claims(x, i)' => Claims(x, i)
      BY <2>1 DEF Claims, Told, ToBeTold
    <2> QED BY <1>0, <2>1, <2>2, NoNewClaim
  <1>5. ASSUME NEW t \in DOMAIN tasks, handle_rpc(t) PROVE CreatorInv'
    <2>1. UNCHANGED <<calls, answers, fs>>
      BY <1>5 DEF handle_rpc, Become, client
    <2>2. ASSUME NEW u \in DOMAIN tasks', calls[u.xid].proc \in Makes, tasks'[u].pc = "reply"
          PROVE  u \in DOMAIN tasks /\ tasks'[u] = tasks[u]
      <3>1. CASE CallOf(t).proc = "BADVERS"
        <4>1. u # t
          BY <2>2, <3>1 DEF CallOf, Makes
        <4> QED BY <1>5, <3>1, <4>1 DEF handle_rpc, Become
      <3>2. CASE CallOf(t).proc # "BADVERS" /\ is_retransmission(<<t.xid, t.conn>>)
        BY <1>5, <3>2 DEF handle_rpc, End, Restrict
      <3>3. CASE CallOf(t).proc # "BADVERS" /\ ~is_retransmission(<<t.xid, t.conn>>)
        <4>1. tasks' = [tasks EXCEPT ![t].pc = "start"]
          BY <1>5, <3>3 DEF handle_rpc
        <4>2. u # t
          BY <2>2, <4>1 DEF BaseInv, TasksInv, TaskOK, ShapedTask
        <4> QED BY <4>1, <4>2
      <3> QED BY <3>1, <3>2, <3>3
    <2>3. \A x, i : Claims(x, i)' => Claims(x, i)
      BY <2>1, <2>2 DEF Claims, Told, ToBeTold
    <2> QED BY <1>0, <2>1, <2>3, NoNewClaim
  <1>6. ASSUME NEW t \in DOMAIN tasks, Advances(t) PROVE CreatorInv'
    <2>1. UNCHANGED <<calls, answers>> /\ FsOK(fs') /\ fs'.next >= fs.next
      BY <1>6 DEF Advances
    <2>2. PICK u : tasks' = [tasks EXCEPT ![t] = u] /\ Creates(t, u)
      BY <1>6 DEF Advances
    <2>3. \A w \in DOMAIN tasks' : w \in DOMAIN tasks /\ tasks'[w] = IF w = t THEN u ELSE tasks[w]
      BY <2>2
    <2> DEFINE New == CallOf(t).proc \in Makes /\ u.pc = "reply" /\ Head(u.out) = "OK"
    <2>4. ASSUME NEW x, NEW i, Claims(x, i)' PROVE Claims(x, i) \/ (New /\ x = t.xid /\ i = u.made)
      <3>1. x \in 1 .. Len(calls) /\ calls[x].proc \in Makes /\ (Told(x, i)' \/ ToBeTold(x, i)')
        BY <2>1, <2>4 DEF Claims
      <3>2. Told(x, i)' => Claims(x, i)
        BY <2>1, <3>1 DEF Told, Claims
      <3>3. ASSUME ToBeTold(x, i)' PROVE Claims(x, i) \/ (New /\ x = t.xid /\ i = u.made)
        <4>1. PICK w \in DOMAIN tasks' : w.xid = x /\ tasks'[w].pc = "reply" /\ Head(tasks'[w].out) = "OK" /\ tasks'[w].made = i
          BY <3>3 DEF ToBeTold
        <4>2. CASE w = t
          BY <2>3, <3>1, <4>1, <4>2 DEF CallOf
        <4>3. CASE w # t
          BY <2>3, <3>1, <4>1, <4>3 DEF Claims, ToBeTold
        <4> QED BY <4>2, <4>3
      <3> QED BY <3>1, <3>2, <3>3
    <2>5. New => u.made = fs.next /\ fs'.next = fs.next + 1
      BY <2>2 DEF Creates
    <2>6. CASE ~New
      BY <2>1, <2>4, <2>6, NoNewClaim
    <2>7. CASE New
      <3>1. u.made = fs.next /\ fs'.next = fs.next + 1
        BY <2>5, <2>7
      <3>2. ASSUME NEW x, NEW i, Claims(x, i)' PROVE (Claims(x, i) /\ i # fs.next) \/ (x = t.xid /\ i = fs.next)
        BY <1>0, <2>4, <3>1, <3>2 DEF CreatorInv
      <3>3. ASSUME NEW x, NEW i, Claims(x, i) PROVE i \in Nat /\ i < fs'.next
        BY <1>0, <3>1, <3>3 DEF CreatorInv
      <3> HIDE DEF New
      <3>4. \A x, i : Claims(x, i)' => i \in Nat /\ i < fs'.next
        BY <1>0, <3>1, <3>2, <3>3
      <3>5. \A x, y, i : Claims(x, i)' /\ Claims(y, i)' => x = y
        BY <3>2 DEF CreatorInv
      <3> QED BY <3>4, <3>5 DEF CreatorInv
    <2> QED BY <2>6, <2>7
  <1>7. ASSUME NEW t \in DOMAIN tasks, Ends(t) PROVE CreatorInv'
    <2>1. UNCHANGED <<calls, fs>> /\ tasks' = [u \in DOMAIN tasks \ {t} |-> tasks[u]]
      BY <1>7 DEF Ends
    <2>2. \A x, i : ToBeTold(x, i)' => ToBeTold(x, i)
      BY <2>1 DEF ToBeTold
    <2>3. ASSUME NEW x \in 1 .. Len(calls), NEW i, Told(x, i)' PROVE Told(x, i) \/ ToBeTold(x, i)
      <3>1. CASE answers' = answers
        BY <2>3, <3>1 DEF Told
      <3>2. CASE /\ tasks[t].pc = "reply"
                 /\ answers' = [answers EXCEPT ![t.xid] = Append(@, [st |-> Head(tasks[t].out), id |-> tasks[t].made])]
        <4> DEFINE a == [st |-> Head(tasks[t].out), id |-> tasks[t].made]
                   e == Append(answers[t.xid], a)
                   n == Len(answers[t.xid])
        <4>1. x # t.xid => answers'[x] = answers[x]
          BY <3>2
        <4>2. x = t.xid => answers'[x] = e
          BY <1>0, <3>2
        <4>3. a.st = Head(tasks[t].out) /\ a.id = tasks[t].made
          OBVIOUS
        <4> HIDE DEF a
        <4>4. IsSeq(answers[t.xid])
          BY <1>0
        <4>5. n \in Nat /\ Len(e) = n + 1 /\ e[n + 1] = a /\ IsSeq(e) /\ \A j \in 1 .. n : e[j] = answers[t.xid][j]
          BY <4>4, Added DEF Longer
        <4>6. DOMAIN answers[t.xid] = 1 .. n
          BY <4>4, LenProperties DEF IsSeq
        <4> HIDE DEF e
        <4>7. DOMAIN e = 1 .. (n + 1)
          BY <4>5, LenProperties DEF IsSeq
        <4>8. \A j \in DOMAIN e : e[j] = a \/ (j \in DOMAIN answers[t.xid] /\ e[j] = answers[t.xid][j])
          BY <4>5, <4>6, <4>7
        <4>9. CASE x # t.xid
          BY <2>3, <4>1, <4>9 DEF Told
        <4>10. CASE x = t.xid
          BY <2>3, <3>2, <4>2, <4>3, <4>8, <4>10 DEF Told, ToBeTold
        <4> QED BY <4>9, <4>10
      <3> QED BY <1>7, <3>1, <3>2 DEF Ends
    <2>4. \A x, i : Claims(x, i)' => Claims(x, i)
      BY <2>1, <2>2, <2>3 DEF Claims
    <2> QED BY <1>0, <2>1, <2>4, NoNewClaim
  <1> QED BY <1>1, <1>2, <1>3, <1>4, <1>5, <1>6, <1>7, Steps

LEMMA FirstState == Init => TrackInv /\ OnceInv /\ OwedInv /\ CreatorInv
PROOF
  <1> SUFFICES ASSUME Init PROVE TrackInv /\ OnceInv /\ OwedInv /\ CreatorInv
    OBVIOUS
  <1>1. tasks = <<>> /\ calls = <<>> /\ effects = <<>> /\ answers = <<>> /\ owed = {}
    BY DEF Init
  <1>2. DOMAIN tasks = {} /\ Len(calls) = 0 /\ Len(effects) = 0
    BY <1>1
  <1>3. AttrsOK(fs)
    BY NfsAssumption DEF Init
  <1> QED BY <1>1, <1>2, <1>3 DEF TrackInv, OnceInv, OwedInv, SetIdGoes, CreatorInv, Claims

(***************************************************************************)
(* Enumerations.  The entries a page holds, and what the page that a task  *)
(* is about to send shows of the entries that are due: each is in it, or   *)
(* it is not the last page and the entry comes after its last one.         *)
(***************************************************************************)
Lists(t) == CallOf(t).proc = "READDIRPLUS"
Entries(slots) == {<<slots[k][1], slots[k][2]>> : k \in DOMAIN slots}
PageOf(slots) == IsSeq(slots) /\ \A k \in DOMAIN slots : slots[k][1] = ROOT_INO /\ slots[k][3] # None
PageShows(kept, due) ==
    /\ PageOf(kept.slots)
    /\ \A s \in due : \/ s \in Entries(kept.slots)
                      \/ ~kept.end /\ (kept.slots # <<>> => s[2] > Last(kept.slots)[2])
Missing == listing.due \ ShowsAll

ListingShape ==
    /\ listing \in [cookie : {listing.cookie}, seen : {listing.seen}, due : {listing.due},
                    moved : BOOLEAN, end : {listing.end}]
    /\ \A s \in listing.due : s \in DOMAIN fs.dentry /\ s[1] = ROOT_INO

\* One page is asked for at a time, after the last one.
CookieInv ==
    \A x \in waiting : calls[x].proc = "READDIRPLUS" =>
       /\ calls[x].cookie = listing.cookie /\ calls[x].id = ROOT_INO
       /\ \A y \in waiting : calls[y].proc = "READDIRPLUS" => x = y

\* What is missing comes after the entry that the cookie stands for.
After(f, c, S) == c = None \/ \E n \in Names : NamesOf(f, c) = {<<ROOT_INO, n>>} /\ \A s \in S : s[2] > n
BehindInv == ~listing.moved => After(fs, listing.cookie, Missing)

PagesInv ==
    \A t \in DOMAIN tasks : Lists(t) =>
       IF tasks[t].pc = "reply"
       THEN tasks[t].out = <<"OK">> /\ t.xid \in waiting /\ ~listing.moved => PageShows(Kept(t), Missing)
       ELSE tasks[t].out = <<>>

ListInv == ListingShape /\ CookieInv /\ BehindInv /\ PagesInv /\ ListingComplete

(***************************************************************************)
(* readdir lists a directory's names in order: Ordered numbers them from 1 *)
(* without a gap, whatever set of names it is.                             *)
(***************************************************************************)
Here(f, d) == {s[2] : s \in {x \in DOMAIN f.dentry : x[1] = d}}
Below(H, n) == {m \in H : m < n}
Rank(H) == [n \in H |-> Cardinality(Below(H, n))]

LEMMA RankGrows ==
    ASSUME NEW H \in SUBSET Nat, IsFiniteSet(H), NEW m \in H, NEW n \in H, m < n
    PROVE  Rank(H)[m] < Rank(H)[n]
PROOF
  <1> DEFINE A == Below(H, m)
             B == Below(H, n)
  <1>0. \A x \in H : x \in Nat
    OBVIOUS
  <1>1. A \subseteq B /\ m \in B /\ m \notin A /\ B \subseteq H
    <2>1. \A x \in H : x < m => x < n
      BY <1>0
    <2>2. ~(m < m)
      BY <1>0
    <2> QED BY <2>1, <2>2 DEF Below
  <1> HIDE DEF A, B
  <1>2. IsFiniteSet(B)
    BY <1>1, FS_Subset
  <1>3. IsFiniteSet(A) /\ Cardinality(A) <= Cardinality(B) /\ Cardinality(A) # Cardinality(B)
    BY <1>1, <1>2, FS_Subset
  <1>4. Cardinality(A) \in Nat /\ Cardinality(B) \in Nat
    BY <1>2, <1>3, FS_CardinalityType
  <1>5. Cardinality(A) < Cardinality(B)
    BY <1>3, <1>4
  <1> QED BY <1>5 DEF Rank, A, B

LEMMA RankOnto ==
    ASSUME NEW H \in SUBSET Nat, IsFiniteSet(H)
    PROVE  /\ Cardinality(H) \in Nat
           /\ Rank(H) \in [H -> 0 .. (Cardinality(H) - 1)]
           /\ \A k \in 0 .. (Cardinality(H) - 1) : \E n \in H : Rank(H)[n] = k
PROOF
  <1> DEFINE N == Cardinality(H)
             I == 0 .. (N - 1)
             r == Rank(H)
  <1>1. N \in Nat
    BY FS_CardinalityType
  <1>2. ASSUME NEW n \in H PROVE Cardinality(Below(H, n)) \in I
    <2> DEFINE B == Below(H, n)
    <2>1. B \in SUBSET H /\ n \notin B
      BY DEF Below
    <2> HIDE DEF B
    <2>2. IsFiniteSet(B) /\ Cardinality(B) <= N /\ Cardinality(B) # N
      BY <2>1, FS_Subset
    <2>3. Cardinality(B) \in Nat
      BY <2>2, FS_CardinalityType
    <2> HIDE DEF N
    <2> QED BY <1>1, <2>2, <2>3 DEF B
  <1>3. r \in [H -> I]
    BY <1>2 DEF Rank
  <1>4. ASSUME NEW m \in H, NEW n \in H, r[m] = r[n] PROVE m = n
    <2>1. m \in Nat /\ n \in Nat /\ r[m] \in Nat /\ r[n] \in Nat
      BY <1>1, <1>3
    <2>2. ~(m < n) /\ ~(n < m)
      BY <1>4, <2>1, RankGrows
    <2> QED BY <2>1, <2>2
  <1> HIDE DEF r
  <1>5. r \in Injection(H, I)
    BY <1>3, <1>4 DEF Injection, IsInjective
  <1>6. IsFiniteSet(I) /\ Cardinality(I) = N
    <2> HIDE DEF N
    <2>1. 0 \in Int /\ N - 1 \in Int
      BY <1>1
    <2>2. IsFiniteSet(0 .. (N - 1)) /\ Cardinality(0 .. (N - 1)) = IF 0 > N - 1 THEN 0 ELSE (N - 1) - 0 + 1
      BY <2>1, FS_Interval
    <2>3. (IF 0 > N - 1 THEN 0 ELSE (N - 1) - 0 + 1) = N
      BY <1>1
    <2> QED BY <2>2, <2>3
  <1> HIDE DEF I
  <1>7. r \in Surjection(H, I)
    BY <1>5, <1>6, FS_Injection
  <1>8. \A k \in I : \E n \in H : r[n] = k
    BY <1>7 DEF Surjection
  <1> QED BY <1>1, <1>3, <1>8 DEF r, I

LEMMA InOrder ==
    ASSUME NEW f, FsOK(f), NEW d
    PROVE  /\ Here(f, d) \subseteq Names
           /\ IsFiniteSet(Here(f, d)) /\ Cardinality(Here(f, d)) \in Nat
           /\ Ordered(f, d) \in [1 .. Cardinality(Here(f, d)) -> Here(f, d)]
           /\ \A n \in Here(f, d) : \E k \in 1 .. Cardinality(Here(f, d)) : Ordered(f, d)[k] = n
           /\ \A j, k \in 1 .. Cardinality(Here(f, d)) : j < k => Ordered(f, d)[j] < Ordered(f, d)[k]
PROOF
  <1> DEFINE H == Here(f, d)
             N == Cardinality(H)
             D == {x \in DOMAIN f.dentry : x[1] = d}
             r == Rank(H)
             all == Ordered(f, d)
  <1>1. IsFiniteSet(DOMAIN f.dentry) /\ DOMAIN f.dentry \subseteq Ids \X Names
    BY DEF FsOK
  <1>2. H \subseteq Names
    BY <1>1 DEF Here
  <1>3. IsFiniteSet(H)
    <2>1. IsFiniteSet(D)
      BY <1>1, FS_Subset
    <2> DEFINE g == [s \in D |-> s[2]]
    <2>2. g \in Surjection(D, H)
      BY DEF Surjection, Here
    <2> HIDE DEF g, D, H
    <2> QED BY <2>1, <2>2, FS_Surjection
  <1>4. H \in SUBSET Nat
    BY <1>2, NameAssumption
  <1>5. all = [k \in 1 .. N |-> CHOOSE n \in H : Cardinality({m \in H : m < n}) = k - 1]
    BY DEF Ordered, Here
  <1>6. \A n \in H : Cardinality({m \in H : m < n}) = r[n]
    BY DEF Rank, Below
  <1> HIDE DEF H, all, r
  <1>7. N \in Nat /\ r \in [H -> 0 .. (N - 1)] /\ \A k \in 0 .. (N - 1) : \E n \in H : r[n] = k
    BY <1>3, <1>4, RankOnto DEF r
  <1>8. \A m, n \in H : m < n => r[m] < r[n]
    BY <1>3, <1>4, RankGrows DEF r
  <1> HIDE DEF N
  <1>9. ASSUME NEW k \in 1 .. N PROVE all[k] \in H /\ r[all[k]] = k - 1
    <2>1. k - 1 \in 0 .. (N - 1)
      BY <1>7
    <2>2. \E n \in H : Cardinality({m \in H : m < n}) = k - 1
      BY <1>6, <1>7, <2>1
    <2>3. all[k] = CHOOSE n \in H : Cardinality({m \in H : m < n}) = k - 1
      BY <1>5
    <2>4. all[k] \in H /\ Cardinality({m \in H : m < all[k]}) = k - 1
      BY <2>2, <2>3
    <2> QED BY <1>6, <2>4
  <1>10. ASSUME NEW n \in H PROVE \E k \in 1 .. N : all[k] = n
    <2> DEFINE k == r[n] + 1
    <2>1. k \in 1 .. N /\ k - 1 = r[n]
      BY <1>7
    <2>2. all[k] \in H /\ r[all[k]] = r[n]
      BY <1>9, <2>1
    <2>3. all[k] \in Nat /\ n \in Nat /\ r[n] \in Nat
      <3>1. r[n] \in 0 .. (N - 1)
        BY <1>7
      <3>2. r[n] \in Nat
        BY <1>7, <3>1
      <3> HIDE DEF k
      <3> QED BY <1>4, <2>2, <3>2
    <2>4. ~(all[k] < n) /\ ~(n < all[k])
      BY <1>8, <2>2, <2>3
    <2> QED BY <2>1, <2>3, <2>4
  <1>11. ASSUME NEW j \in 1 .. N, NEW k \in 1 .. N, j < k PROVE all[j] < all[k]
    <2>1. all[j] \in H /\ all[k] \in H /\ r[all[j]] = j - 1 /\ r[all[k]] = k - 1
      BY <1>9
    <2>2. all[j] \in Nat /\ all[k] \in Nat
      BY <1>4, <2>1
    <2>3. all[j] # all[k]
      BY <1>11, <2>1
    <2>4. ~(all[k] < all[j])
      BY <1>8, <1>11, <2>1
    <2> QED BY <2>2, <2>3, <2>4
  <1>12. all \in [1 .. N -> H]
    BY <1>5, <1>9
  <1> QED BY <1>2, <1>3, <1>7, <1>10, <1>11, <1>12 DEF H, N, all

LEMMA MinOfTwo ==
    ASSUME NEW a \in Nat, NEW b \in Nat
    PROVE  Min({a, b}) = IF a <= b THEN a ELSE b
PROOF
  <1> DEFINE m == IF a <= b THEN a ELSE b
  <1>1. m \in {a, b} /\ \A y \in {a, b} : m <= y
    OBVIOUS
  <1>2. \A x \in {a, b} : (\A y \in {a, b} : x <= y) => x = m
    OBVIOUS
  <1> QED BY <1>1, <1>2 DEF Min

\* A page of an ordered sequence of names, cut to what fits.
Cut(all, skipped, max) == SubSeq(all, skipped + 1, Min({Len(all), skipped + max}))
Fitting(page, fit) == SubSeq(page, 1, Min({fit, Len(page)}))
Reaches(all, skipped, page, q, j) ==
    \/ \E i \in 1 .. Len(q) : q[i] = all[j]
    \/ /\ ~(Len(page) + skipped >= Len(all) /\ Len(q) = Len(page))
       /\ q # <<>> => all[j] > Last(q)
ReachesAll(all, N, skipped, page, q) == \A j \in 1 .. N : skipped < j => Reaches(all, skipped, page, q, j)
LEMMA CutShows ==
    ASSUME NEW H \in SUBSET Nat, NEW N \in Nat, NEW all \in [1 .. N -> H],
           \A j, k \in 1 .. N : j < k => all[j] < all[k],
           NEW skipped \in 0 .. N, NEW max \in Nat, NEW fit \in Nat,
           NEW page, page = Cut(all, skipped, max), NEW q, q = Fitting(page, fit)
    PROVE  q \in Seq(H) /\ ReachesAll(all, N, skipped, page, q)
PROOF
  <1>1. all \in Seq(H) /\ Len(all) = N
    OBVIOUS
  <1> DEFINE top == IF N <= skipped + max THEN N ELSE skipped + max
             P == top - skipped
             L == IF fit <= P THEN fit ELSE P
  <1>2. top \in Nat /\ top <= N /\ skipped <= top /\ P \in Nat /\ L \in Nat /\ L <= P /\ P = top - skipped
    OBVIOUS
  <1>3. page = SubSeq(all, skipped + 1, top)
    <2>1. skipped + max \in Nat
      OBVIOUS
    <2>2. Min({N, skipped + max}) = top
      BY <2>1, MinOfTwo
    <2> QED BY <1>1, <2>2 DEF Cut
  <1>4. top = N \/ P = max
    OBVIOUS
  <1> HIDE DEF top, P
  <1>5. page \in Seq(H) /\ Len(page) = P /\ \A i \in 1 .. P : page[i] = all[skipped + i]
    <2>1. \A i \in (skipped + 1) .. top : all[i] \in H
      BY <1>2
    <2>2. skipped + 1 \in Int /\ top \in Int
      BY <1>2
    <2>3. /\ page \in Seq(H)
          /\ Len(page) = IF skipped + 1 <= top THEN top - (skipped + 1) + 1 ELSE 0
          /\ \A i \in 1 .. (top - (skipped + 1) + 1) : page[i] = all[(skipped + 1) + i - 1]
      BY <1>3, <2>1, <2>2, SubSeqProperties
    <2>4. Len(page) = P
      BY <1>2, <2>3
    <2>5. top - (skipped + 1) + 1 = P
      BY <1>2
    <2>6. \A i \in 1 .. P : (skipped + 1) + i - 1 = skipped + i
      BY <1>2
    <2> QED BY <2>3, <2>4, <2>5, <2>6
  <1>6. q = SubSeq(page, 1, L)
    <2>1. Min({fit, P}) = L
      BY <1>2, MinOfTwo
    <2> QED BY <1>5, <2>1 DEF Fitting
  <1> HIDE DEF L
  <1>7. q \in Seq(H) /\ Len(q) = L /\ \A i \in 1 .. L : q[i] = all[skipped + i]
    <2>1. \A i \in 1 .. L : page[i] \in H /\ page[i] = all[skipped + i]
      BY <1>2, <1>5
    <2>2. 1 \in Int /\ L \in Int
      BY <1>2
    <2>3. /\ q \in Seq(H)
          /\ Len(q) = IF 1 <= L THEN L - 1 + 1 ELSE 0
          /\ \A i \in 1 .. (L - 1 + 1) : q[i] = page[1 + i - 1]
      BY <1>6, <2>1, <2>2, SubSeqProperties
    <2>4. Len(q) = L /\ L - 1 + 1 = L
      BY <1>2, <2>3
    <2>5. \A i \in 1 .. L : 1 + i - 1 = i
      BY <1>2
    <2> QED BY <2>1, <2>3, <2>4, <2>5
  <1>8. ASSUME NEW j \in 1 .. N, skipped < j PROVE Reaches(all, skipped, page, q, j)
    <2>1. CASE j <= skipped + L
      <3>1. j - skipped \in 1 .. L /\ skipped + (j - skipped) = j
        BY <1>2, <1>8, <2>1
      <3>2. q[j - skipped] = all[j]
        BY <1>7, <3>1
      <3> QED BY <1>7, <3>1, <3>2 DEF Reaches
    <2>2. CASE skipped + L < j
      <3>1. ~(P + skipped >= N /\ L = P)
        BY <1>2, <2>2
      <3>2. ASSUME q # <<>> PROVE all[j] > Last(q)
        <4>1. L # 0
          BY <1>7, <3>2
        <4>2. L \in 1 .. L /\ skipped + L \in 1 .. N /\ skipped + L < j
          BY <1>2, <2>2, <4>1
        <4>3. Last(q) = all[skipped + L]
          BY <1>7, <4>2 DEF Last
        <4>4. all[skipped + L] < all[j]
          BY <4>2
        <4>5. all[j] \in Nat /\ all[skipped + L] \in Nat
          BY <4>2
        <4> QED BY <4>3, <4>4, <4>5
      <3> QED BY <1>1, <1>5, <1>7, <3>1, <3>2 DEF Reaches
    <2>3. j <= skipped + L \/ skipped + L < j
      BY <1>2
    <2> QED BY <2>1, <2>2, <2>3
  <1> QED BY <1>7, <1>8 DEF ReachesAll

\* Where a page after the entry of inode c begins: behind that entry.
Begins(f, d, c, max, p, k) ==
    /\ k \in 0 .. Cardinality(Here(f, d))
    /\ p.names = Cut(Ordered(f, d), k, max)
    /\ p.end <=> Len(p.names) + k >= Len(Ordered(f, d))
    /\ IF c = None THEN k = 0 ELSE \A n : NamesOf(f, c) = {<<d, n>>} => k # 0 /\ Ordered(f, d)[k] = n
LEMMA ReaddirBegins ==
    ASSUME NEW f, FsOK(f), NEW d, NEW c, NEW max \in Nat, NEW p, p = vfs_readdir(f, d, c, max),
           c = None \/ \E nc : NamesOf(f, c) = {<<d, nc>>}
    PROVE  \E k \in Nat : Begins(f, d, c, max, p, k)
PROOF
  <1> DEFINE H == Here(f, d)
             N == Cardinality(H)
             all == Ordered(f, d)
             found == {k \in DOMAIN all : At(f, d, all[k]) = c}
             skipped == IF c = None THEN 0 ELSE IF found = {} THEN Len(all) ELSE Min(found)
             page == Cut(all, skipped, max)
  <1>1. p = [names |-> page, end |-> Len(page) + skipped >= Len(all)]
    BY DEF vfs_readdir, Cut
  <1>2. p.names = page /\ (p.end <=> Len(page) + skipped >= Len(all))
    <2> HIDE DEF page, skipped, all
    <2> DEFINE e == Len(page) + skipped >= Len(all)
    <2>1. p = [names |-> page, end |-> e]
      BY <1>1
    <2> HIDE DEF e
    <2>2. p.names = page /\ p.end = e
      BY <2>1
    <2>3. p.end <=> e
      BY <2>2
    <2> QED BY <2>2, <2>3 DEF e
  <1>3. /\ H \in SUBSET Nat /\ IsFiniteSet(H) /\ N \in Nat /\ all \in [1 .. N -> H]
        /\ \A m \in H : \E k \in 1 .. N : all[k] = m
        /\ \A j, k \in 1 .. N : j < k => all[j] < all[k]
    <2>1. H \subseteq Names /\ IsFiniteSet(H) /\ N \in Nat /\ all \in [1 .. N -> H]
      BY InOrder
    <2>2. /\ \A m \in H : \E k \in 1 .. N : all[k] = m
          /\ \A j, k \in 1 .. N : j < k => all[j] < all[k]
      BY InOrder
    <2> HIDE DEF H, N, all
    <2> QED BY <2>1, <2>2, NameAssumption
  <1> HIDE DEF H, N, all
  <1>4. /\ skipped \in 0 .. N
        /\ IF c = None THEN skipped = 0 ELSE \A n : NamesOf(f, c) = {<<d, n>>} => skipped # 0 /\ all[skipped] = n
    <2>1. CASE c = None
      BY <1>3, <2>1
    <2>2. CASE c # None
      <3>1. PICK nc : NamesOf(f, c) = {<<d, nc>>}
        BY <2>2
      <3>2. <<d, nc>> \in DOMAIN f.dentry /\ f.dentry[<<d, nc>>] = c
        BY <3>1 DEF NamesOf
      <3>3. nc \in H
        BY <3>2 DEF H, Here
      <3>4. PICK i \in 1 .. N : all[i] = nc
        BY <1>3, <3>3
      <3>5. ASSUME NEW m \in H, At(f, d, m) = c PROVE m = nc
        <4>1. <<d, m>> \in NamesOf(f, c)
          BY <2>2, <3>5 DEF At, NamesOf
        <4>2. <<d, m>> = <<d, nc>>
          BY <3>1, <4>1
        <4> QED BY <4>2
      <3>6. At(f, d, nc) = c
        BY <3>2 DEF At
      <3>7. ASSUME NEW k \in 1 .. N, all[k] = nc PROVE k = i
        <4>1. ~(k < i) /\ ~(i < k)
          <5>1. ~(nc < nc)
            BY <1>3, <3>3
          <5> QED BY <1>3, <3>4, <3>7, <5>1
        <4> QED BY <1>3, <4>1
      <3>8. DOMAIN all = 1 .. N /\ \A k \in 1 .. N : all[k] \in H
        BY <1>3
      <3>9. found = {i}
        <4>1. i \in found
          BY <3>4, <3>6, <3>8
        <4>2. ASSUME NEW k \in found PROVE k = i
          BY <3>5, <3>7, <3>8
        <4> QED BY <4>1, <4>2
      <3> HIDE DEF found
      <3>10. Min({i}) = i
        BY <1>3 DEF Min
      <3>11. skipped = i
        BY <2>2, <3>9, <3>10
      <3>12. ASSUME NEW n, NamesOf(f, c) = {<<d, n>>} PROVE n = nc
        <4>1. <<d, n>> \in {<<d, nc>>}
          BY <3>1, <3>12
        <4>2. <<d, n>> = <<d, nc>>
          BY <4>1
        <4> QED BY <4>2
      <3> HIDE DEF skipped
      <3>13. skipped \in 0 .. N /\ skipped # 0
        BY <1>3, <3>4, <3>11
      <3>14. \A n : NamesOf(f, c) = {<<d, n>>} => all[skipped] = n
        BY <3>4, <3>11, <3>12
      <3> QED BY <2>2, <3>13, <3>14
    <2> QED BY <2>1, <2>2
  <1> HIDE DEF skipped
  <1>5. Begins(f, d, c, max, p, skipped)
    BY <1>2, <1>4 DEF Begins, H, N, all
  <1>6. skipped \in Nat
    BY <1>3, <1>4
  <1> QED BY <1>5, <1>6

\* What the page shows: every name behind that entry, up to the page's own
\* last name.
Shown(p, q, n) ==
    \/ \E i \in 1 .. Len(q) : q[i] = n
    \/ /\ ~(p.end /\ Len(q) = Len(p.names))
       /\ q # <<>> => n > Last(q)
LEMMA ReaddirShows ==
    ASSUME NEW f, FsOK(f), NEW d, NEW c, NEW max \in Nat, NEW fit \in Nat,
           NEW p, p = vfs_readdir(f, d, c, max), NEW q, q = Fitting(p.names, fit),
           c = None \/ \E nc : NamesOf(f, c) = {<<d, nc>>}
    PROVE  /\ q \in Seq(Here(f, d))
           /\ \A n \in Here(f, d) : (\A nc : NamesOf(f, c) = {<<d, nc>>} => n > nc) => Shown(p, q, n)
PROOF
  <1> DEFINE H == Here(f, d)
             N == Cardinality(H)
             all == Ordered(f, d)
             page == p.names
  <1>1. PICK k \in Nat : Begins(f, d, c, max, p, k)
    BY ReaddirBegins
  <1>2. /\ H \in SUBSET Nat /\ N \in Nat /\ all \in [1 .. N -> H]
        /\ \A m \in H : \E j \in 1 .. N : all[j] = m
        /\ \A j, l \in 1 .. N : j < l => all[j] < all[l]
    <2>1. H \subseteq Names /\ IsFiniteSet(H) /\ N \in Nat /\ all \in [1 .. N -> H]
      BY InOrder
    <2>2. /\ \A m \in H : \E j \in 1 .. N : all[j] = m
          /\ \A j, l \in 1 .. N : j < l => all[j] < all[l]
      BY InOrder
    <2> HIDE DEF H, N, all
    <2> QED BY <2>1, <2>2, NameAssumption
  <1>3. /\ k \in 0 .. N /\ page = Cut(all, k, max) /\ (p.end <=> Len(page) + k >= Len(all))
        /\ c = None => k = 0
        /\ c # None => \A n : NamesOf(f, c) = {<<d, n>>} => k # 0 /\ all[k] = n
    BY <1>1 DEF Begins
  <1> HIDE DEF H, N, all, page
  <1>4. k \in 0 .. N /\ page = Cut(all, k, max) /\ q = Fitting(page, fit)
    BY <1>3 DEF page
  <1>5. q \in Seq(H) /\ ReachesAll(all, N, k, page, q)
    <2>1. H \in SUBSET Nat /\ N \in Nat /\ all \in [1 .. N -> H] /\ \A j, l \in 1 .. N : j < l => all[j] < all[l]
      BY <1>2
    <2> QED BY <1>4, <2>1, CutShows, SMTT(30)
  <1>6. ASSUME NEW n \in H, \A nc : NamesOf(f, c) = {<<d, nc>>} => n > nc PROVE Shown(p, q, n)
    <2>1. PICK j \in 1 .. N : all[j] = n
      BY <1>2
    <2>2. k < j
      <3>1. CASE c = None
        BY <1>2, <1>3, <3>1
      <3>2. CASE c # None
        <4>1. PICK nc : NamesOf(f, c) = {<<d, nc>>}
          BY <3>2
        <4>2. k # 0 /\ all[k] = nc /\ n > nc
          BY <1>3, <1>6, <3>2, <4>1
        <4>6. k \in 1 .. N
          BY <1>2, <1>3, <4>2
        <4>3. k \in 1 .. N /\ all[k] \in Nat /\ all[j] \in Nat
          BY <1>2, <4>6
        <4>4. ~(all[j] < all[k]) /\ all[j] # all[k]
          BY <2>1, <4>2, <4>3
        <4>5. ~(j < k) /\ j # k
          BY <1>2, <4>3, <4>4
        <4> QED BY <1>2, <4>3, <4>5
      <3> QED BY <3>1, <3>2
    <2>3. Reaches(all, k, page, q, j)
      BY <1>5, <2>2 DEF ReachesAll
    <2> QED BY <1>3, <2>1, <2>3 DEF Reaches, Shown, page
  <1> QED BY <1>5, <1>6 DEF H

(***************************************************************************)
(* The steps, as far as enumerations are concerned.                        *)
(***************************************************************************)
Quiet(t) ==
    /\ listing' = listing /\ fs'.dentry = fs.dentry
    /\ \E u : /\ tasks' = [tasks EXCEPT ![t] = u]
              /\ Lists(t) => IF u.pc = "reply" THEN u.out # <<"OK">> ELSE u.out = <<>>
Paged(t) == /\ Lists(t) /\ tasks[t].pc = "op"
            /\ Page(t, vfs_readdir(fs, CallOf(t).id, CallOf(t).cookie, PageSize))
Performed(t) == ~Lists(t) /\ \E r, o : Perform(t, r, o)

LEMMA HandlersList ==
    ASSUME BaseInv, PagesInv, NEW t \in DOMAIN tasks, Handles(t)
    PROVE  Quiet(t) \/ Paged(t) \/ Performed(t)
PROOF
  <1> DEFINE c == CallOf(t)
             pc == tasks[t].pc
             Good == Quiet(t) \/ Paged(t) \/ Performed(t)
  <1>0. ShapedTask(tasks[t]) /\ FsOK(fs) /\ (Lists(t) /\ pc # "reply" => tasks[t].out = <<>>)
    BY DEF BaseInv, TasksInv, TaskOK, PagesInv
  <1>1. ASSUME NEW st, Respond(t, st), Lists(t) => pc # "reply" /\ st # "OK" PROVE Quiet(t)
    <2> DEFINE u == [tasks[t] EXCEPT !.pc = "reply", !.out = Append(@, st)]
    <2>1. tasks' = [tasks EXCEPT ![t] = u] /\ listing' = listing /\ fs' = fs
      BY <1>1 DEF Respond, Become, client
    <2>2. u.out = Append(tasks[t].out, st) /\ u.pc = "reply"
      BY <1>0 DEF ShapedTask
    <2>3. ASSUME Lists(t) PROVE u.out # <<"OK">>
      <3> HIDE DEF u
      <3>1. Append(<<>>, st) = <<st>>
        OBVIOUS
      <3>2. u.out = <<st>> /\ st # "OK"
        BY <1>0, <1>1, <2>2, <2>3, <3>1
      <3> QED BY <3>2
    <2> QED BY <2>1, <2>2, <2>3 DEF Quiet
  <1>2. ASSUME NEW p, NEW v, Proceed(t, p, v), Lists(t) => pc # "reply" /\ p # "reply" PROVE Quiet(t)
    <2> DEFINE u == [tasks[t] EXCEPT !.pc = p, !.kept = v]
    <2>1. tasks' = [tasks EXCEPT ![t] = u] /\ listing' = listing /\ fs' = fs
      BY <1>2 DEF Proceed, Become, client
    <2>2. u.out = tasks[t].out /\ u.pc = p
      BY <1>0 DEF ShapedTask
    <2> QED BY <1>0, <1>2, <2>1, <2>2 DEF Quiet
  <1>3. ASSUME NEW ok, NEW p, NEW v, Decide(t, ok, p, v), Lists(t) => pc # "reply" /\ p # "reply" PROVE Quiet(t)
    BY <1>1, <1>2, <1>3 DEF Decide
  <1>4. ASSUME NEW r, NEW o, Perform(t, r, o), ~Lists(t) PROVE Good
    BY <1>4 DEF Performed
  <1>5. ASSUME NEW u, Become(t, u), fs'.dentry = fs.dentry, ~Lists(t) PROVE Quiet(t)
    BY <1>5 DEF Quiet, Become, client
  <1>6. ASSUME handle_mount(t) \/ handle_portmap(t) \/ unavailable(t) \/ nfsproc3_null(t) PROVE Good
    BY <1>1, <1>6 DEF handle_mount, handle_portmap, unavailable, nfsproc3_null, In, Lists
  <1>7. ASSUME nfsproc3_getattr(t) PROVE Good
    BY <1>1, <1>7 DEF nfsproc3_getattr, Admit, fh_to_id, In, Lists
  <1>8. ASSUME nfsproc3_fsinfo(t) \/ nfsproc3_pathconf(t) \/ nfsproc3_fsstat(t) PROVE Good
    BY <1>1, <1>8 DEF nfsproc3_fsinfo, nfsproc3_pathconf, nfsproc3_fsstat, fh_to_id, In, Lists
  <1>9. ASSUME nfsproc3_access(t) PROVE Good
    BY <1>1, <1>5, <1>9 DEF nfsproc3_access, Admit, fh_to_id, In, Lists
  <1>10. ASSUME nfsproc3_lookup(t) PROVE Good
    BY <1>1, <1>2, <1>3, <1>10 DEF nfsproc3_lookup, Admit, fh_to_id, In, Lists
  <1>11. ASSUME nfsproc3_read(t) \/ nfsproc3_readlink(t) PROVE Good
    BY <1>1, <1>2, <1>3, <1>11 DEF nfsproc3_read, nfsproc3_readlink, Admit, fh_to_id, In, Lists
  <1>12. ASSUME nfsproc3_readdirplus(t) PROVE Good
    BY <1>1, <1>3, <1>12 DEF nfsproc3_readdirplus, MayList, Admit, fh_to_id, In, Lists, Paged
  <1>13. ASSUME nfsproc3_readdir(t) PROVE Good
    <2>1. ASSUME NEW p, Page(t, p), ~Lists(t) PROVE Good
      BY <1>5, <2>1 DEF Page
    <2> QED BY <1>1, <1>3, <1>13, <2>1 DEF nfsproc3_readdir, MayList, Admit, fh_to_id, In, Lists
  <1>14. ASSUME nfsproc3_write(t) PROVE Good
    <2> DEFINE w == vfs_write(fs, c.id)
    <2>0. ~Lists(t)
      BY <1>14 DEF nfsproc3_write, In, Lists
    <2>1. CASE In(t, "WRITE", "start")
      BY <1>1, <1>3, <1>14, <2>0, <2>1 DEF nfsproc3_write, Admit, fh_to_id, In
    <2>2. CASE In(t, "WRITE", "op")
      <3>1. CASE \E u : w.st = "OK" /\ Become(t, u) /\ fs' = w.fs
        <4>1. Exists(fs, c.id) /\ w = Done(Touch(fs, c.id), c.id)
          BY <3>1 DEF vfs_write, Failed, Done
        <4>2. w.fs.dentry = fs.dentry
          BY <1>0, <4>1, TouchGood DEF Done
        <4> QED BY <1>5, <2>0, <3>1, <4>2
      <3>2. CASE \E o : Perform(t, w, o)
        BY <1>4, <2>0, <3>2
      <3> QED BY <1>14, <2>2, <3>1, <3>2 DEF nfsproc3_write, In
    <2>3. CASE In(t, "WRITE", "clear")
      <3>1. \E r, o : Perform(t, r, o)
        BY <1>14, <2>3 DEF nfsproc3_write, In
      <3> QED BY <1>4, <2>0, <3>1
    <2> QED BY <1>14, <2>1, <2>2, <2>3 DEF nfsproc3_write
  <1>15. ASSUME nfsproc3_setattr(t) PROVE Good
    <2>0. ~Lists(t)
      BY <1>15 DEF nfsproc3_setattr, In, Lists
    <2>1. CASE In(t, "SETATTR", "start")
      BY <1>1, <1>5, <1>15, <2>0, <2>1 DEF nfsproc3_setattr, Admit, fh_to_id, In
    <2>2. CASE In(t, "SETATTR", "op")
      <3>1. \E r, o : Perform(t, r, o)
        BY <1>15, <2>2 DEF nfsproc3_setattr, In
      <3> QED BY <1>4, <2>0, <3>1
    <2> QED BY <1>15, <2>1, <2>2 DEF nfsproc3_setattr
  <1>16. ASSUME NEW d, NEW p, MayModify(t, d, p), ~Lists(t) PROVE Good
    BY <1>1, <1>3, <1>16 DEF MayModify, Admit, fh_to_id
  <1>17. ASSUME nfsproc3_create(t) PROVE Good
    BY <1>1, <1>2, <1>4, <1>16, <1>17 DEF nfsproc3_create, In, Lists
  <1>18. ASSUME nfsproc3_mkdir(t) \/ nfsproc3_symlink(t) \/ nfsproc3_mknod(t) PROVE Good
    BY <1>4, <1>16, <1>18 DEF nfsproc3_mkdir, nfsproc3_symlink, nfsproc3_mknod, In, Lists
  <1>19. ASSUME nfsproc3_link(t) PROVE Good
    BY <1>1, <1>2, <1>4, <1>16, <1>19 DEF nfsproc3_link, Admit, fh_to_id, In, Lists
  <1>20. ASSUME NEW a, NEW d, NEW n, NEW p, NEW q, LookEntry(t, a, d, n, p, q), ~Lists(t) PROVE Good
    BY <1>2, <1>3, <1>20 DEF LookEntry
  <1>21. ASSUME NEW a, NEW k, NEW p, NEW q, FromDir(t, a, k, p, q), ~Lists(t) PROVE Good
    BY <1>2, <1>3, <1>21 DEF FromDir
  <1>22. ASSUME nfsproc3_remove(t) PROVE Good
    BY <1>1, <1>3, <1>4, <1>20, <1>21, <1>22 DEF nfsproc3_remove, Admit, fh_to_id, In, Lists
  <1>23. ASSUME nfsproc3_rename(t) PROVE Good
    BY <1>1, <1>2, <1>3, <1>4, <1>20, <1>21, <1>23 DEF nfsproc3_rename, Admit, fh_to_id, In, Lists
  <1> QED BY <1>6, <1>7, <1>8, <1>9, <1>10, <1>11, <1>12, <1>13, <1>14, <1>15, <1>17, <1>18, <1>19, <1>22, <1>23 DEF Handles

\* Steps that leave the enumeration and the directories alone.
LEMMA ListingKept ==
    ASSUME ListInv, listing' = listing, fs'.dentry = fs.dentry,
           \A x \in waiting' : calls'[x].proc = "READDIRPLUS" => x \in waiting /\ calls'[x] = calls[x],
           \A t \in DOMAIN tasks' : Lists(t)' =>
              IF tasks'[t].pc = "reply"
              THEN tasks'[t].out = <<"OK">> => t \in DOMAIN tasks /\ tasks'[t] = tasks[t] /\ calls'[t.xid] = calls[t.xid]
              ELSE tasks'[t].out = <<>>
    PROVE  ListInv'
PROOF
  <1>1. Missing' = Missing /\ ShowsAll' = ShowsAll
    BY DEF Missing, ShowsAll
  <1>2. ListingShape'
    BY DEF ListInv, ListingShape
  <1>3. CookieInv'
    BY DEF ListInv, CookieInv
  <1>4. BehindInv'
    <2>1. NamesOf(fs', listing.cookie) = NamesOf(fs, listing.cookie)
      BY DEF NamesOf
    <2> QED BY <1>1, <2>1 DEF ListInv, BehindInv, After
  <1>5. PagesInv'
    <2> SUFFICES ASSUME NEW t \in DOMAIN tasks', Lists(t)'
                 PROVE  IF tasks'[t].pc = "reply"
                        THEN tasks'[t].out = <<"OK">> /\ t.xid \in waiting' /\ ~listing.moved => PageShows(Kept(t)', Missing)
                        ELSE tasks'[t].out = <<>>
      BY <1>1 DEF PagesInv
    <2>1. CASE tasks'[t].pc = "reply" /\ tasks'[t].out = <<"OK">> /\ t.xid \in waiting'
      <3>1. t \in DOMAIN tasks /\ tasks'[t] = tasks[t] /\ calls'[t.xid] = calls[t.xid]
        BY <2>1
      <3>2. Lists(t)
        BY <3>1 DEF Lists, CallOf
      <3>3. t.xid \in waiting
        BY <2>1 DEF Lists, CallOf
      <3>4. Kept(t)' = Kept(t)
        BY <3>1 DEF Kept
      <3> QED BY <2>1, <3>1, <3>2, <3>3, <3>4 DEF ListInv, PagesInv
    <2> QED BY <2>1
  <1>6. ListingComplete'
    BY <1>1 DEF ListInv, ListingComplete
  <1> QED BY <1>2, <1>3, <1>4, <1>5, <1>6 DEF ListInv

\* A new enumeration, or its next page: no other page is under way.
LEMMA SendList ==
    ASSUME BaseInv, ListInv, NEW c \in Clients, SendReaddirplus(c)
    PROVE  ListInv'
PROOF
  <1> DEFINE n == Len(calls) + 1
             k == [[Call("READDIRPLUS", ROOT_INO, None, None, None, None) EXCEPT !.cookie = listing'.cookie] EXCEPT !.c = c]
  <1>1. /\ calls' = Append(calls, k) /\ waiting' = waiting \cup {Len(calls')}
        /\ Spawn({Task(Len(calls'), 1)}) /\ fs' = fs
        /\ \A x \in waiting : calls[x].proc # "READDIRPLUS"
    BY DEF SendReaddirplus, Send
  <1>2. k.proc = "READDIRPLUS" /\ k.id = ROOT_INO /\ k.cookie = listing'.cookie
    BY DEF Call
  <1> HIDE DEF k
  <1>3. IsSeq(calls) /\ waiting \subseteq 1 .. Len(calls)
    BY DEF BaseInv, CallsInv
  <1>4. Len(calls) \in Nat /\ Len(calls') = n /\ calls'[n] = k /\ \A x \in 1 .. Len(calls) : calls'[x] = calls[x]
    BY <1>1, <1>3, Added DEF Longer
  <1>5. \A x \in waiting' : x = n \/ (x \in waiting /\ calls'[x].proc # "READDIRPLUS")
    BY <1>1, <1>3, <1>4
  <1>6. CookieInv'
    BY <1>2, <1>4, <1>5 DEF CookieInv
  <1>7. PagesInv'
    <2> SUFFICES ASSUME NEW t \in DOMAIN tasks', Lists(t)'
                 PROVE  IF tasks'[t].pc = "reply" THEN ~(t.xid \in waiting') ELSE tasks'[t].out = <<>>
      BY DEF PagesInv
    <2> DEFINE new == Task(n, 1)
    <2>1. tasks' = [w \in DOMAIN tasks \cup {new} |-> IF w \in {new} THEN NewTask ELSE tasks[w]]
      BY <1>1, <1>4 DEF Spawn
    <2>2. CASE t = new
      <3>1. tasks'[t] = NewTask
        BY <2>1, <2>2
      <3> QED BY <3>1 DEF NewTask
    <2>3. CASE t # new
      <3> HIDE DEF new
      <3>1. t \in DOMAIN tasks /\ tasks'[t] = tasks[t]
        BY <2>1, <2>3
      <3>2. t.xid \in 1 .. Len(calls)
        BY <3>1 DEF BaseInv, TasksInv
      <3>3. calls'[t.xid] = calls[t.xid] /\ t.xid # n
        BY <1>4, <3>2
      <3>4. Lists(t) /\ t.xid \notin waiting'
        BY <1>5, <3>3 DEF Lists, CallOf
      <3> QED BY <3>1, <3>4 DEF ListInv, PagesInv
    <2> QED BY <2>2, <2>3
  <1>8. CASE listing.end
    <2> DEFINE D == {s \in DOMAIN fs.dentry : s[1] = ROOT_INO}
               m == Cardinality(Range(fs.dentry)) < Cardinality(DOMAIN fs.dentry)
    <2>1. listing' = [NewListing EXCEPT !.due = D, !.moved = m, !.end = FALSE]
      BY <1>8 DEF SendReaddirplus
    <2>2. m \in BOOLEAN
      OBVIOUS
    <2> HIDE DEF D, m
    <2>3. listing' = [cookie |-> None, seen |-> {}, due |-> D, moved |-> m, end |-> FALSE]
      BY <2>1 DEF NewListing
    <2>4. listing'.cookie = None /\ listing'.due = D /\ ~listing'.end
      BY <2>3
    <2>5. ListingShape'
      BY <1>1, <2>2, <2>3 DEF ListingShape, D
    <2> QED BY <1>6, <1>7, <2>4, <2>5 DEF ListInv, BehindInv, After, ListingComplete
  <1>9. CASE ~listing.end
    <2>1. listing' = listing
      BY <1>9 DEF SendReaddirplus
    <2>2. ListingShape' /\ BehindInv' /\ ListingComplete'
      BY <1>1, <2>1 DEF ListInv, ListingShape, BehindInv, ListingComplete, Missing, ShowsAll
    <2> QED BY <1>6, <1>7, <2>2 DEF ListInv
  <1> QED BY <1>8, <1>9

\* An operation: what is due shrinks to what it has left in place, and a
\* change of the cookie's names is remembered.
LEMMA PerformList ==
    ASSUME BaseInv, ListInv, NEW t \in DOMAIN tasks, Performed(t), FsOK(fs')
    PROVE  ListInv'
PROOF
  <1>1. PICK r, o : Perform(t, r, o)
    BY DEF Performed
  <1> DEFINE D == {s \in listing.due : At(fs', s[1], s[2]) = At(fs, s[1], s[2])}
             m == listing.moved \/ Moved(fs')
  <1>2. /\ UNCHANGED <<calls, waiting>> /\ fs' = r.fs
        /\ listing' = [listing EXCEPT !.due = D, !.moved = m]
        /\ \E u : tasks' = [tasks EXCEPT ![t] = u]
    BY <1>1 DEF Perform
  <1>3. /\ listing \in [cookie : {listing.cookie}, seen : {listing.seen}, due : {listing.due},
                        moved : BOOLEAN, end : {listing.end}]
        /\ \A s \in listing.due : s \in DOMAIN fs.dentry /\ s[1] = ROOT_INO
    BY DEF ListInv, ListingShape
  <1>4. m \in BOOLEAN /\ (~m => ~listing.moved /\ ~Moved(fs'))
    BY Zenon
  <1>5. D \subseteq listing.due
    OBVIOUS
  <1> HIDE DEF m
  <1>6. D \subseteq DOMAIN fs'.dentry
    <2> SUFFICES ASSUME NEW s \in D PROVE s \in DOMAIN fs'.dentry
      OBVIOUS
    <2>1. s \in DOMAIN fs.dentry /\ At(fs', s[1], s[2]) = At(fs, s[1], s[2])
      BY <1>3
    <2>2. s \in Ids \X Names /\ fs.dentry[s] \in Nat \ {0}
      BY <2>1, FsParts DEF BaseInv
    <2>3. s = <<s[1], s[2]>>
      BY <2>2
    <2>4. At(fs, s[1], s[2]) # None
      BY <2>1, <2>2, <2>3 DEF At, None
    <2> QED BY <2>1, <2>3, <2>4 DEF At
  <1> HIDE DEF D
  <1>7. /\ listing'.cookie = listing.cookie /\ listing'.seen = listing.seen /\ listing'.due = D
        /\ listing'.moved = m /\ listing'.end = listing.end
        /\ listing' \in [cookie : {listing'.cookie}, seen : {listing'.seen}, due : {listing'.due},
                         moved : BOOLEAN, end : {listing'.end}]
    BY <1>2, <1>3, <1>4
  <1>8. ListingShape'
    BY <1>3, <1>5, <1>6, <1>7 DEF ListingShape
  <1>9. ShowsAll' = ShowsAll
    BY <1>7 DEF ShowsAll
  <1>10. Missing' \subseteq Missing
    BY <1>5, <1>7, <1>9 DEF Missing
  <1>11. CookieInv'
    BY <1>2, <1>7 DEF ListInv, CookieInv
  <1>12. ~listing'.moved => ~listing.moved /\ ~Moved(fs')
    BY <1>4, <1>7
  <1>13. BehindInv'
    <2> SUFFICES ASSUME ~listing'.moved, listing'.cookie # None
                 PROVE  \E n \in Names : /\ NamesOf(fs', listing'.cookie) = {<<ROOT_INO, n>>}
                                         /\ \A s \in Missing' : s[2] > n
      BY DEF BehindInv, After
    <2>1. After(fs, listing.cookie, Missing) /\ NamesOf(fs', listing.cookie) = NamesOf(fs, listing.cookie)
      BY <1>7, <1>12 DEF ListInv, BehindInv, Moved
    <2> QED BY <1>7, <1>10, <2>1 DEF After
  <1>14. PagesInv'
    <2> SUFFICES ASSUME NEW w \in DOMAIN tasks', Lists(w)'
                 PROVE  IF tasks'[w].pc = "reply"
                        THEN tasks'[w].out = <<"OK">> /\ w.xid \in waiting' /\ ~listing'.moved => PageShows(Kept(w)', Missing')
                        ELSE tasks'[w].out = <<>>
      BY DEF PagesInv
    <2>1. Lists(w) /\ w # t
      BY <1>2 DEF Performed, Lists, CallOf
    <2>2. w \in DOMAIN tasks /\ tasks'[w] = tasks[w] /\ Kept(w)' = Kept(w)
      BY <1>2, <2>1 DEF Kept
    <2>3. PageShows(Kept(w), Missing) => PageShows(Kept(w), Missing')
      BY <1>10 DEF PageShows
    <2> QED BY <1>2, <1>12, <2>1, <2>2, <2>3 DEF ListInv, PagesInv
  <1>15. ListingComplete'
    BY <1>5, <1>7, <1>9, <1>12 DEF ListInv, ListingComplete
  <1> QED BY <1>8, <1>11, <1>13, <1>14, <1>15 DEF ListInv

\* A page is made.
LEMMA PageList ==
    ASSUME BaseInv, ListInv, NEW t \in DOMAIN tasks, Paged(t)
    PROVE  ListInv'
PROOF
  <1> DEFINE d == CallOf(t).id
             p == vfs_readdir(fs, d, CallOf(t).cookie, PageSize)
             q == Fitting(p.names, Fit)
             slots == [k \in DOMAIN q |-> <<d, q[k], At(fs, d, q[k])>>]
             K == [slots |-> slots, end |-> p.end /\ Len(q) = Len(p.names)]
             u == [tasks[t] EXCEPT !.pc = "reply", !.out = <<"OK">>, !.kept = K]
  <1>1. tasks' = [tasks EXCEPT ![t] = u] /\ UNCHANGED <<calls, waiting, listing, fs>>
    BY DEF Paged, Page, Fitting, Become, client
  <1>2. ShapedTask(tasks[t])
    BY DEF BaseInv, TasksInv, TaskOK
  <1> HIDE DEF K
  <1>3. u.pc = "reply" /\ u.out = <<"OK">> /\ u.kept = K
    BY <1>2 DEF ShapedTask
  <1> HIDE DEF u
  <1>4. ListingShape' /\ CookieInv' /\ BehindInv' /\ ListingComplete' /\ Missing' = Missing
    BY <1>1 DEF ListInv, ListingShape, CookieInv, BehindInv, ListingComplete, Missing, ShowsAll
  <1>5. ASSUME t.xid \in waiting, ~listing.moved PROVE PageShows(K, Missing)
    <2>1. d = ROOT_INO /\ CallOf(t).cookie = listing.cookie /\ After(fs, listing.cookie, Missing)
      BY <1>5 DEF ListInv, CookieInv, BehindInv, Paged, Lists, CallOf
    <2>2. FsOK(fs) /\ PageSize \in Nat /\ Fit \in Nat
      BY NfsAssumption DEF BaseInv
    <2>3. \A s \in Missing : s \in DOMAIN fs.dentry /\ s[1] = ROOT_INO /\ s = <<ROOT_INO, s[2]>>
      <3> SUFFICES ASSUME NEW s \in Missing PROVE s \in DOMAIN fs.dentry /\ s[1] = ROOT_INO /\ s = <<ROOT_INO, s[2]>>
        OBVIOUS
      <3>1. s \in DOMAIN fs.dentry /\ s[1] = ROOT_INO
        BY DEF ListInv, ListingShape, Missing
      <3>2. s \in Ids \X Names
        BY <2>2, <3>1, FsParts
      <3> QED BY <3>1, <3>2
    <2>4. K.slots = slots /\ (K.end => p.end /\ Len(q) = Len(p.names))
      <3> DEFINE e == p.end /\ Len(q) = Len(p.names)
      <3> HIDE DEF slots
      <3>1. K = [slots |-> slots, end |-> e]
        BY DEF K
      <3> HIDE DEF e
      <3>2. K.slots = slots /\ K.end = e
        BY <3>1
      <3>3. K.end => e
        BY <3>2
      <3> QED BY <3>2, <3>3 DEF e
    <2> DEFINE H == Here(fs, d)
    <2>5. q \in Seq(H) /\ \A n \in H : (\A nc : NamesOf(fs, CallOf(t).cookie) = {<<d, nc>>} => n > nc) => Shown(p, q, n)
      <3>1. CallOf(t).cookie = None \/ \E nc : NamesOf(fs, CallOf(t).cookie) = {<<d, nc>>}
        BY <2>1 DEF After
      <3> HIDE DEF d, p, q
      <3> QED BY <2>2, <3>1, ReaddirShows DEF p, q
    <2>6. ASSUME NEW s \in Missing PROVE Shown(p, q, s[2])
      <3>1. s[2] \in H
        BY <2>1, <2>3 DEF Here
      <3>2. ASSUME NEW nc, NamesOf(fs, CallOf(t).cookie) = {<<d, nc>>} PROVE s[2] > nc
        <4>1. CASE listing.cookie = None
          <5>1. NamesOf(fs, None) = {}
            BY <2>2, FsParts DEF NamesOf, None
          <5> QED BY <2>1, <3>2, <4>1, <5>1
        <4>2. CASE listing.cookie # None
          <5>1. PICK n : NamesOf(fs, listing.cookie) = {<<ROOT_INO, n>>} /\ s[2] > n
            BY <2>1, <4>2 DEF After
          <5>2. <<d, nc>> \in {<<ROOT_INO, n>>}
            BY <2>1, <3>2, <5>1
          <5>3. <<d, nc>> = <<ROOT_INO, n>>
            BY <5>2
          <5> QED BY <5>1, <5>3
        <4> QED BY <4>1, <4>2
      <3> HIDE DEF p, q, d, H
      <3> QED BY <2>5, <3>1, <3>2
    <2>7. \A n \in H : n \in Names /\ At(fs, d, n) # None
      <3> SUFFICES ASSUME NEW n \in H PROVE n \in Names /\ At(fs, d, n) # None
        OBVIOUS
      <3>1. PICK s \in DOMAIN fs.dentry : s[1] = d /\ s[2] = n
        BY DEF Here
      <3>2. s \in Ids \X Names /\ fs.dentry[s] \in Nat \ {0}
        BY <2>2, FsParts
      <3>3. s = <<d, n>>
        BY <3>1, <3>2
      <3> QED BY <3>2, <3>3 DEF At, None
    <2> HIDE DEF p, q, d, H
    <2>8. DOMAIN q = 1 .. Len(q) /\ Len(q) \in Nat /\ \A k \in 1 .. Len(q) : q[k] \in H
      BY <2>5
    <2>9. /\ DOMAIN slots = 1 .. Len(q)
          /\ \A k \in 1 .. Len(q) : slots[k][1] = d /\ slots[k][2] = q[k] /\ slots[k][3] = At(fs, d, q[k])
      BY <2>8
    <2>10. IsSeq(slots) /\ Len(slots) = Len(q)
      <3>1. slots \in Seq({slots[k] : k \in 1 .. Len(q)}) /\ Len(slots) = Len(q)
        BY <2>8
      <3> QED BY <3>1 DEF IsSeq
    <2>11. PageOf(slots)
      BY <2>1, <2>7, <2>8, <2>9, <2>10 DEF PageOf
    <2> HIDE DEF slots
    <2>12. ASSUME NEW s \in Missing
           PROVE  s \in Entries(slots) \/ (~K.end /\ (slots # <<>> => s[2] > Last(slots)[2]))
      <3>1. CASE \E i \in 1 .. Len(q) : q[i] = s[2]
        <4>1. PICK i \in 1 .. Len(q) : q[i] = s[2]
          BY <3>1
        <4>2. i \in DOMAIN slots /\ s = <<slots[i][1], slots[i][2]>>
          BY <2>1, <2>3, <2>9, <4>1
        <4> QED BY <4>2 DEF Entries
      <3>2. CASE ~(p.end /\ Len(q) = Len(p.names)) /\ (q # <<>> => s[2] > Last(q))
        <4>1. ~K.end
          BY <2>4, <3>2
        <4>2. ASSUME slots # <<>> PROVE s[2] > Last(slots)[2]
          <5>1. Len(slots) # 0
            <6>1. PICK S : slots \in Seq(S)
              BY <2>10 DEF IsSeq
            <6> QED BY <4>2, <6>1, EmptySeq
          <5>2. Len(q) \in 1 .. Len(q) /\ q # <<>>
            BY <2>8, <2>10, <5>1
          <5>3. Last(slots)[2] = Last(q)
            BY <2>9, <2>10, <5>2 DEF Last
          <5> QED BY <3>2, <5>2, <5>3
        <4> QED BY <4>1, <4>2
      <3> QED BY <2>6, <3>1, <3>2 DEF Shown
    <2> QED BY <2>4, <2>11, <2>12 DEF PageShows
  <1> HIDE DEF q, p, slots
  <1>6. PagesInv'
    <2> SUFFICES ASSUME NEW w \in DOMAIN tasks', Lists(w)'
                 PROVE  IF tasks'[w].pc = "reply"
                        THEN tasks'[w].out = <<"OK">> /\ w.xid \in waiting /\ ~listing.moved => PageShows(Kept(w)', Missing)
                        ELSE tasks'[w].out = <<>>
      BY <1>1, <1>4 DEF PagesInv
    <2>1. CASE w = t
      <3>1. tasks'[w] = u /\ Kept(w)' = K
        BY <1>1, <1>3, <2>1 DEF Kept
      <3> QED BY <1>3, <1>5, <2>1, <3>1
    <2>2. CASE w # t
      <3>1. w \in DOMAIN tasks /\ tasks'[w] = tasks[w] /\ Kept(w)' = Kept(w) /\ Lists(w)
        BY <1>1, <2>2 DEF Kept, Lists, CallOf
      <3> QED BY <3>1 DEF ListInv, PagesInv
    <2> QED BY <2>1, <2>2
  <1> QED BY <1>4, <1>6 DEF ListInv

\* The client takes a page: no other page is asked for now, and what is still
\* missing comes after the page's last entry, or the page was not the last.
LEMMA TakeList ==
    ASSUME BaseInv, ListInv, NEW t \in DOMAIN tasks, reply(t), Delivered(t), Lists(t), tasks[t].out = <<"OK">>
    PROVE  ListInv'
PROOF
  <1> DEFINE K == Kept(t)
             slots == K.slots
             s == Last(slots)
             m == listing.moved \/ NamesOf(fs, s[3]) # {<<s[1], s[2]>>}
  <1>1. /\ waiting' = waiting \ {t.xid} /\ listing' = TakePage(t) /\ UNCHANGED <<calls, fs>>
        /\ tasks' = [u \in DOMAIN tasks \ {t} |-> tasks[u]]
        /\ tasks[t].pc = "reply" /\ t.xid \in waiting
    BY DEF reply, Delivered, End, Restrict
  <1>2. \A x \in waiting' : calls'[x].proc # "READDIRPLUS"
    BY <1>1 DEF ListInv, CookieInv, Lists, CallOf
  <1>3. CookieInv'
    BY <1>2 DEF CookieInv
  <1>4. PagesInv'
    <2> SUFFICES ASSUME NEW w \in DOMAIN tasks', Lists(w)'
                 PROVE  IF tasks'[w].pc = "reply" THEN w.xid \notin waiting' ELSE tasks'[w].out = <<>>
      BY DEF PagesInv
    <2>1. w \in DOMAIN tasks /\ tasks'[w] = tasks[w] /\ Lists(w) /\ w.xid \notin waiting'
      BY <1>1, <1>2 DEF Lists, CallOf
    <2> QED BY <2>1 DEF ListInv, PagesInv
  <1>5. ~listing.moved => PageShows(K, Missing)
    BY <1>1 DEF ListInv, PagesInv
  <1>6. /\ listing \in [cookie : {listing.cookie}, seen : {listing.seen}, due : {listing.due},
                        moved : BOOLEAN, end : {listing.end}]
        /\ \A x \in listing.due : x \in DOMAIN fs.dentry /\ x[1] = ROOT_INO
    BY DEF ListInv, ListingShape
  <1>7. CASE slots = <<>>
    <2>1. listing' = [listing EXCEPT !.end = K.end]
      BY <1>1, <1>7 DEF TakePage, Lists
    <2>2. /\ listing'.cookie = listing.cookie /\ listing'.seen = listing.seen /\ listing'.due = listing.due
          /\ listing'.moved = listing.moved /\ listing'.end = K.end
      BY <1>6, <2>1
    <2>3. ListingShape'
      BY <1>1, <1>6, <2>1 DEF ListingShape
    <2>4. Missing' = Missing /\ ShowsAll' = ShowsAll
      BY <2>2 DEF Missing, ShowsAll
    <2>5. BehindInv'
      BY <1>1, <2>2, <2>4 DEF ListInv, BehindInv
    <2>6. ListingComplete'
      <3>1. Entries(slots) = {}
        BY <1>7 DEF Entries
      <3>2. ~listing.moved /\ K.end => Missing = {}
        BY <1>5, <3>1 DEF PageShows
      <3> QED BY <2>2, <2>4, <3>2 DEF ListingComplete, Missing
    <2> QED BY <1>3, <1>4, <2>3, <2>5, <2>6 DEF ListInv
  <1>8. CASE slots # <<>>
    <2>1. listing' = [listing EXCEPT !.seen = @ \cup ToSet(slots), !.end = K.end, !.cookie = s[3], !.moved = m]
      BY <1>1, <1>8 DEF TakePage, Lists
    <2>2. m \in BOOLEAN /\ (~m => ~listing.moved /\ NamesOf(fs, s[3]) = {<<s[1], s[2]>>})
      BY Zenon
    <2> HIDE DEF m, K, s
    <2>3. /\ listing'.cookie = s[3] /\ listing'.seen = listing.seen \cup ToSet(slots) /\ listing'.due = listing.due
          /\ listing'.moved = m /\ listing'.end = K.end
          /\ listing' \in [cookie : {listing'.cookie}, seen : {listing'.seen}, due : {listing'.due},
                           moved : BOOLEAN, end : {listing'.end}]
      BY <1>6, <2>1, <2>2
    <2>4. ListingShape'
      BY <1>1, <1>6, <2>3 DEF ListingShape
    <2>5. ~listing'.moved => ~listing.moved /\ NamesOf(fs, s[3]) = {<<s[1], s[2]>>}
      BY <2>2, <2>3
    <2>6. ShowsAll' = ShowsAll \cup Entries(slots)
      BY <2>3 DEF ShowsAll, Entries, ToSet
    <2>7. Missing' = Missing \ Entries(slots)
      BY <2>3, <2>6 DEF Missing
    <2>8. ASSUME ~listing'.moved
          PROVE  /\ s[1] = ROOT_INO /\ s[3] # None /\ s[2] \in Names /\ NamesOf(fs, s[3]) = {<<s[1], s[2]>>}
                 /\ \A x \in Missing' : ~K.end /\ x[2] > s[2]
      <3>1. PageOf(slots) /\ NamesOf(fs, s[3]) = {<<s[1], s[2]>>} /\ PageShows(K, Missing)
        BY <1>5, <2>5, <2>8 DEF PageShows
      <3>2. PICK S : slots \in Seq(S)
        BY <3>1 DEF PageOf, IsSeq
      <3>3. Len(slots) \in DOMAIN slots
        BY <1>8, <3>2, EmptySeq, LenProperties
      <3>4. s[1] = ROOT_INO /\ s[3] # None
        BY <3>1, <3>3 DEF PageOf, s, Last
      <3>5. s[2] \in Names
        <4>1. <<s[1], s[2]>> \in DOMAIN fs.dentry
          BY <3>1 DEF NamesOf
        <4>2. <<s[1], s[2]>> \in Ids \X Names
          BY <4>1, FsParts DEF BaseInv
        <4> QED BY <4>2
      <3>6. \A x \in Missing' : ~K.end /\ x[2] > s[2]
        BY <1>8, <2>7, <3>1 DEF PageShows, s
      <3> QED BY <3>1, <3>4, <3>5, <3>6
    <2>9. BehindInv'
      <3> SUFFICES ASSUME ~listing'.moved
                   PROVE  \E n \in Names : /\ NamesOf(fs', listing'.cookie) = {<<ROOT_INO, n>>}
                                           /\ \A x \in Missing' : x[2] > n
        BY DEF BehindInv, After
      <3> QED BY <1>1, <2>3, <2>8
    <2>10. ListingComplete'
      BY <2>3, <2>8 DEF ListingComplete, Missing
    <2> QED BY <1>3, <1>4, <2>4, <2>9, <2>10 DEF ListInv
  <1> QED BY <1>7, <1>8

LEMMA ListStep == BaseInv /\ ListInv /\ [Next]_vars => ListInv'
PROOF
  <1> SUFFICES ASSUME BaseInv, ListInv, [Next]_vars PROVE ListInv'
    OBVIOUS
  <1>0. /\ \A t \in DOMAIN tasks : t.xid \in 1 .. Len(calls)
        /\ waiting \subseteq 1 .. Len(calls) /\ IsSeq(calls) /\ PagesInv
        /\ \A t \in DOMAIN tasks : Lists(t) /\ tasks[t].pc # "reply" => tasks[t].out = <<>>
    BY DEF BaseInv, CallsInv, TasksInv, ListInv, PagesInv
  \* Copies and other calls arrive.
  <1>1. ASSUME NEW T, Spawn(T), \A x \in 1 .. Len(calls) : calls'[x] = calls[x], listing' = listing, fs' = fs,
               \A x \in waiting' : x \in waiting \/ calls'[x].proc # "READDIRPLUS"
        PROVE  ListInv'
    <2>1. \A x \in waiting' : calls'[x].proc = "READDIRPLUS" => x \in waiting /\ calls'[x] = calls[x]
      BY <1>0, <1>1
    <2>2. \A t \in DOMAIN tasks' : \/ tasks'[t] = NewTask
                                   \/ t \in DOMAIN tasks /\ tasks'[t] = tasks[t] /\ calls'[t.xid] = calls[t.xid]
      BY <1>0, <1>1 DEF Spawn
    <2>3. NewTask.pc = "rpc" /\ NewTask.out = <<>>
      BY DEF NewTask
    <2>4. ASSUME NEW t \in DOMAIN tasks', Lists(t)'
          PROVE  IF tasks'[t].pc = "reply"
                 THEN tasks'[t].out = <<"OK">> => t \in DOMAIN tasks /\ tasks'[t] = tasks[t] /\ calls'[t.xid] = calls[t.xid]
                 ELSE tasks'[t].out = <<>>
      <3>1. CASE tasks'[t] = NewTask
        BY <2>3, <3>1
      <3>2. CASE t \in DOMAIN tasks /\ tasks'[t] = tasks[t] /\ calls'[t.xid] = calls[t.xid]
        BY <1>0, <2>4, <3>2 DEF Lists, CallOf
      <3> QED BY <2>2, <3>1, <3>2
    <2> QED BY <1>1, <2>1, <2>4, ListingKept
  <1>2. ASSUME NEW c \in Clients, NEW k, Send(c, k), k.proc # "READDIRPLUS", listing' = listing,
               [k EXCEPT !.c = c].proc = k.proc
        PROVE  ListInv'
    <2> DEFINE e == [k EXCEPT !.c = c]
    <2>1. calls' = Append(calls, e) /\ waiting' = waiting \cup {Len(calls')} /\ fs' = fs /\ \E T : Spawn(T)
      BY <1>2 DEF Send
    <2>2. e.proc # "READDIRPLUS"
      BY <1>2
    <2> HIDE DEF e
    <2>3. Len(calls') = Len(calls) + 1 /\ calls'[Len(calls) + 1] = e /\ \A x \in 1 .. Len(calls) : calls'[x] = calls[x]
      BY <1>0, <2>1, Added DEF Longer
    <2>4. \A x \in waiting' : x \in waiting \/ calls'[x].proc # "READDIRPLUS"
      BY <2>1, <2>2, <2>3
    <2> QED BY <1>1, <1>2, <2>1, <2>3, <2>4
  \* Nothing of it is touched, or tasks end.
  <1>3. ASSUME listing' = listing, fs' = fs, calls' = calls, waiting' \subseteq waiting,
               \A t \in DOMAIN tasks' : t \in DOMAIN tasks /\ tasks'[t] = tasks[t]
        PROVE  ListInv'
    <2>1. ASSUME NEW t \in DOMAIN tasks', Lists(t)'
          PROVE  IF tasks'[t].pc = "reply"
                 THEN tasks'[t].out = <<"OK">> => t \in DOMAIN tasks /\ tasks'[t] = tasks[t] /\ calls'[t.xid] = calls[t.xid]
                 ELSE tasks'[t].out = <<>>
      <3>1. Lists(t)
        BY <1>3, <2>1 DEF Lists, CallOf
      <3> QED BY <1>0, <1>3, <2>1, <3>1
    <2> QED BY <1>3, <2>1, ListingKept
  <1>4. CASE UNCHANGED vars
    BY <1>3, <1>4 DEF vars
  <1>5. ASSUME NEW c \in Clients, Client(c) PROVE ListInv'
    <2>1. ASSUME NEW p, NEW i, NEW d, NEW n, NEW e, NEW l, Send(c, Call(p, i, d, n, e, l)), p # "READDIRPLUS", listing' = listing
          PROVE  ListInv'
      <3>1. Call(p, i, d, n, e, l).proc = p /\ [Call(p, i, d, n, e, l) EXCEPT !.c = c].proc = p
        BY DEF Call
      <3> QED BY <1>2, <2>1, <3>1
    <2>2. CASE SendOther(c) \/ SendOnObject(c) \/ SendOnName(c)
      BY <2>1, <2>2 DEF SendOther, SendOnObject, SendOnName, Other, OnObject, OnName
    <2>3. CASE SendRename(c) \/ SendLink(c) \/ SendReaddir(c)
      BY <2>1, <2>3 DEF SendRename, SendLink, SendReaddir
    <2>4. CASE SendSetattr(c)
      <3>1. PICK i, a, g : /\ Send(c, [Call("SETATTR", i, None, None, None, None) EXCEPT !.sattr = a, !.guard = g])
                           /\ listing' = listing
        BY <2>4 DEF SendSetattr
      <3> DEFINE k == [Call("SETATTR", i, None, None, None, None) EXCEPT !.sattr = a, !.guard = g]
      <3>2. k.proc = "SETATTR" /\ [k EXCEPT !.c = c].proc = k.proc
        BY DEF Call
      <3> HIDE DEF k
      <3> QED BY <1>2, <3>1, <3>2 DEF k
    <2>5. CASE SendReaddirplus(c)
      BY <2>5, SendList
    <2>6. CASE Disconnect(c)
      BY <1>3, <2>6 DEF Disconnect
    <2>7. CASE Reconnect(c)
      BY <1>1, <2>7 DEF Reconnect
    <2> QED BY <1>5, <2>2, <2>3, <2>4, <2>5, <2>6, <2>7 DEF Client
  <1>6. ASSUME NEW x \in waiting, Retransmit(x) PROVE ListInv'
    BY <1>1, <1>6 DEF Retransmit, client
  <1>7. CASE Restart
    BY <1>3, <1>7 DEF Restart
  <1>8. ASSUME NEW k \in DOMAIN tracker, housekeeping(k) PROVE ListInv'
    BY <1>3, <1>8 DEF housekeeping, client
  <1>9. ASSUME NEW t \in DOMAIN tasks, Run(t) PROVE ListInv'
    <2>1. ASSUME Quiet(t), calls' = calls, waiting' = waiting PROVE ListInv'
      <3>1. PICK u : /\ tasks' = [tasks EXCEPT ![t] = u]
                     /\ Lists(t) => IF u.pc = "reply" THEN u.out # <<"OK">> ELSE u.out = <<>>
        BY <2>1 DEF Quiet
      <3>2. listing' = listing /\ fs'.dentry = fs.dentry
        BY <2>1 DEF Quiet
      <3>3. ASSUME NEW w \in DOMAIN tasks', Lists(w)'
            PROVE  IF tasks'[w].pc = "reply"
                   THEN tasks'[w].out = <<"OK">> => w \in DOMAIN tasks /\ tasks'[w] = tasks[w] /\ calls'[w.xid] = calls[w.xid]
                   ELSE tasks'[w].out = <<>>
        <4>1. Lists(w) /\ w \in DOMAIN tasks
          BY <2>1, <3>1, <3>3 DEF Lists, CallOf
        <4>2. CASE w = t
          BY <3>1, <4>1, <4>2
        <4>3. CASE w # t
          <5>1. tasks'[w] = tasks[w]
            BY <3>1, <4>1, <4>3
          <5> QED BY <1>0, <2>1, <4>1, <5>1
        <4> QED BY <4>2, <4>3
      <3> QED BY <2>1, <3>2, <3>3, ListingKept
    <2>2. CASE Handles(t)
      <3>1. Advances(t)
        BY <2>2, HandlersAdvance
      <3>2. UNCHANGED <<calls, waiting>> /\ FsOK(fs')
        BY <3>1 DEF Advances
      <3> QED BY <1>0, <2>1, <2>2, <3>2, HandlersList, PerformList, PageList
    <2>3. CASE handle_rpc(t)
      <3>0. UNCHANGED <<calls, waiting, listing, fs>>
        BY <2>3 DEF handle_rpc, Become, client
      <3>1. CASE CallOf(t).proc = "BADVERS"
        <4>1. \E u : tasks' = [tasks EXCEPT ![t] = u]
          BY <2>3, <3>1 DEF handle_rpc, Become
        <4>2. ~Lists(t)
          BY <3>1 DEF Lists
        <4> QED BY <2>1, <3>0, <4>1, <4>2 DEF Quiet
      <3>2. CASE CallOf(t).proc # "BADVERS" /\ is_retransmission(<<t.xid, t.conn>>)
        <4>1. tasks' = [u \in DOMAIN tasks \ {t} |-> tasks[u]]
          BY <2>3, <3>2 DEF handle_rpc, End, Restrict
        <4> QED BY <1>3, <3>0, <4>1
      <3>3. CASE CallOf(t).proc # "BADVERS" /\ ~is_retransmission(<<t.xid, t.conn>>)
        <4> DEFINE u == [tasks[t] EXCEPT !.pc = "start"]
        <4>1. tasks' = [tasks EXCEPT ![t] = u] /\ tasks[t].pc = "rpc"
          BY <2>3, <3>3 DEF handle_rpc
        <4>2. u.pc = "start" /\ u.out = tasks[t].out
          BY DEF BaseInv, TasksInv, TaskOK, ShapedTask
        <4> HIDE DEF u
        <4> QED BY <1>0, <2>1, <3>0, <4>1, <4>2 DEF Quiet
      <3> QED BY <3>1, <3>2, <3>3
    <2>4. CASE reply(t) \/ handler_error(t)
      <3>1. /\ UNCHANGED <<calls, fs>> /\ waiting' \subseteq waiting
            /\ tasks' = [u \in DOMAIN tasks \ {t} |-> tasks[u]]
        BY <2>4, EndSteps DEF Ends
      <3>2. CASE listing' = listing
        BY <1>3, <3>1, <3>2
      <3>3. CASE reply(t) /\ Delivered(t) /\ Lists(t) /\ tasks[t].out = <<"OK">>
        BY <3>3, TakeList
      <3> QED BY <2>4, <3>2, <3>3 DEF reply, handler_error, TakePage, Lists
    <2> QED BY <1>9, <2>2, <2>3, <2>4 DEF Run, Handles
  <1> QED BY <1>4, <1>5, <1>6, <1>7, <1>8, <1>9 DEF Next, Server

LEMMA ListInit == Init => ListInv
PROOF
  <1> SUFFICES ASSUME Init PROVE ListInv
    OBVIOUS
  <1>1. listing = NewListing /\ tasks = <<>> /\ waiting = {}
    BY DEF Init
  <1>2. listing = [cookie |-> None, seen |-> {}, due |-> {}, moved |-> FALSE, end |-> TRUE]
    BY <1>1 DEF NewListing
  <1>3. listing.cookie = None /\ listing.due = {} /\ DOMAIN tasks = {}
    BY <1>1, <1>2
  <1>4. ListingShape
    BY <1>2 DEF ListingShape
  <1> QED BY <1>1, <1>3, <1>4 DEF ListInv, CookieInv, BehindInv, After, PagesInv, ListingComplete

(***************************************************************************)
(* The theorems.                                                           *)
(***************************************************************************)
\* The file system stays well formed under every operation of the adapter,
\* every task serves a call that was made, and a task past handle_rpc is known
\* to the tracker: housekeeping never forgets a call that is being served,
\* since it takes only what is completed (housekeeping).
THEOREM NfsTypes == Spec => []TypeOK
PROOF
  <1>1. Init => BaseInv /\ TrackInv /\ OwedInv
    BY BaseInit, FirstState
  <1>2. (BaseInv /\ TrackInv /\ OwedInv) /\ [Next]_vars => (BaseInv /\ TrackInv /\ OwedInv)'
    BY BaseStep, TrackStep, OwedStep
  <1>3. BaseInv /\ TrackInv /\ OwedInv => TypeOK
    BY DEF BaseInv, TrackInv, OwedInv, TypeOK, CallsInv, TasksInv, Past
  <1> QED BY <1>1, <1>2, <1>3, PTL DEF Spec

\* However often a call arrives on a connection, and however its copies
\* interleave, it runs once there while the tracker remembers it, and never in
\* two lives of the server (is_retransmission, mark_processed, fh_to_id).
THEOREM NfsRunsOnce == Spec => []RunsOnce
PROOF
  <1>1. Init => BaseInv /\ TrackInv /\ OnceInv
    BY BaseInit, FirstState
  <1>2. (BaseInv /\ TrackInv /\ OnceInv) /\ [Next]_vars => (BaseInv /\ TrackInv /\ OnceInv)'
    BY BaseStep, TrackStep, OnceStep
  <1>3. OnceInv => RunsOnce
    BY DEF OnceInv, RunsOnce
  <1> QED BY <1>1, <1>2, <1>3, PTL DEF Spec

\* A file that an unprivileged user has written into has no set-id bits,
\* however other writes, SETATTRs, removals and creations come between the two
\* holdings of the mutex, unless a write is still about to clear them or the
\* clearing failed or was cut off (nfsproc3_write, vfs_setattr, Restart).
THEOREM NfsSetIdGoes == Spec => []SetIdGoes
PROOF
  <1>1. Init => BaseInv /\ OwedInv
    BY BaseInit, FirstState
  <1>2. (BaseInv /\ OwedInv) /\ [Next]_vars => (BaseInv /\ OwedInv)'
    BY BaseStep, OwedStep
  <1>3. OwedInv => SetIdGoes
    BY DEF OwedInv
  <1> QED BY <1>1, <1>2, <1>3, PTL DEF Spec

\* No two calls are told that they created the same file, whatever happens
\* between the lookup and the creation of a GUARDED call and between the
\* creation and the answer (nfsproc3_create).
THEOREM NfsOneCreator == Spec => []OneCreator
PROOF
  <1>1. Init => BaseInv /\ CreatorInv
    BY BaseInit, FirstState
  <1>2. (BaseInv /\ CreatorInv) /\ [Next]_vars => (BaseInv /\ CreatorInv)'
    BY BaseStep, CreatorStep
  <1>3. CreatorInv => OneCreator
    BY DEF CreatorInv, OneCreator, Claims, Told, Makes
  <1> QED BY <1>1, <1>2, <1>3, PTL DEF Spec

\* An enumeration that has reached its end has shown every entry that was
\* there from its beginning, whatever was created, removed and renamed between
\* and within its pages, for every page size and however few entries fit into
\* a reply, as long as the entry under its cookie stayed (readdir,
\* nfsproc3_readdirplus).
THEOREM NfsListingComplete == Spec => []ListingComplete
PROOF
  <1>1. Init => BaseInv /\ ListInv
    BY BaseInit, ListInit
  <1>2. (BaseInv /\ ListInv) /\ [Next]_vars => (BaseInv /\ ListInv)'
    BY BaseStep, ListStep
  <1>3. ListInv => ListingComplete
    BY DEF ListInv
  <1> QED BY <1>1, <1>2, <1>3, PTL DEF Spec
================================================================================
