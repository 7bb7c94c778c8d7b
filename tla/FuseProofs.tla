------------------------------ MODULE FuseProofs ------------------------------
(***************************************************************************)
(* Proofs about a FUSE mount over HostFS, for any number of processes,     *)
(* names, host inodes and requests.                                        *)
(***************************************************************************)
EXTENDS FuseSession, FiniteSetTheorems, SequenceTheorems, WellFoundedInduction, TLAPS

(***************************************************************************)
(* The inode cache of HostFS (hostfs_linux.rs).                            *)
(***************************************************************************)
CountOf(f, i) == IF i \in DOMAIN f THEN f[i] ELSE 0

HostOK(g) ==
    /\ g \in [dir : {g.dir}, kind : {g.kind}, cache : {g.cache}, next : {g.next}]
    /\ g.dir \in [Names -> HostInodes \cup {None}]
    /\ g.cache = [i \in DOMAIN g.cache |-> g.cache[i]]
    /\ g.next \in Nat /\ g.next >= 2
    /\ \A i \in DOMAIN g.cache : /\ i \in Nat /\ i >= 2 /\ i < g.next
                                 /\ g.cache[i] \in [src : HostInodes, nlookup : Nat \ {0}]
    /\ \A i, j \in DOMAIN g.cache : g.cache[i].src = g.cache[j].src => i = j
\* A cache k that has lost nothing of the cache g, and one that has counted a
\* lookup of inode j besides.
Keeps(g, k) == \A i \in DOMAIN g.cache : /\ i \in DOMAIN k.cache /\ k.cache[i].src = g.cache[i].src
                                         /\ k.cache[i].nlookup >= g.cache[i].nlookup
Counts(g, k, j) == /\ Keeps(g, k) /\ j \in DOMAIN k.cache
                   /\ j \in DOMAIN g.cache => k.cache[j].nlookup >= g.cache[j].nlookup + 1

\* A lookup finds the host inode in the cache or gives it a new number.
LEMMA GetOrCreateGood ==
    ASSUME NEW g, HostOK(g), NEW f \in HostInodes
    PROVE  LET k == GetOrCreateInode(g, f)
           IN /\ HostOK(k) /\ k.dir = g.dir /\ Counts(g, k, InoOf(k, f)) /\ k.cache[InoOf(k, f)].src = f
PROOF
  <1> DEFINE k == GetOrCreateInode(g, f)
  <1>1. CASE Cached(g, f) # {}
    <2> DEFINE j == InoOf(g, f)
               e == [g.cache[j] EXCEPT !.nlookup = @ + 1]
    <2>1. j \in DOMAIN g.cache /\ g.cache[j].src = f
      BY <1>1 DEF InoOf, Cached
    <2>2. e \in [src : {f}, nlookup : Nat \ {0}] /\ e.nlookup = g.cache[j].nlookup + 1
      BY <2>1 DEF HostOK
    <2>3. k = [g EXCEPT !.cache = [g.cache EXCEPT ![j] = e]]
      BY <1>1 DEF GetOrCreateInode
    <2> HIDE DEF e, k
    <2>4. /\ k \in [dir : {g.dir}, kind : {g.kind}, cache : {[g.cache EXCEPT ![j] = e]}, next : {g.next}]
      BY <2>3 DEF HostOK
    <2>5. DOMAIN k.cache = DOMAIN g.cache /\ \A i \in DOMAIN g.cache : k.cache[i] = IF i = j THEN e ELSE g.cache[i]
      BY <2>4
    <2>6. \A i \in DOMAIN g.cache : k.cache[i].src = g.cache[i].src
      BY <2>1, <2>2, <2>5
    <2>7. Cached(k, f) = Cached(g, f)
      BY <2>5, <2>6 DEF Cached
    <2>8. InoOf(k, f) = j
      BY <2>7 DEF InoOf
    <2> HIDE DEF j
    <2>9. HostOK(k)
      BY <2>1, <2>2, <2>4, <2>5, <2>6 DEF HostOK
    <2>10. Counts(g, k, j)
      BY <2>1, <2>2, <2>5, <2>6 DEF Counts, Keeps, HostOK
    <2> QED BY <2>1, <2>4, <2>6, <2>8, <2>9, <2>10 DEF k
  <1>2. CASE Cached(g, f) = {}
    <2> DEFINE j == g.next
               e == [src |-> f, nlookup |-> 1]
               c == [i \in DOMAIN g.cache \cup {j} |-> IF i = j THEN e ELSE g.cache[i]]
    <2>1. k = [g EXCEPT !.cache = c, !.next = g.next + 1]
      BY <1>2 DEF GetOrCreateInode, GetOrCreateInode_Fresh
    <2>2. e \in [src : HostInodes, nlookup : Nat \ {0}] /\ e.src = f
      OBVIOUS
    <2>3. j \notin DOMAIN g.cache /\ j \in Nat
      BY DEF HostOK
    <2>4. /\ DOMAIN c = DOMAIN g.cache \cup {j} /\ c[j] = e /\ \A i \in DOMAIN g.cache : c[i] = g.cache[i]
          /\ c = [i \in DOMAIN c |-> c[i]]
      BY <2>3
    <2> HIDE DEF e, k, c
    <2>5. k \in [dir : {g.dir}, kind : {g.kind}, cache : {c}, next : {g.next + 1}]
      BY <2>1 DEF HostOK
    <2>6. \A i \in DOMAIN g.cache : g.cache[i].src # f
      BY <1>2 DEF Cached
    <2>7. Cached(k, f) = {j}
      BY <2>2, <2>4, <2>5, <2>6 DEF Cached
    <2>8. InoOf(k, f) = j
      BY <2>7 DEF InoOf
    <2>9. \A i \in DOMAIN c : i \in Nat /\ i >= 2 /\ i < g.next + 1 /\ c[i] \in [src : HostInodes, nlookup : Nat \ {0}]
      BY <2>2, <2>4 DEF HostOK
    <2>10. \A i, l \in DOMAIN c : c[i].src = c[l].src => i = l
      BY <2>2, <2>4, <2>6 DEF HostOK
    <2> HIDE DEF j
    <2>11. HostOK(k)
      BY <2>4, <2>5, <2>9, <2>10 DEF HostOK
    <2>12. Counts(g, k, j)
      BY <2>3, <2>4, <2>5 DEF Counts, Keeps, HostOK
    <2> QED BY <2>2, <2>4, <2>5, <2>8, <2>11, <2>12 DEF k
  <1> QED BY <1>1, <1>2

\* A directory that changes leaves the cache alone.
LEMMA NewDir ==
    ASSUME NEW g, HostOK(g), NEW d \in [Names -> HostInodes \cup {None}], NEW k,
           k \in [dir : {d}, kind : {k.kind}, cache : {g.cache}, next : {g.next}]
    PROVE  HostOK(k) /\ Keeps(g, k) /\ k.dir = d /\ k.cache = g.cache
PROOF
  <1>1. k.dir = d /\ k.cache = g.cache /\ k.next = g.next
    OBVIOUS
  <1>2. \A i \in DOMAIN g.cache : g.cache[i].nlookup >= g.cache[i].nlookup
    BY DEF HostOK
  <1> QED BY <1>1, <1>2 DEF HostOK, Keeps

LEMMA LookupGood ==
    ASSUME NEW g, HostOK(g), NEW n \in Names, g.dir[n] # None
    PROVE  LET k == HostLookup(g, n)
           IN HostOK(k) /\ Counts(g, k, InoOf(k, g.dir[n]))
PROOF
  <1>1. g.dir[n] \in HostInodes
    BY DEF HostOK
  <1> QED BY <1>1, GetOrCreateGood DEF HostLookup

LEMMA PutGood ==
    ASSUME NEW g, HostOK(g), NEW n \in Names, NEW f \in HostInodes, NEW kd
    PROVE  LET k == Put(g, n, f, kd)
           IN HostOK(k) /\ Counts(g, k, InoOf(k, f)) /\ k.dir[n] = f
PROOF
  <1> DEFINE d == [g.dir EXCEPT ![n] = f]
             l == [g EXCEPT !.dir[n] = f, !.kind[f] = kd]
             k == Put(g, n, f, kd)
  <1>1. d \in [Names -> HostInodes \cup {None}] /\ d[n] = f
    BY DEF HostOK
  <1>2. l \in [dir : {d}, kind : {l.kind}, cache : {g.cache}, next : {g.next}]
    BY DEF HostOK
  <1>3. k = HostLookup(l, n)
    BY DEF Put
  <1> HIDE DEF l, k, d
  <1>4. HostOK(l) /\ l.dir = d /\ l.cache = g.cache
    BY <1>1, <1>2, NewDir
  <1>5. f # None
    BY HostAssumption DEF None
  <1>6. k = GetOrCreateInode(l, f)
    BY <1>1, <1>3, <1>4, <1>5 DEF HostLookup
  <1>7. HostOK(k) /\ k.dir = l.dir /\ Counts(l, k, InoOf(k, f))
    BY <1>4, <1>6, GetOrCreateGood
  <1>8. Counts(g, k, InoOf(k, f))
    BY <1>4, <1>7 DEF Counts, Keeps
  <1> QED BY <1>1, <1>4, <1>7, <1>8 DEF k

\* readdir_plus: every entry is counted, and the new ones get numbers.
LEMMA ReaddirGood ==
    ASSUME NEW g, HostOK(g), NEW new \in NewInodes(g)
    PROVE  HostOK(HostReaddirPlus(g, new)) /\ Keeps(g, HostReaddirPlus(g, new))
PROOF
  <1> DEFINE S == {g.dir[n] : n \in Names} \ (Sources(g) \cup {None})
             N == Cardinality(S)
             D == g.next .. (g.next + N - 1)
             c == [i \in DOMAIN g.cache \cup DOMAIN new |->
                      IF i \in DOMAIN new THEN [src |-> new[i], nlookup |-> Links(g, new[i])]
                      ELSE [g.cache[i] EXCEPT !.nlookup = @ + Links(g, g.cache[i].src)]]
             k == HostReaddirPlus(g, new)
  <1>1. new \in [D -> S] /\ IsInjective(new)
    BY DEF NewInodes, Bijection, Injection
  <1>2. IsFiniteSet(S)
    <2>1. S \subseteq HostInodes
      BY DEF HostOK
    <2> QED BY <2>1, HostAssumption, FS_Subset
  <1>3. N \in Nat
    BY <1>2, FS_CardinalityType
  <1>4. \A f \in S : f \in HostInodes /\ \A i \in DOMAIN g.cache : g.cache[i].src # f
    BY DEF HostOK, Sources
  <1>5. \A f : Links(g, f) \in Nat
    <2> TAKE f
    <2>1. IsFiniteSet({n \in Names : g.dir[n] = f})
      BY HostAssumption, FS_Subset
    <2> QED BY <2>1, FS_CardinalityType DEF Links
  <1>6. \A f \in S : Links(g, f) \in Nat \ {0}
    <2> TAKE f \in S
    <2> DEFINE T == {n \in Names : g.dir[n] = f}
    <2>1. T # {} /\ IsFiniteSet(T)
      BY HostAssumption, FS_Subset
    <2>2. Cardinality(T) # 0
      BY <2>1, FS_EmptySet
    <2> QED BY <1>5, <2>2 DEF Links
  <1>7. IsFiniteSet(DOMAIN new) /\ Cardinality(DOMAIN new) = N
    <2>1. g.next \in Int /\ g.next + N - 1 \in Int /\ DOMAIN new = D
      BY <1>1, <1>3 DEF HostOK
    <2>2. IsFiniteSet(D) /\ Cardinality(D) = IF g.next > g.next + N - 1 THEN 0 ELSE (g.next + N - 1) - g.next + 1
      BY <2>1, FS_Interval
    <2>3. (IF g.next > g.next + N - 1 THEN 0 ELSE (g.next + N - 1) - g.next + 1) = N
      BY <1>3 DEF HostOK
    <2> QED BY <2>1, <2>2, <2>3
  <1>8. \A i \in DOMAIN new : /\ i \in Nat /\ i >= g.next /\ i < g.next + N /\ new[i] \in S /\ i \notin DOMAIN g.cache
    BY <1>1, <1>3 DEF HostOK
  <1>9. k = [g EXCEPT !.cache = c, !.next = g.next + N]
    BY <1>7 DEF HostReaddirPlus
  <1>10. DOMAIN c = DOMAIN g.cache \cup DOMAIN new /\ c = [i \in DOMAIN c |-> c[i]]
    OBVIOUS
  <1>11. ASSUME NEW i \in DOMAIN new
         PROVE  c[i] \in [src : HostInodes, nlookup : Nat \ {0}] /\ c[i].src = new[i]
    BY <1>4, <1>6, <1>8
  <1>12. ASSUME NEW i \in DOMAIN g.cache
         PROVE  /\ c[i] \in [src : HostInodes, nlookup : Nat \ {0}] /\ c[i].src = g.cache[i].src
                /\ c[i].nlookup >= g.cache[i].nlookup
    <2>1. i \notin DOMAIN new /\ g.cache[i] \in [src : HostInodes, nlookup : Nat \ {0}] /\ Links(g, g.cache[i].src) \in Nat
      BY <1>5, <1>8 DEF HostOK
    <2>2. c[i] = [g.cache[i] EXCEPT !.nlookup = g.cache[i].nlookup + Links(g, g.cache[i].src)]
      BY <2>1
    <2> QED BY <2>1, <2>2
  <1> HIDE DEF c, k, S, N, D
  <1>13. k \in [dir : {g.dir}, kind : {g.kind}, cache : {c}, next : {g.next + N}]
    BY <1>9 DEF HostOK
  <1>14. \A i \in DOMAIN c : i \in Nat /\ i >= 2 /\ i < g.next + N /\ c[i] \in [src : HostInodes, nlookup : Nat \ {0}]
    BY <1>3, <1>8, <1>10, <1>11, <1>12 DEF HostOK
  <1>15. ASSUME NEW i \in DOMAIN c, NEW j \in DOMAIN c, c[i].src = c[j].src PROVE i = j
    <2>1. CASE i \in DOMAIN new /\ j \in DOMAIN new
      BY <1>1, <1>11, <1>15, <2>1 DEF IsInjective
    <2>2. CASE i \in DOMAIN g.cache /\ j \in DOMAIN g.cache
      BY <1>12, <1>15, <2>2 DEF HostOK
    <2>3. CASE i \in DOMAIN new /\ j \in DOMAIN g.cache
      BY <1>4, <1>8, <1>11, <1>12, <1>15, <2>3
    <2>4. CASE j \in DOMAIN new /\ i \in DOMAIN g.cache
      BY <1>4, <1>8, <1>11, <1>12, <1>15, <2>4
    <2> QED BY <1>10, <2>1, <2>2, <2>3, <2>4
  <1>16. g.next + N \in Nat /\ g.next + N >= 2
    BY <1>3 DEF HostOK
  <1>17. k.dir = g.dir /\ k.cache = c /\ k.next = g.next + N
    BY <1>13
  <1>18. HostOK(k)
    BY <1>10, <1>13, <1>14, <1>15, <1>16, <1>17 DEF HostOK
  <1>19. Keeps(g, k)
    BY <1>10, <1>12, <1>17 DEF Keeps
  <1> QED BY <1>18, <1>19 DEF k

\* forget takes counts down, and away what none is left of.
LEMMA ForgetGood ==
    ASSUME NEW g, HostOK(g), NEW lost, \A i \in DOMAIN lost : lost[i] \in Nat
    PROVE  LET k == HostForget(g, lost)
           IN /\ HostOK(k)
              /\ \A i \in DOMAIN g.cache : g.cache[i].nlookup > CountOf(lost, i) =>
                    /\ i \in DOMAIN k.cache /\ k.cache[i].src = g.cache[i].src
                    /\ k.cache[i].nlookup = g.cache[i].nlookup - CountOf(lost, i)
PROOF
  <1> DEFINE left(i) == g.cache[i].nlookup - CountOf(lost, i)
             D == {j \in DOMAIN g.cache : left(j) > 0}
             c == [i \in D |-> [g.cache[i] EXCEPT !.nlookup = left(i)]]
             k == HostForget(g, lost)
  <1>1. k = [g EXCEPT !.cache = c]
    BY DEF HostForget, CountOf
  <1>2. DOMAIN c = D /\ c = [i \in DOMAIN c |-> c[i]]
    OBVIOUS
  <1>3. ASSUME NEW i \in DOMAIN g.cache
        PROVE  /\ left(i) \in Int /\ g.cache[i] \in [src : HostInodes, nlookup : Nat \ {0}]
               /\ g.cache[i].nlookup > CountOf(lost, i) <=> left(i) > 0
    BY DEF HostOK, CountOf
  <1>4. ASSUME NEW i \in D
        PROVE  /\ c[i] \in [src : HostInodes, nlookup : Nat \ {0}] /\ c[i].src = g.cache[i].src
               /\ c[i].nlookup = left(i) /\ i \in DOMAIN g.cache
    <2>1. left(i) \in Nat \ {0} /\ g.cache[i] \in [src : HostInodes, nlookup : Nat \ {0}]
      BY <1>3
    <2>2. c[i] = [g.cache[i] EXCEPT !.nlookup = left(i)]
      OBVIOUS
    <2> HIDE DEF left
    <2> QED BY <2>1, <2>2
  <1>5. \A i \in DOMAIN g.cache : g.cache[i].nlookup > CountOf(lost, i) => i \in D
    BY <1>3
  <1> HIDE DEF c, k, D
  <1>6. k \in [dir : {g.dir}, kind : {g.kind}, cache : {c}, next : {g.next}]
    BY <1>1 DEF HostOK
  <1>7. HostOK(k)
    BY <1>2, <1>4, <1>6 DEF HostOK
  <1> QED BY <1>2, <1>4, <1>5, <1>6, <1>7 DEF k

(***************************************************************************)
(* Requests: of what shape they are, and that a process waits for one at a *)
(* time.                                                                   *)
(***************************************************************************)
Unasked == {"none", "init", "release"}
Ops == Sharing \cup Changing \cup OnInode \cup OnHandle \cup Unasked
Requests == [op : Ops, c : Callers \cup {"none"}, n : Names \cup {NoName}, m : Names \cup {NoName}, ino : Nat, fh : Nat]
ReqOK(r) ==
    /\ r \in Requests
    /\ r.op \in Unasked <=> r.c = "none"
    /\ r.op \in (Changing \cup {"lookup"}) => r.n \in Names
    /\ r.op \in {"link", "rename"} => r.m \in Names
    /\ r.op \in (OnInode \cup {"link"}) => r.ino >= 2
QueueInv ==
    /\ queue \in Seq(Requests) /\ \A k \in 1 .. Len(queue) : ReqOK(queue[k])
    /\ ReqOK(at) /\ (at = Nothing \/ due = <<>>)
    /\ pending \in [Callers -> BOOLEAN] /\ mounted \in BOOLEAN
    /\ \A k \in 1 .. Len(queue) : queue[k].c \in Callers =>
          /\ queue[k].c # at.c
          /\ \A j \in 1 .. Len(queue) : queue[j].c = queue[k].c => j = k
    /\ mounted => \A k \in 1 .. Len(queue) : queue[k].c \in Callers => pending[queue[k].c]
    /\ mounted /\ at.c \in Callers => pending[at.c]
    /\ ~mounted => queue = <<>>

(***************************************************************************)
(* Handles: each is held by one process, and what is asked of a handle is  *)
(* asked before it is released.                                            *)
(***************************************************************************)
FhOK(r, hd, next) ==
    /\ r.op \in OnHandle \ {"release"} => r.fh \in hd[r.c]
    /\ r.op = "release" => r.fh < next /\ \A c \in Callers : r.fh \notin hd[c]
FilesInv ==
    /\ openFiles = [f \in DOMAIN openFiles |-> openFiles[f]]
    /\ nextFh \in Nat \ {0} /\ \A f \in DOMAIN openFiles : f \in 1 .. (nextFh - 1) /\ openFiles[f] \in HostInodes
    /\ held \in [Callers -> SUBSET DOMAIN openFiles]
    /\ \A c, d \in Callers : c # d => held[c] \cap held[d] = {}
    /\ ~mounted => \A c \in Callers : held[c] = {}
    /\ mounted => FhOK(at, held, nextFh) /\ \A k \in 1 .. Len(queue) : FhOK(queue[k], held, nextFh)

(***************************************************************************)
(* Inodes: the cache counts the lookups that the kernel holds and those it *)
(* has given back and the session has not yet seen.                        *)
(***************************************************************************)
InoOK(r, rf) == r.op \in (OnInode \cup {"link"}) => r.ino \in DOMAIN rf
InodesInv ==
    /\ HostOK(h)
    /\ refs = [i \in DOMAIN refs |-> refs[i]] /\ forgets = [i \in DOMAIN forgets |-> forgets[i]]
    /\ \A i \in DOMAIN refs : refs[i] \in Nat \ {0} /\ i \in DOMAIN given /\ i \in Nat /\ i >= 2
    /\ \A i \in DOMAIN forgets : forgets[i] \in Nat
    /\ dentry \in [Names -> DOMAIN refs \cup {None}]
    /\ mounted => InoOK(at, refs) /\ \A k \in 1 .. Len(queue) : InoOK(queue[k], refs)
    /\ \A i \in (DOMAIN refs \cup DOMAIN forgets) \ linked :
          /\ i \in DOMAIN h.cache /\ i \in DOMAIN given /\ h.cache[i].src = given[i]
          /\ h.cache[i].nlookup >= CountOf(refs, i) + CountOf(forgets, i)

ErrorsInv == "EBADF" \notin errors /\ ("ENOENT" \in errors => linked # {})
MiscInv == state \in {"new", "ready", "drain", "ended"} /\ calls \in 0 .. MaxCalls
FuseInv == QueueInv /\ FilesInv /\ InodesInv /\ ErrorsInv /\ MiscInv

(***************************************************************************)
(* What the steps do to these.                                             *)
(***************************************************************************)
States == {"new", "ready", "drain", "ended"}

\* A process sends request r.
Asks(c, r) ==
    /\ mounted /\ ~pending[c] /\ r.c = c /\ ReqOK(r) /\ FhOK(r, held, nextFh) /\ InoOK(r, refs)
    /\ queue' = Append(queue, r) /\ pending' = [pending EXCEPT ![c] = TRUE]
    /\ calls' \in 0 .. MaxCalls
    /\ UNCHANGED <<daemon, forgets, dentry, refs, held, errors, mounted, given, linked>>

\* A dentry goes.
Drops ==
    /\ dentry' = dentry \/ \E n : dentry' = [dentry EXCEPT ![n] = None]
    /\ UNCHANGED <<h, openFiles, nextFh, state, at, due, queue, forgets, refs, pending, held, errors, calls,
                   mounted, given, linked>>

\* The threads do what nobody sees.
Quiet ==
    /\ UNCHANGED <<h, openFiles, nextFh, at, kernel>> /\ state' \in States
    /\ due' = due \/ at = Nothing

\* The session thread is done with a request.
Replies ==
    /\ at.op # "none" /\ at' = Nothing /\ state' \in States
    /\ IF mounted /\ at.c \in Callers THEN pending' = [pending EXCEPT ![at.c] = FALSE]
       ELSE UNCHANGED <<pending, dentry, refs, held, errors>>
    /\ UNCHANGED <<queue, forgets, calls, mounted>> /\ ErrorsInv'

InodesKept ==
    /\ HostOK(h') /\ Keeps(h, h') /\ dentry' \in [Names -> DOMAIN refs \cup {None}]
    /\ UNCHANGED <<refs, given, linked>>
InodesEntered ==
    \E i, n :
       /\ HostOK(h') /\ Keeps(h, h') /\ i \in DOMAIN h'.cache /\ (Counts(h, h', i) \/ i \in linked')
       /\ linked \subseteq linked'
       /\ given' = [j \in DOMAIN given \cup {i} |-> IF j = i THEN h'.cache[i].src ELSE given[j]]
       /\ mounted /\ at.c \in Callers =>
             /\ refs' = [j \in DOMAIN refs \cup {i} |->
                           (IF j \in DOMAIN refs THEN refs[j] ELSE 0) + (IF j = i THEN 1 ELSE 0)]
             /\ dentry' = [dentry EXCEPT ![n] = i]

FilesKept == UNCHANGED <<openFiles, nextFh, held>>
FilesOpened ==
    /\ nextFh' = nextFh + 1 /\ \E f \in HostInodes : Opened(f)
    /\ mounted /\ at.c \in Callers => held' = Holding
FilesReleased ==
    /\ at.op = "release" /\ openFiles' = [x \in DOMAIN openFiles \ {at.fh} |-> openFiles[x]]
    /\ UNCHANGED <<nextFh, held>>

Handled == Replies /\ (InodesKept \/ InodesEntered) /\ (FilesKept \/ FilesOpened \/ FilesReleased)

LEMMA KeepsItself ==
    ASSUME NEW g, HostOK(g)
    PROVE  Keeps(g, g)
BY DEF HostOK, Keeps

\* An answer that carries errno a, or "ok".
LEMMA ErrorHandled ==
    ASSUME FuseInv, at.op # "none", NEW a, Error(a),
           mounted /\ at.c \in Callers => a # "EBADF" /\ (a = "ENOENT" => linked # {})
    PROVE  Handled
PROOF
  <1>1. at' = Nothing /\ UNCHANGED <<state, queue, forgets, calls, mounted, h, openFiles, nextFh, given, linked>>
    BY DEF Error, Answer
  <1>2. UNCHANGED <<dentry, refs, held>> /\ (~(mounted /\ at.c \in Callers) => UNCHANGED <<pending, errors>>)
    BY DEF Error, Answer
  <1>3. mounted /\ at.c \in Callers => pending' = [pending EXCEPT ![at.c] = FALSE] /\ errors' = errors \cup ({a} \ {"ok"})
    BY DEF Error, Answer
  <1>4. ErrorsInv'
    BY <1>1, <1>2, <1>3 DEF ErrorsInv, FuseInv
  <1>5. Replies
    BY <1>1, <1>2, <1>3, <1>4 DEF Replies, FuseInv, MiscInv, States
  <1>6. InodesKept
    BY <1>1, <1>2, KeepsItself DEF InodesKept, FuseInv, InodesInv
  <1>7. FilesKept
    BY <1>1, <1>2 DEF FilesKept
  <1> QED BY <1>5, <1>6, <1>7 DEF Handled

\* An answer without an error.
LEMMA OkReplies ==
    ASSUME FuseInv, at.op # "none", NEW d, NEW rf, NEW hd, Answer("ok", d, rf, hd), linked \subseteq linked'
    PROVE  /\ Replies
           /\ mounted /\ at.c \in Callers => dentry' = d /\ refs' = rf /\ held' = hd
           /\ ~(mounted /\ at.c \in Callers) => UNCHANGED <<dentry, refs, held>>
PROOF
  <1>1. errors' = errors
    BY DEF Answer
  <1>2. ErrorsInv'
    BY <1>1 DEF ErrorsInv, FuseInv
  <1> QED BY <1>2 DEF Answer, Replies, FuseInv, MiscInv, States

\* An answer with an entry.
LEMMA EntryHandled ==
    ASSUME FuseInv, at.op # "none", NEW n, NEW i, NEW k, NEW hd, Entry(n, i, k, hd), linked \subseteq linked',
           HostOK(k), Keeps(h, k), i \in DOMAIN k.cache, Counts(h, k, i) \/ i \in linked'
    PROVE  /\ Replies /\ InodesEntered
           /\ mounted /\ at.c \in Callers => held' = hd
           /\ ~(mounted /\ at.c \in Callers) => held' = held
PROOF
  <1> DEFINE d == [dentry EXCEPT ![n] = i]
             rf == [j \in DOMAIN refs \cup {i} |->
                      (IF j \in DOMAIN refs THEN refs[j] ELSE 0) + (IF j = i THEN 1 ELSE 0)]
  <1>1. h' = k /\ Answer("ok", d, rf, hd)
        /\ given' = [j \in DOMAIN given \cup {i} |-> IF j = i THEN k.cache[i].src ELSE given[j]]
    BY DEF Entry
  <1> HIDE DEF d, rf
  <1>2. /\ Replies
        /\ mounted /\ at.c \in Callers => dentry' = d /\ refs' = rf /\ held' = hd
        /\ ~(mounted /\ at.c \in Callers) => UNCHANGED <<dentry, refs, held>>
    BY <1>1, OkReplies
  <1>3. InodesEntered
    BY <1>1, <1>2 DEF InodesEntered, d, rf
  <1> QED BY <1>2, <1>3

\* An answer after which the directory and the cache may be others.
LEMMA KeptHandled ==
    ASSUME FuseInv, at.op # "none", NEW d, Answer("ok", d, refs, held), d \in [Names -> DOMAIN refs \cup {None}],
           HostOK(h'), Keeps(h, h'), UNCHANGED <<given, linked>>
    PROVE  Replies /\ InodesKept /\ UNCHANGED held
PROOF
  <1>1. /\ Replies
        /\ mounted /\ at.c \in Callers => dentry' = d /\ refs' = refs /\ held' = held
        /\ ~(mounted /\ at.c \in Callers) => UNCHANGED <<dentry, refs, held>>
    BY OkReplies
  <1>2. dentry \in [Names -> DOMAIN refs \cup {None}]
    BY DEF FuseInv, InodesInv
  <1> QED BY <1>1, <1>2 DEF InodesKept

\* A set of numbers has a least one.
LEMMA LeastInSet ==
    ASSUME NEW S \in SUBSET Nat, S # {}
    PROVE  Min(S) \in S
PROOF
  <1> DEFINE R == {xy \in Nat \X Nat : xy[1] < xy[2]}
  <1>1. R = OpToRel(<, Nat)
    BY DEF OpToRel
  <1>2. IsWellFoundedOn(R, Nat)
    BY <1>1, NatLessThanWellFounded
  <1>3. \A x, y \in Nat : x < y => <<x, y>> \in R
    OBVIOUS
  <1> HIDE DEF R
  <1>4. PICK m \in S : \A y \in S : ~(<<y, m>> \in R)
    BY <1>2, WFMin
  <1>5. ASSUME NEW y \in S PROVE m <= y
    <2>1. ~(y < m)
      BY <1>3, <1>4, Zenon
    <2> QED BY <2>1
  <1> QED BY <1>5 DEF Min

\* The number the host gives a new file.
LEMMA NewInodeGood ==
    ASSUME ~HostFull
    PROVE  NewHostInode \in HostInodes
BY HostAssumption, LeastInSet DEF HostFull, NewHostInode, Unused

\* Where the kernel holds lookups of the inode and none was linked, the inode
\* is found.
LEMMA InodeFound ==
    ASSUME FuseInv, at.op \in OnInode \cup {"link"}, mounted, linked = {}
    PROVE  GetInodeFd(h, at.ino)
BY DEF FuseInv, InodesInv, InoOK, GetInodeFd

LEMMA NamesHandled ==
    ASSUME FuseInv, HandleLookup \/ HandleGetattr \/ HandleSetattr \/ HandleReadlink \/ HandleReaddir
    PROVE  Handled
PROOF
  <1>0. ReqOK(at) /\ HostOK(h) /\ dentry \in [Names -> DOMAIN refs \cup {None}]
    BY DEF FuseInv, QueueInv, InodesInv
  <1>1. CASE HandleLookup
    <2> DEFINE k == HostLookup(h, at.n)
               i == InoOf(k, h.dir[at.n])
    <2>1. at.op # "none" /\ at.n \in Names
      BY <1>0, <1>1 DEF HandleLookup, Working, ReqOK
    <2>2. CASE h.dir[at.n] = None
      <3>1. Error("ok")
        BY <1>1, <2>2 DEF HandleLookup
      <3> QED BY <2>1, <3>1, ErrorHandled
    <2>3. CASE h.dir[at.n] # None
      <3>1. Entry(at.n, i, k, held) /\ UNCHANGED <<openFiles, nextFh, linked>>
        BY <1>1, <2>3 DEF HandleLookup
      <3>2. HostOK(k) /\ Counts(h, k, i)
        BY <1>0, <2>1, <2>3, LookupGood
      <3> HIDE DEF k, i
      <3>3. Keeps(h, k) /\ i \in DOMAIN k.cache
        BY <3>2 DEF Counts
      <3>4. /\ Replies /\ InodesEntered /\ held' = held
        BY <2>1, <3>1, <3>2, <3>3, EntryHandled
      <3> QED BY <3>1, <3>4 DEF Handled, FilesKept
    <2> QED BY <2>2, <2>3
  <1>2. CASE HandleGetattr \/ HandleSetattr \/ HandleReadlink
    <2>1. at.op \in OnInode /\ at.op # "none"
      BY <1>2 DEF HandleGetattr, HandleSetattr, HandleReadlink, Working, OnInode
    <2>2. Error(IF GetInodeFd(h, at.ino) THEN "ok" ELSE "ENOENT")
      BY <1>2 DEF HandleGetattr, HandleSetattr, HandleReadlink, HostGetattr, HostChange, HostReadlink
    <2>3. CASE GetInodeFd(h, at.ino)
      BY <2>1, <2>2, <2>3, ErrorHandled
    <2>4. CASE ~GetInodeFd(h, at.ino)
      <3>1. Error("ENOENT") /\ (mounted => linked # {})
        BY <2>1, <2>2, <2>4, InodeFound
      <3> QED BY <2>1, <3>1, ErrorHandled
    <2> QED BY <2>3, <2>4
  <1>3. CASE HandleReaddir
    <2>1. /\ at.op # "none" /\ Answer("ok", dentry, refs, held) /\ UNCHANGED <<openFiles, nextFh, given, linked>>
          /\ \E new \in NewInodes(h) : h' = HostReaddirPlus(h, new)
      BY <1>3 DEF HandleReaddir, Working
    <2>2. HostOK(h') /\ Keeps(h, h')
      BY <1>0, <2>1, ReaddirGood
    <2>3. Replies /\ InodesKept /\ UNCHANGED held
      BY <1>0, <2>1, <2>2, KeptHandled
    <2> QED BY <2>1, <2>3 DEF Handled, FilesKept
  <1> QED BY <1>1, <1>2, <1>3

LEMMA CreationHandled ==
    ASSUME FuseInv, HandleMknod \/ HandleMkdir \/ HandleSymlink \/ HandleCreate
    PROVE  Handled
PROOF
  <1>0. ReqOK(at) /\ HostOK(h)
    BY DEF FuseInv, QueueInv, InodesInv
  <1>1. at.op # "none" /\ at.n \in Names
    BY <1>0 DEF HandleMknod, HandleMkdir, HandleSymlink, HandleCreate, Working, ReqOK, Changing
  <1>2. CASE HostFull
    <2>1. Error("ENOSPC")
      BY <1>2 DEF HandleMknod, HandleMkdir, HandleSymlink, HandleCreate, Created
    <2> QED BY <1>1, <2>1, ErrorHandled
  <1>3. CASE ~HostFull
    <2> DEFINE f == NewHostInode
    <2>1. f \in HostInodes
      BY <1>3, NewInodeGood
    <2> HIDE DEF f
    <2>2. PICK kd : \/ /\ Entry(at.n, InoOf(Put(h, at.n, f, kd), Put(h, at.n, f, kd).dir[at.n]), Put(h, at.n, f, kd), held)
                       /\ UNCHANGED <<openFiles, nextFh, linked>>
                    \/ /\ Entry(at.n, InoOf(Put(h, at.n, f, kd), f), Put(h, at.n, f, kd), Holding)
                       /\ Opened(f) /\ nextFh' = nextFh + 1 /\ UNCHANGED linked
      <3>1. CASE HandleMknod
        BY <1>3, <3>1 DEF HandleMknod, Created, HostMknod, f
      <3>2. CASE HandleMkdir
        BY <1>3, <3>2 DEF HandleMkdir, Created, HostMkdir, f
      <3>3. CASE HandleSymlink
        BY <1>3, <3>3 DEF HandleSymlink, Created, HostSymlink, f
      <3>4. CASE HandleCreate
        BY <1>3, <3>4 DEF HandleCreate, HostCreateFile, AllocFh, f
      <3> QED BY <3>1, <3>2, <3>3, <3>4
    <2> DEFINE k == Put(h, at.n, f, kd)
               i == InoOf(k, f)
    <2>3. HostOK(k) /\ Counts(h, k, i) /\ k.dir[at.n] = f
      BY <1>0, <1>1, <2>1, PutGood
    <2>4. \/ Entry(at.n, i, k, held) /\ UNCHANGED <<openFiles, nextFh, linked>>
          \/ Entry(at.n, i, k, Holding) /\ Opened(f) /\ nextFh' = nextFh + 1 /\ UNCHANGED linked
      BY <2>2, <2>3
    <2> HIDE DEF k, i
    <2>5. Keeps(h, k) /\ i \in DOMAIN k.cache
      BY <2>3 DEF Counts
    <2>6. CASE Entry(at.n, i, k, held) /\ UNCHANGED <<openFiles, nextFh, linked>>
      <3>1. /\ Replies /\ InodesEntered /\ held' = held
        BY <1>1, <2>3, <2>5, <2>6, EntryHandled
      <3> QED BY <2>6, <3>1 DEF Handled, FilesKept
    <2>7. CASE Entry(at.n, i, k, Holding) /\ Opened(f) /\ nextFh' = nextFh + 1 /\ UNCHANGED linked
      <3>1. /\ Replies /\ InodesEntered
            /\ mounted /\ at.c \in Callers => held' = Holding
        BY <1>1, <2>3, <2>5, <2>7, EntryHandled
      <3> QED BY <2>1, <2>7, <3>1 DEF Handled, FilesOpened
    <2> QED BY <2>4, <2>6, <2>7
  <1> QED BY <1>2, <1>3

LEMMA RemovalHandled ==
    ASSUME FuseInv, HandleUnlink \/ HandleRmdir \/ HandleRename \/ HandleLink
    PROVE  Handled
PROOF
  <1>0. ReqOK(at) /\ HostOK(h) /\ dentry \in [Names -> DOMAIN refs \cup {None}]
    BY DEF FuseInv, QueueInv, InodesInv
  <1>1. at.op # "none" /\ at.n \in Names /\ (HandleRename \/ HandleLink => at.m \in Names)
    BY <1>0 DEF HandleUnlink, HandleRmdir, HandleRename, HandleLink, Working, ReqOK, Changing
  <1>2. CASE HandleUnlink \/ HandleRmdir \/ HandleRename
    <2>1. PICK d, g, names : /\ d \in [Names -> DOMAIN refs \cup {None}]
                             /\ g \in [Names -> HostInodes \cup {None}]
                             /\ Removed([h EXCEPT !.dir = g], d, names)
      <3>1. CASE HandleUnlink \/ HandleRmdir
        <4> DEFINE d == [dentry EXCEPT ![at.n] = None]
                   g == [h.dir EXCEPT ![at.n] = None]
        <4>1. d \in [Names -> DOMAIN refs \cup {None}] /\ g \in [Names -> HostInodes \cup {None}]
          BY <1>0 DEF HostOK
        <4>2. [h EXCEPT !.dir[at.n] = None] = [h EXCEPT !.dir = g]
          OBVIOUS
        <4>3. Removed([h EXCEPT !.dir = g], d, <<at.n>>)
          BY <3>1, <4>2 DEF HandleUnlink, HandleRmdir, HostUnlink, HostRmdir
        <4> QED BY <4>1, <4>3
      <3>2. CASE HandleRename
        <4> DEFINE d == [dentry EXCEPT ![at.m] = dentry[at.n], ![at.n] = None]
                   g == [[h.dir EXCEPT ![at.m] = h.dir[at.n]] EXCEPT ![at.n] = None]
        <4>1. d \in [Names -> DOMAIN refs \cup {None}] /\ g \in [Names -> HostInodes \cup {None}]
          BY <1>0, <1>1, <3>2 DEF HostOK
        <4>2. [h EXCEPT !.dir[at.m] = h.dir[at.n], !.dir[at.n] = None] = [h EXCEPT !.dir = g]
          BY <1>0 DEF HostOK
        <4>3. Removed([h EXCEPT !.dir = g], d, <<at.n, at.m>>)
          BY <3>2, <4>2 DEF HandleRename, HostRename
        <4> QED BY <4>1, <4>3
      <3> QED BY <1>2, <3>1, <3>2
    <2>2. /\ h' = [h EXCEPT !.dir = g] /\ Answer("ok", d, refs, held)
          /\ UNCHANGED <<openFiles, nextFh, given, linked>>
      BY <2>1 DEF Removed
    <2>3. h' \in [dir : {g}, kind : {h'.kind}, cache : {h.cache}, next : {h.next}]
      BY <1>0, <2>2 DEF HostOK
    <2>4. HostOK(h') /\ Keeps(h, h')
      BY <1>0, <2>1, <2>3, NewDir
    <2>5. Replies /\ InodesKept /\ UNCHANGED held
      BY <1>1, <2>1, <2>2, <2>4, KeptHandled
    <2> QED BY <2>2, <2>5 DEF Handled, FilesKept
  <1>3. CASE HandleLink
    <2>1. at.op = "link" /\ at.ino \in Nat /\ at.ino >= 2
      BY <1>0, <1>3 DEF HandleLink, Working, ReqOK, Requests
    <2>2. CASE ~GetInodeFd(h, at.ino)
      <3>1. Error("ENOENT") /\ (mounted => linked # {})
        BY <1>3, <2>1, <2>2, InodeFound DEF HandleLink
      <3> QED BY <1>1, <3>1, ErrorHandled
    <2>3. CASE GetInodeFd(h, at.ino)
      <3> DEFINE f == h.cache[at.ino].src
                 g == [h.dir EXCEPT ![at.m] = f]
                 k == HostLink(h, at.ino, at.m)
      <3>1. at.ino \in DOMAIN h.cache
        BY <2>1, <2>3 DEF GetInodeFd, ROOT_INO
      <3>2. f \in HostInodes
        BY <1>0, <3>1 DEF HostOK
      <3>3. g \in [Names -> HostInodes \cup {None}]
        BY <1>0, <3>2 DEF HostOK
      <3>4. k \in [dir : {g}, kind : {k.kind}, cache : {h.cache}, next : {h.next}]
        BY <1>0 DEF HostOK, HostLink
      <3>5. Entry(at.m, at.ino, k, held) /\ linked' = linked \cup {at.ino} /\ UNCHANGED <<openFiles, nextFh>>
        BY <1>3, <2>3 DEF HandleLink
      <3> HIDE DEF k, g
      <3>6. HostOK(k) /\ Keeps(h, k) /\ at.ino \in DOMAIN k.cache
        BY <1>0, <3>1, <3>3, <3>4, NewDir
      <3>7. /\ Replies /\ InodesEntered /\ held' = held
        BY <1>1, <3>5, <3>6, EntryHandled
      <3> QED BY <3>5, <3>7 DEF Handled, FilesKept
    <2> QED BY <2>2, <2>3
  <1> QED BY <1>2, <1>3

LEMMA FilesHandled ==
    ASSUME FuseInv, HandleOpen \/ HandleRead \/ HandleWrite \/ HandleFlush \/ HandleFsync \/ HandleRelease
    PROVE  Handled
PROOF
  <1>0. ReqOK(at) /\ HostOK(h) /\ dentry \in [Names -> DOMAIN refs \cup {None}] /\ Keeps(h, h)
    BY KeepsItself DEF FuseInv, QueueInv, InodesInv
  <1>1. CASE HandleOpen
    <2>1. at.op = "open" /\ at.ino \in Nat /\ at.ino >= 2 /\ at.op # "none"
      BY <1>0, <1>1 DEF HandleOpen, Working, ReqOK, Requests, OnInode
    <2>2. CASE ~GetInodeFd(h, at.ino)
      <3>1. Error("ENOENT") /\ (mounted => linked # {})
        BY <1>1, <2>1, <2>2, InodeFound DEF HandleOpen, HostOpen, OnInode
      <3> QED BY <2>1, <3>1, ErrorHandled
    <2>3. CASE GetInodeFd(h, at.ino)
      <3> DEFINE f == h.cache[at.ino].src
      <3>1. at.ino \in DOMAIN h.cache
        BY <2>1, <2>3 DEF GetInodeFd, ROOT_INO
      <3>2. f \in HostInodes
        BY <1>0, <3>1 DEF HostOK
      <3>3. Opened(f) /\ nextFh' = nextFh + 1 /\ Answer("ok", dentry, refs, Holding) /\ UNCHANGED <<h, given, linked>>
        BY <1>1, <2>3 DEF HandleOpen, HostOpen, AllocFh
      <3>4. /\ Replies
            /\ mounted /\ at.c \in Callers => dentry' = dentry /\ refs' = refs /\ held' = Holding
            /\ ~(mounted /\ at.c \in Callers) => UNCHANGED <<dentry, refs, held>>
        BY <2>1, <3>3, OkReplies
      <3>5. InodesKept
        BY <1>0, <3>3, <3>4 DEF InodesKept
      <3> QED BY <3>2, <3>3, <3>4, <3>5 DEF Handled, FilesOpened
    <2> QED BY <2>2, <2>3
  <1>2. CASE HandleRead \/ HandleWrite \/ HandleFlush \/ HandleFsync
    <2>1. at.op \in OnHandle \ {"release"} /\ at.op # "none" /\ OnOpenFile
      BY <1>2 DEF HandleRead, HandleWrite, HandleFlush, HandleFsync, Working, OnHandle
    <2>2. mounted /\ at.c \in Callers => at.fh \in DOMAIN openFiles
      BY <2>1 DEF FuseInv, FilesInv, FhOK
    <2>3. CASE at.fh \in DOMAIN openFiles
      <3>1. Error("ok")
        BY <2>1, <2>3 DEF OnOpenFile
      <3> QED BY <2>1, <3>1, ErrorHandled
    <2>4. CASE at.fh \notin DOMAIN openFiles
      <3>1. Error("EBADF")
        BY <2>1, <2>4 DEF OnOpenFile
      <3> QED BY <2>1, <2>2, <2>4, <3>1, ErrorHandled
    <2> QED BY <2>3, <2>4
  <1>3. CASE HandleRelease
    <2>1. /\ at.op = "release" /\ at.op # "none" /\ Answer("ok", dentry, refs, held) /\ UNCHANGED <<h, nextFh, given, linked>>
          /\ openFiles' = [x \in DOMAIN openFiles \ {at.fh} |-> openFiles[x]]
      BY <1>3 DEF HandleRelease, Working, Restrict
    <2>2. Replies /\ InodesKept /\ UNCHANGED held
      BY <1>0, <2>1, KeptHandled
    <2> QED BY <2>1, <2>2 DEF Handled, FilesReleased
  <1> QED BY <1>1, <1>2, <1>3

LEMMA OthersHandled ==
    ASSUME FuseInv, Refuse \/ HandleInit
    PROVE  Handled
PROOF
  <1>0. ReqOK(at) /\ HostOK(h) /\ dentry \in [Names -> DOMAIN refs \cup {None}] /\ Keeps(h, h)
    BY KeepsItself DEF FuseInv, QueueInv, InodesInv
  <1>1. CASE Refuse
    <2>1. at.c \in Callers /\ Error("EACCES")
      BY <1>1 DEF Refuse, Permitted
    <2>2. at.op # "none"
      BY <1>0, <2>1, FuseAssumption DEF ReqOK, Unasked
    <2> QED BY <2>1, <2>2, ErrorHandled
  <1>2. CASE HandleInit
    <2>1. at.op = "init" /\ at' = Nothing /\ state' = "ready" /\ UNCHANGED <<h, openFiles, nextFh, kernel>>
      BY <1>2 DEF HandleInit, Working
    <2>2. at.c \notin Callers
      BY <1>0, <2>1, FuseAssumption DEF ReqOK, Unasked
    <2>3. ErrorsInv'
      BY <2>1 DEF FuseInv, ErrorsInv, kernel
    <2>4. Replies
      BY <2>1, <2>2, <2>3 DEF Replies, kernel, States
    <2>5. InodesKept /\ FilesKept
      BY <1>0, <2>1 DEF InodesKept, FilesKept, kernel
    <2> QED BY <2>4, <2>5 DEF Handled
  <1> QED BY <1>1, <1>2

LEMMA SendAsks ==
    ASSUME FuseInv, NEW c \in Callers, NEW op \in Ops \ Unasked, NEW n \in Names \cup {NoName},
           NEW m \in Names \cup {NoName}, NEW i \in Nat, NEW f \in Nat, Send(c, Req(op, n, m, i, f)),
           op \in (Changing \cup {"lookup"}) => n \in Names, op \in {"link", "rename"} => m \in Names,
           op \in (OnInode \cup {"link"}) => i \in DOMAIN refs, op \in OnHandle => f \in held[c]
    PROVE  \E r : Asks(c, r)
PROOF
  <1> DEFINE r == [op |-> op, c |-> c, n |-> n, m |-> m, ino |-> i, fh |-> f]
  <1>1. /\ mounted /\ ~pending[c] /\ calls < MaxCalls /\ calls' = calls + 1 /\ queue' = Append(queue, r)
        /\ pending' = [pending EXCEPT ![c] = TRUE]
        /\ UNCHANGED <<daemon, forgets, dentry, refs, held, errors, mounted, given, linked>>
    BY DEF Send, Req
  <1>2. r \in Requests /\ r.op = op /\ r.c = c /\ r.n = n /\ r.m = m /\ r.ino = i /\ r.fh = f
    BY DEF Requests
  <1> HIDE DEF r
  <1>3. op \in (OnInode \cup {"link"}) => i >= 2
    BY DEF FuseInv, InodesInv
  <1>4. ReqOK(r)
    BY <1>2, <1>3, FuseAssumption DEF ReqOK
  <1>5. FhOK(r, held, nextFh) /\ InoOK(r, refs)
    BY <1>2 DEF FhOK, InoOK, Unasked
  <1>6. calls' \in 0 .. MaxCalls
    BY <1>1, FuseAssumption DEF FuseInv, MiscInv
  <1>7. Asks(c, r)
    BY <1>1, <1>2, <1>4, <1>5, <1>6 DEF Asks
  <1> QED BY <1>7

LEMMA CallsAsk ==
    ASSUME FuseInv, NEW c \in Callers, NEW n \in Names,
           \/ \E op \in Sharing : CallShared(c, op, n)
           \/ \E op \in {"create", "mkdir", "mknod", "symlink"} : CallCreate(c, op, n)
           \/ \E op \in {"unlink", "rmdir"} : CallRemove(c, op, n)
           \/ \E op \in OnInode : CallOnInode(c, op, n)
           \/ \E op \in {"link", "rename"}, m \in Names : CallMove(c, op, n, m)
    PROVE  \E r : Asks(c, r)
PROOF
  <1>0. /\ dentry[n] # None => dentry[n] \in DOMAIN refs /\ dentry[n] \in Nat
        /\ None \in Nat /\ ROOT_INO \in Nat
    BY DEF FuseInv, InodesInv, None, ROOT_INO
  <1>1. ASSUME NEW op \in Sharing \cup {"create", "mkdir", "mknod", "symlink", "unlink", "rmdir"},
               Send(c, Req(op, n, NoName, ROOT_INO, None))
        PROVE  \E r : Asks(c, r)
    <2>1. op \in Ops \ Unasked /\ op \notin {"link", "rename"} \cup OnInode \cup OnHandle
      BY DEF Ops, Sharing, Changing, Unasked, OnInode, OnHandle
    <2> QED BY <1>0, <1>1, <2>1, SendAsks
  <1>2. ASSUME NEW op \in OnInode, CallOnInode(c, op, n) PROVE \E r : Asks(c, r)
    <2>1. dentry[n] # None /\ Send(c, Req(op, n, NoName, dentry[n], None))
      BY <1>2 DEF CallOnInode
    <2>2. op \in Ops \ Unasked /\ op \notin {"link", "rename"} \cup OnHandle
      BY DEF Ops, Changing, Unasked, OnInode, OnHandle
    <2> QED BY <1>0, <2>1, <2>2, SendAsks
  <1>3. ASSUME NEW op \in {"link", "rename"}, NEW m \in Names, CallMove(c, op, n, m) PROVE \E r : Asks(c, r)
    <2>1. dentry[n] # None /\ Send(c, Req(op, n, m, dentry[n], None))
      BY <1>3 DEF CallMove
    <2>2. op \in Ops \ Unasked /\ op \notin OnInode \cup OnHandle
      BY DEF Ops, Changing, Unasked, OnInode, OnHandle
    <2> QED BY <1>0, <2>1, <2>2, SendAsks
  <1> QED BY <1>1, <1>2, <1>3 DEF CallShared, CallCreate, CallRemove

LEMMA Steps ==
    ASSUME FuseInv, Next
    PROVE  \/ \E c \in Callers : Close(c) \/ \E r : Asks(c, r)
           \/ Receive \/ Handled \/ Drops \/ Quiet \/ Unmount
           \/ \E i \in DOMAIN refs : Forget(i)
           \/ \E S \in SUBSET DOMAIN forgets : Forgotten(S)
PROOF
  <1>1. NameRequest \/ FileRequest \/ HandleCreate \/ Refuse \/ HandleInit => Handled
    BY NamesHandled, CreationHandled, RemovalHandled, FilesHandled, OthersHandled DEF NameRequest, FileRequest
  <1>2. HandleForget \/ HandleBatchForget => \E S \in SUBSET DOMAIN forgets : Forgotten(S)
    <2>1. ASSUME NEW i \in DOMAIN forgets, Forgotten({i}) PROVE \E S \in SUBSET DOMAIN forgets : Forgotten(S)
      BY <2>1
    <2> QED BY <2>1 DEF HandleForget, HandleBatchForget
  <1>3. QueueInval \/ LeaveLoop \/ JoinNotifyThread \/ TakeInval => Quiet
    BY DEF QueueInval, LeaveLoop, JoinNotifyThread, TakeInval, Quiet, FuseInv, MiscInv, QueueInv, States
  <1>4. SendInval => Drops
    BY DEF SendInval, Drops
  <1>5. ASSUME NEW n \in Names, Evict(n) PROVE Drops
    BY <1>5 DEF Evict, Drops, daemon
  <1>6. ASSUME NEW c \in Callers, NEW op \in OnHandle, CallOnHandle(c, op) PROVE \E r : Asks(c, r)
    <2>1. PICK f \in held[c] : Send(c, Req(op, NoName, NoName, None, f)) /\ op # "release"
      BY <1>6 DEF CallOnHandle
    <2>2. f \in Nat /\ None \in Nat
      BY DEF FuseInv, FilesInv, None
    <2>3. op \in Ops \ Unasked /\ op \notin {"link", "rename", "lookup"} \cup OnInode \cup Changing
      BY <2>1 DEF Ops, Unasked, OnInode, OnHandle, Changing
    <2> QED BY <2>1, <2>2, <2>3, SendAsks
  <1>7. SessionThread => Receive \/ Handled \/ Quiet \/ \E S \in SUBSET DOMAIN forgets : Forgotten(S)
    BY <1>1, <1>2, <1>3 DEF SessionThread
  <1>8. Notify => Quiet \/ Drops
    BY <1>3, <1>4 DEF Notify
  <1>9. Kernel => \/ \E c \in Callers : Close(c) \/ \E r : Asks(c, r)
                  \/ Drops \/ Unmount \/ \E i \in DOMAIN refs : Forget(i)
    BY <1>5, <1>6, CallsAsk DEF Kernel
  <1> QED BY <1>7, <1>8, <1>9 DEF Next

(***************************************************************************)
(* The invariant is kept.                                                  *)
(***************************************************************************)
LEMMA Queued ==
    ASSUME FuseInv, NEW r \in Requests, queue' = Append(queue, r)
    PROVE  /\ queue' \in Seq(Requests) /\ Len(queue) \in Nat /\ Len(queue') = Len(queue) + 1
           /\ \A k \in 1 .. Len(queue') : \/ k \in 1 .. Len(queue) /\ queue'[k] = queue[k]
                                          \/ k = Len(queue) + 1 /\ queue'[k] = r
PROOF
  <1>1. queue \in Seq(Requests)
    BY DEF FuseInv, QueueInv
  <1>2. Len(queue) \in Nat /\ queue' \in Seq(Requests) /\ Len(queue') = Len(queue) + 1
    BY <1>1, LenProperties, AppendProperties
  <1>3. queue'[Len(queue) + 1] = r /\ \A k \in 1 .. Len(queue) : queue'[k] = queue[k]
    BY <1>1, AppendProperties
  <1>4. ASSUME NEW k \in 1 .. Len(queue')
        PROVE  \/ k \in 1 .. Len(queue) /\ queue'[k] = queue[k]
               \/ k = Len(queue) + 1 /\ queue'[k] = r
    <2>1. k \in 1 .. Len(queue) \/ k = Len(queue) + 1
      BY <1>2
    <2> QED BY <1>3, <2>1
  <1> QED BY <1>2, <1>4

LEMMA Taken ==
    ASSUME FuseInv, Receive
    PROVE  /\ queue' \in Seq(Requests) /\ Len(queue) \in Nat /\ 1 \in 1 .. Len(queue) /\ at' = queue[1]
           /\ \A k \in 1 .. Len(queue') : k + 1 \in 1 .. Len(queue) /\ k + 1 # 1 /\ queue'[k] = queue[k + 1]
PROOF
  <1>1. queue \in Seq(Requests) /\ queue # <<>> /\ at' = Head(queue) /\ queue' = Tail(queue)
    BY DEF FuseInv, QueueInv, Receive
  <1>2. queue' \in Seq(Requests) /\ Len(queue) \in Nat /\ Len(queue) >= 1 /\ Len(queue') = Len(queue) - 1 /\ at' = queue[1]
    BY <1>1, LenProperties, HeadTailProperties, EmptySeq
  <1>3. \A k \in 1 .. Len(queue') : k + 1 \in 1 .. Len(queue) /\ k + 1 # 1
    BY <1>2
  <1>4. \A k \in 1 .. Len(queue') : queue'[k] = queue[k + 1]
    BY <1>1, <1>2, HeadTailProperties
  <1> QED BY <1>2, <1>3, <1>4

LEMMA NothingOK == ReqOK(Nothing) /\ Nothing.op = "none" /\ Nothing.c = "none"
BY FuseAssumption DEF ReqOK, Nothing, Requests, Ops, Unasked, Changing, OnInode, None

LEMMA QueueStep == FuseInv /\ [Next]_vars => QueueInv'
PROOF
  <1> SUFFICES ASSUME FuseInv, [Next]_vars PROVE QueueInv'
    OBVIOUS
  <1> USE DEF QueueInv
  <1>0. QueueInv
    BY DEF FuseInv
  <1>1. CASE UNCHANGED vars
    BY <1>0, <1>1 DEF vars, ReqOK
  <1>2. ASSUME NEW c \in Callers, NEW r, Asks(c, r) PROVE QueueInv'
    <2>1. /\ mounted /\ ~pending[c] /\ r.c = c /\ ReqOK(r) /\ queue' = Append(queue, r)
          /\ pending' = [pending EXCEPT ![c] = TRUE] /\ UNCHANGED <<at, due, mounted>>
      BY <1>2 DEF Asks, daemon
    <2>2. /\ queue' \in Seq(Requests) /\ Len(queue) \in Nat /\ Len(queue') = Len(queue) + 1
          /\ \A k \in 1 .. Len(queue') : \/ k \in 1 .. Len(queue) /\ queue'[k] = queue[k]
                                         \/ k = Len(queue) + 1 /\ queue'[k] = r
      BY <2>1, Queued DEF ReqOK
    <2>3. c # at.c /\ \A k \in 1 .. Len(queue) : queue[k].c # c
      BY <1>0, <2>1
    <2>4. \A k \in 1 .. Len(queue') : ReqOK(queue'[k])
      BY <1>0, <2>1, <2>2
    <2>5. \A k \in 1 .. Len(queue') : queue'[k].c # at.c \/ queue'[k].c \notin Callers
      BY <1>0, <2>1, <2>2, <2>3
    <2>6. \A k, j \in 1 .. Len(queue') : queue'[k].c \in Callers /\ queue'[j].c = queue'[k].c => j = k
      BY <1>0, <2>1, <2>2, <2>3
    <2>7. pending' \in [Callers -> BOOLEAN] /\ pending'[c] /\ \A d \in Callers : pending[d] => pending'[d]
      BY <1>0, <2>1
    <2>8. \A k \in 1 .. Len(queue') : queue'[k].c \in Callers => pending'[queue'[k].c]
      BY <1>0, <2>1, <2>2, <2>7
    <2>9. at.c \in Callers => pending'[at.c]
      BY <1>0, <2>1, <2>7
    <2> QED BY <1>0, <2>1, <2>2, <2>4, <2>5, <2>6, <2>7, <2>8, <2>9 DEF ReqOK
  <1>3. ASSUME NEW c \in Callers, Close(c) PROVE QueueInv'
    <2>1. PICK f \in held[c] : queue' = Append(queue, Req("release", NoName, NoName, None, f))
      BY <1>3 DEF Close
    <2> DEFINE r == Req("release", NoName, NoName, None, f)
    <2>2. f \in Nat /\ mounted /\ UNCHANGED <<at, due, pending, mounted>>
      BY <1>3 DEF Close, daemon, FuseInv, FilesInv
    <2>3. ReqOK(r) /\ r.c = "none" /\ r.c \notin Callers
      BY <2>2, FuseAssumption DEF ReqOK, Req, Requests, Ops, Unasked, OnInode, OnHandle, Changing, None
    <2> HIDE DEF r
    <2>4. /\ queue' \in Seq(Requests) /\ Len(queue) \in Nat /\ Len(queue') = Len(queue) + 1
          /\ \A k \in 1 .. Len(queue') : \/ k \in 1 .. Len(queue) /\ queue'[k] = queue[k]
                                         \/ k = Len(queue) + 1 /\ queue'[k] = r
      BY <2>1, <2>3, Queued DEF ReqOK, r
    <2>5. \A k \in 1 .. Len(queue') : ReqOK(queue'[k])
      BY <1>0, <2>3, <2>4
    <2>6. \A k \in 1 .. Len(queue') : queue'[k].c \in Callers => k \in 1 .. Len(queue) /\ queue'[k] = queue[k]
      BY <2>3, <2>4
    <2> QED BY <1>0, <2>2, <2>4, <2>5, <2>6 DEF ReqOK
  <1>4. CASE Receive
    <2>1. /\ queue' \in Seq(Requests) /\ Len(queue) \in Nat /\ 1 \in 1 .. Len(queue) /\ at' = queue[1]
          /\ \A k \in 1 .. Len(queue') : k + 1 \in 1 .. Len(queue) /\ k + 1 # 1 /\ queue'[k] = queue[k + 1]
      BY <1>4, Taken
    <2>2. mounted /\ UNCHANGED <<pending, mounted, due>> /\ due = <<>>
      BY <1>4 DEF Receive, Looping
    <2>3. ReqOK(at') /\ \A k \in 1 .. Len(queue') : ReqOK(queue'[k])
      BY <1>0, <2>1
    <2>4. \A k \in 1 .. Len(queue') : queue'[k].c \in Callers => queue'[k].c # at'.c /\ pending[queue'[k].c]
      BY <1>0, <2>1, <2>2
    <2>5. \A j, k \in 1 .. Len(queue') : queue'[k].c \in Callers /\ queue'[j].c = queue'[k].c => j = k
      <3> TAKE j, k \in 1 .. Len(queue')
      <3> HAVE queue'[k].c \in Callers /\ queue'[j].c = queue'[k].c
      <3>1. j + 1 = k + 1
        BY <1>0, <2>1
      <3> QED BY <3>1
    <2> QED BY <1>0, <2>1, <2>2, <2>3, <2>4, <2>5 DEF ReqOK
  <1>5. CASE Handled
    <2>1. at' = Nothing /\ UNCHANGED <<queue, mounted>>
      BY <1>5 DEF Handled, Replies
    <2>2. \/ pending' = pending
          \/ at.c \in Callers /\ pending' = [pending EXCEPT ![at.c] = FALSE]
      BY <1>5 DEF Handled, Replies
    <2>3. pending' \in [Callers -> BOOLEAN] /\ \A c \in Callers : c # at.c /\ pending[c] => pending'[c]
      BY <1>0, <2>2
    <2>4. at'.c \notin Callers /\ ReqOK(at')
      BY <2>1, NothingOK, FuseAssumption
    <2> QED BY <1>0, <2>1, <2>3, <2>4 DEF ReqOK
  <1>6. CASE Drops
    BY <1>0, <1>6 DEF Drops, ReqOK
  <1>7. CASE Quiet
    BY <1>0, <1>7 DEF Quiet, kernel, ReqOK
  <1>8. CASE Unmount
    <2>1. queue' = <<>> /\ ~mounted' /\ mounted' \in BOOLEAN /\ pending' = [c \in Callers |-> FALSE] /\ UNCHANGED <<at, due>>
      BY <1>8 DEF Unmount, daemon
    <2>2. queue' \in Seq(Requests) /\ Len(queue') = 0
      BY <2>1
    <2> QED BY <1>0, <2>1, <2>2 DEF ReqOK
  <1>9. ASSUME NEW i \in DOMAIN refs, Forget(i) PROVE QueueInv'
    BY <1>0, <1>9 DEF Forget, daemon, ReqOK
  <1>10. ASSUME NEW S, Forgotten(S) PROVE QueueInv'
    BY <1>0, <1>10 DEF Forgotten, ReqOK
  <1> QED BY <1>1, <1>2, <1>3, <1>4, <1>5, <1>6, <1>7, <1>8, <1>9, <1>10, Steps

LEMMA FilesStep == FuseInv /\ [Next]_vars => FilesInv'
PROOF
  <1> SUFFICES ASSUME FuseInv, [Next]_vars PROVE FilesInv'
    OBVIOUS
  <1> USE DEF FilesInv
  <1>0. FilesInv /\ QueueInv
    BY DEF FuseInv
  <1>1. CASE UNCHANGED vars
    BY <1>0, <1>1 DEF vars, FhOK
  <1>2. ASSUME NEW c \in Callers, NEW r, Asks(c, r) PROVE FilesInv'
    <2>1. mounted /\ ReqOK(r) /\ FhOK(r, held, nextFh) /\ queue' = Append(queue, r) /\ UNCHANGED <<at, openFiles, nextFh, held, mounted>>
      BY <1>2 DEF Asks, daemon
    <2>2. \A k \in 1 .. Len(queue') : FhOK(queue'[k], held, nextFh)
      BY <1>0, <2>1, Queued DEF ReqOK
    <2> QED BY <1>0, <2>1, <2>2 DEF FhOK
  <1>3. ASSUME NEW c \in Callers, Close(c) PROVE FilesInv'
    <2>1. PICK f \in held[c] : /\ queue' = Append(queue, Req("release", NoName, NoName, None, f))
                               /\ held' = [held EXCEPT ![c] = @ \ {f}]
      BY <1>3 DEF Close
    <2> DEFINE r == Req("release", NoName, NoName, None, f)
    <2>2. f \in Nat /\ mounted /\ ~pending[c] /\ UNCHANGED <<at, openFiles, nextFh, mounted>>
      BY <1>3 DEF Close, daemon, FuseInv
    <2>3. r \in Requests /\ r.op = "release" /\ r.fh = f
      BY <2>2 DEF Req, Requests, Ops, Unasked, None
    <2> HIDE DEF r
    <2>4. /\ held' \in [Callers -> SUBSET DOMAIN openFiles] /\ f \notin held'[c]
          /\ \A d \in Callers : held'[d] \subseteq held[d] /\ (d # c => held'[d] = held[d])
      BY <1>0, <2>1
    <2>5. FhOK(r, held', nextFh)
      BY <1>0, <2>2, <2>3, <2>4 DEF FhOK, OnHandle
    <2>6. ASSUME NEW q, ReqOK(q), FhOK(q, held, nextFh), q.c # c PROVE FhOK(q, held', nextFh)
      <3>1. q.op \in OnHandle \ {"release"} => q.c \in Callers
        BY <2>6 DEF ReqOK, Requests, OnHandle, Unasked
      <3> QED BY <2>2, <2>4, <2>6, <3>1 DEF FhOK
    <2>7. at.c # c /\ \A k \in 1 .. Len(queue) : queue[k].c # c
      BY <1>0, <2>2 DEF QueueInv
    <2>8. \A k \in 1 .. Len(queue') : \/ k \in 1 .. Len(queue) /\ queue'[k] = queue[k]
                                      \/ k = Len(queue) + 1 /\ queue'[k] = r
      BY <2>1, <2>3, Queued DEF r
    <2>9. \A k \in 1 .. Len(queue) : FhOK(queue[k], held', nextFh) 
      <3> TAKE k \in 1 .. Len(queue)
      <3>1. ReqOK(queue[k]) /\ FhOK(queue[k], held, nextFh) /\ queue[k].c # c
        BY <1>0, <2>2, <2>7 DEF QueueInv
      <3> QED BY <2>6, <3>1
    <2>10. FhOK(at, held', nextFh)
      BY <1>0, <2>2, <2>6, <2>7 DEF QueueInv
    <2> QED BY <1>0, <2>2, <2>4, <2>5, <2>8, <2>9, <2>10 DEF FhOK
  <1>4. CASE Receive
    <2>1. mounted /\ UNCHANGED <<openFiles, nextFh, held, mounted>>
      BY <1>4 DEF Receive
    <2>2. FhOK(at', held, nextFh) /\ \A k \in 1 .. Len(queue') : FhOK(queue'[k], held, nextFh)
      BY <1>0, <1>4, <2>1, Taken
    <2> QED BY <1>0, <2>1, <2>2
  <1>5. CASE Handled
    <2>1. at' = Nothing /\ UNCHANGED <<queue, mounted>>
      BY <1>5 DEF Handled, Replies
    <2>2. \A hd, nx : FhOK(at', hd, nx)
      BY <2>1 DEF FhOK, Nothing, OnHandle
    <2>3. CASE FilesKept
      BY <1>0, <2>1, <2>2, <2>3 DEF FilesKept
    <2>4. CASE FilesOpened
      <3>1. PICK f \in HostInodes : openFiles' = [x \in DOMAIN openFiles \cup {nextFh} |-> IF x = nextFh THEN f ELSE openFiles[x]]
        BY <2>4 DEF FilesOpened, Opened
      <3>2. nextFh' = nextFh + 1 /\ nextFh \in Nat \ {0}
        BY <1>0, <2>4 DEF FilesOpened
      <3>3. \/ held' = held
            \/ mounted /\ held' = [c \in Callers |-> IF c = at.c THEN held[c] \cup {nextFh} ELSE held[c]]
        BY <1>5, <2>4 DEF FilesOpened, Handled, Replies, Holding
      <3>4. \A x \in DOMAIN openFiles : x < nextFh
        BY <1>0
      <3>5. \A c \in Callers : nextFh \notin held[c]
        BY <1>0, <3>2, <3>4
      <3>6. /\ openFiles' = [x \in DOMAIN openFiles' |-> openFiles'[x]] /\ DOMAIN openFiles' = DOMAIN openFiles \cup {nextFh}
            /\ \A x \in DOMAIN openFiles' : openFiles'[x] \in HostInodes
        BY <1>0, <3>1
      <3>7. \A x \in DOMAIN openFiles' : x \in 1 .. (nextFh' - 1)
        BY <1>0, <3>2, <3>6
      <3>8. \A c \in Callers : \A x \in held'[c] : x \in held[c] \/ (x = nextFh /\ c = at.c)
        BY <1>0, <3>3
      <3>9. \A c \in Callers : held[c] \subseteq held'[c]
        BY <1>0, <3>3
      <3>10. held' \in [Callers -> SUBSET DOMAIN openFiles']
        BY <1>0, <3>3, <3>6
      <3>11. \A c, d \in Callers : c # d => held'[c] \cap held'[d] = {}
        BY <1>0, <3>5, <3>8
      <3>12. ASSUME mounted, NEW k \in 1 .. Len(queue) PROVE FhOK(queue[k], held', nextFh')
        <4>1. FhOK(queue[k], held, nextFh) /\ ReqOK(queue[k])
          BY <1>0, <3>12 DEF QueueInv
        <4>2. queue[k].op \in OnHandle \ {"release"} => queue[k].c \in Callers
          BY <4>1 DEF ReqOK, Requests, OnHandle, Unasked
        <4>3. queue[k].fh < nextFh => queue[k].fh < nextFh' /\ queue[k].fh # nextFh
          BY <3>2, <4>1 DEF ReqOK, Requests
        <4> QED BY <3>8, <3>9, <4>1, <4>2, <4>3 DEF FhOK
      <3>13. ~mounted => \A c \in Callers : held'[c] = {}
        BY <1>0, <3>3
      <3> QED BY <2>1, <2>2, <3>2, <3>6, <3>7, <3>10, <3>11, <3>12, <3>13
    <2>5. CASE FilesReleased
      <3>1. /\ at.op = "release" /\ UNCHANGED <<nextFh, held>>
            /\ openFiles' = [x \in DOMAIN openFiles \ {at.fh} |-> openFiles[x]]
        BY <2>5 DEF FilesReleased
      <3>2. \A c \in Callers : at.fh \notin held[c]
        <4>1. CASE mounted
          BY <1>0, <3>1, <4>1 DEF FhOK
        <4>2. CASE ~mounted
          BY <1>0, <4>2
        <4> QED BY <4>1, <4>2
      <3>3. held \in [Callers -> SUBSET DOMAIN openFiles']
        BY <1>0, <3>1, <3>2
      <3> QED BY <1>0, <2>1, <2>2, <3>1, <3>3
    <2> QED BY <1>5, <2>3, <2>4, <2>5 DEF Handled
  <1>6. CASE Drops
    BY <1>0, <1>6 DEF Drops
  <1>7. CASE Quiet
    BY <1>0, <1>7 DEF Quiet, kernel
  <1>8. CASE Unmount
    <2>1. ~mounted' /\ held' = [c \in Callers |-> {}] /\ UNCHANGED <<openFiles, nextFh>>
      BY <1>8 DEF Unmount, daemon
    <2> QED BY <1>0, <2>1
  <1>9. ASSUME NEW i \in DOMAIN refs, Forget(i) PROVE FilesInv'
    BY <1>0, <1>9 DEF Forget, daemon
  <1>10. ASSUME NEW S, Forgotten(S) PROVE FilesInv'
    BY <1>0, <1>10 DEF Forgotten
  <1> QED BY <1>1, <1>2, <1>3, <1>4, <1>5, <1>6, <1>7, <1>8, <1>9, <1>10, Steps
\* The part of InodesInv that counts.
Counted(i, rf, fg, g, gv) ==
    /\ i \in DOMAIN g.cache /\ i \in DOMAIN gv /\ g.cache[i].src = gv[i]
    /\ g.cache[i].nlookup >= CountOf(rf, i) + CountOf(fg, i)

LEMMA InodesStep == FuseInv /\ [Next]_vars => InodesInv'
PROOF
  <1> SUFFICES ASSUME FuseInv, [Next]_vars PROVE InodesInv'
    OBVIOUS
  <1>0. /\ InodesInv /\ QueueInv /\ HostOK(h)
        /\ \A i \in (DOMAIN refs \cup DOMAIN forgets) \ linked : Counted(i, refs, forgets, h, given)
        /\ \A i : CountOf(refs, i) \in Nat /\ CountOf(forgets, i) \in Nat
    BY DEF FuseInv, InodesInv, Counted, CountOf
  <1>1. CASE UNCHANGED vars
    BY <1>0, <1>1 DEF vars, InodesInv, InoOK
  <1>2. ASSUME NEW c \in Callers, NEW r, Asks(c, r) PROVE InodesInv'
    <2>1. /\ mounted /\ ReqOK(r) /\ InoOK(r, refs) /\ queue' = Append(queue, r)
          /\ UNCHANGED <<h, refs, forgets, dentry, given, linked, at, mounted>>
      BY <1>2 DEF Asks, daemon
    <2>2. \A k \in 1 .. Len(queue') : InoOK(queue'[k], refs)
      BY <1>0, <2>1, Queued DEF ReqOK, InodesInv
    <2> QED BY <1>0, <2>1, <2>2 DEF InodesInv
  <1>3. ASSUME NEW c \in Callers, Close(c) PROVE InodesInv'
    <2>1. PICK f \in held[c] : queue' = Append(queue, Req("release", NoName, NoName, None, f))
      BY <1>3 DEF Close
    <2> DEFINE r == Req("release", NoName, NoName, None, f)
    <2>2. f \in Nat /\ mounted /\ UNCHANGED <<h, refs, forgets, dentry, given, linked, at, mounted>>
      BY <1>3 DEF Close, daemon, FuseInv, FilesInv
    <2>3. r \in Requests /\ r.op = "release"
      BY <2>2 DEF Req, Requests, Ops, Unasked, None
    <2>4. InoOK(r, refs)
      BY <2>3 DEF InoOK, OnInode
    <2> HIDE DEF r
    <2>5. \A k \in 1 .. Len(queue') : \/ k \in 1 .. Len(queue) /\ queue'[k] = queue[k]
                                      \/ k = Len(queue) + 1 /\ queue'[k] = r
      BY <2>1, <2>3, Queued DEF r
    <2>6. \A k \in 1 .. Len(queue') : InoOK(queue'[k], refs)
      BY <1>0, <2>2, <2>4, <2>5 DEF InodesInv
    <2> QED BY <1>0, <2>2, <2>6 DEF InodesInv
  <1>4. CASE Receive
    <2>1. mounted /\ UNCHANGED <<h, refs, forgets, dentry, given, linked, mounted>>
      BY <1>4 DEF Receive
    <2>2. InoOK(at', refs) /\ \A k \in 1 .. Len(queue') : InoOK(queue'[k], refs)
      BY <1>0, <1>4, <2>1, Taken DEF InodesInv
    <2> QED BY <1>0, <2>1, <2>2 DEF InodesInv
  <1>5. CASE Handled
    <2>1. at' = Nothing /\ UNCHANGED <<queue, forgets, mounted>>
      BY <1>5 DEF Handled, Replies
    <2>2. \A rf : InoOK(at', rf)
      BY <2>1 DEF InoOK, Nothing, OnInode
    <2>3. CASE InodesKept
      <3>1. HostOK(h') /\ Keeps(h, h') /\ dentry' \in [Names -> DOMAIN refs \cup {None}] /\ UNCHANGED <<refs, given, linked>>
        BY <2>3 DEF InodesKept
      <3>2. ASSUME NEW i \in (DOMAIN refs \cup DOMAIN forgets) \ linked PROVE Counted(i, refs, forgets, h', given)
        <4>1. Counted(i, refs, forgets, h, given)
          BY <1>0
        <4>2. i \in DOMAIN h'.cache /\ h'.cache[i].src = h.cache[i].src /\ h'.cache[i].nlookup >= h.cache[i].nlookup
          BY <3>1, <4>1 DEF Keeps, Counted
        <4>3. h.cache[i].nlookup \in Nat /\ h'.cache[i].nlookup \in Nat
          BY <1>0, <3>1, <4>1, <4>2 DEF HostOK, Counted
        <4> QED BY <1>0, <4>1, <4>2, <4>3 DEF Counted
      <3> QED BY <1>0, <2>1, <2>2, <3>1, <3>2 DEF InodesInv, Counted
    <2>4. CASE InodesEntered
      <3>1. PICK i, n :
               /\ HostOK(h') /\ Keeps(h, h') /\ i \in DOMAIN h'.cache /\ (Counts(h, h', i) \/ i \in linked')
               /\ linked \subseteq linked'
               /\ given' = [j \in DOMAIN given \cup {i} |-> IF j = i THEN h'.cache[i].src ELSE given[j]]
               /\ mounted /\ at.c \in Callers =>
                     /\ refs' = [j \in DOMAIN refs \cup {i} |->
                                   (IF j \in DOMAIN refs THEN refs[j] ELSE 0) + (IF j = i THEN 1 ELSE 0)]
                     /\ dentry' = [dentry EXCEPT ![n] = i]
        BY <2>4 DEF InodesEntered
      <3>2. i \in Nat /\ i >= 2 /\ \A j \in DOMAIN h'.cache : h'.cache[j].nlookup \in Nat \ {0}
        BY <3>1 DEF HostOK
      <3>3. /\ DOMAIN given' = DOMAIN given \cup {i} /\ given'[i] = h'.cache[i].src
            /\ \A j \in DOMAIN given : j # i => given'[j] = given[j]
        BY <3>1
      <3>4. ASSUME NEW j \in (DOMAIN refs \cup DOMAIN forgets) \ linked'
            PROVE  Counted(j, refs, forgets, h', given') /\ (j = i => h'.cache[i].nlookup >= CountOf(refs, i) + CountOf(forgets, i) + 1)
        <4>1. Counted(j, refs, forgets, h, given)
          BY <1>0, <3>1
        <4>2. j \in DOMAIN h'.cache /\ h'.cache[j].src = h.cache[j].src /\ h'.cache[j].nlookup >= h.cache[j].nlookup
          BY <3>1, <4>1 DEF Keeps, Counted
        <4>3. h.cache[j].nlookup \in Nat /\ h'.cache[j].nlookup \in Nat
          BY <1>0, <3>1, <4>1, <4>2 DEF HostOK, Counted
        <4>4. given'[j] = given[j] \/ j = i
          BY <3>3, <4>1 DEF Counted
        <4>5. j = i => h'.cache[i].nlookup >= h.cache[i].nlookup + 1
          BY <3>1, <4>1 DEF Counts, Counted
        <4> QED BY <1>0, <3>3, <4>1, <4>2, <4>3, <4>4, <4>5 DEF Counted
      <3>5. CASE mounted /\ at.c \in Callers
        <4>1. /\ DOMAIN refs' = DOMAIN refs \cup {i} /\ refs' = [j \in DOMAIN refs' |-> refs'[j]]
              /\ \A j \in DOMAIN refs : j # i => refs'[j] = refs[j] + 0
              /\ refs'[i] = CountOf(refs, i) + 1
          BY <3>1, <3>5 DEF CountOf
        <4>2. /\ \A j \in DOMAIN refs' : refs'[j] \in Nat \ {0} /\ j \in DOMAIN given' /\ j \in Nat /\ j >= 2
              /\ \A j : j # i => CountOf(refs', j) = CountOf(refs, j)
              /\ CountOf(refs', i) = CountOf(refs, i) + 1
          <5>1. \A j \in DOMAIN refs : refs[j] \in Nat \ {0} /\ j \in DOMAIN given /\ j \in Nat /\ j >= 2
            BY <1>0 DEF InodesInv
          <5>2. CountOf(refs, i) \in Nat
            BY <1>0
          <5> QED BY <3>2, <3>3, <4>1, <5>1, <5>2 DEF CountOf
        <4>3. dentry' \in [Names -> DOMAIN refs' \cup {None}]
          BY <1>0, <3>1, <3>5, <4>1 DEF InodesInv
        <4>4. \A k \in 1 .. Len(queue) : InoOK(queue[k], refs')
          BY <1>0, <3>5, <4>1 DEF InodesInv, InoOK
        <4>5. ASSUME NEW j \in (DOMAIN refs' \cup DOMAIN forgets) \ linked' PROVE Counted(j, refs', forgets, h', given')
          <5>1. CASE j # i
            <6>1. Counted(j, refs, forgets, h', given')
              BY <3>4, <4>1, <5>1
            <6> QED BY <4>2, <5>1, <6>1 DEF Counted
          <5>2. CASE j = i /\ i \in DOMAIN refs \cup DOMAIN forgets
            <6>1. Counted(i, refs, forgets, h', given') /\ h'.cache[i].nlookup >= CountOf(refs, i) + CountOf(forgets, i) + 1
              BY <3>4, <5>2
            <6>2. CountOf(refs, i) \in Nat /\ CountOf(forgets, i) \in Nat
              BY <1>0
            <6> QED BY <3>2, <4>2, <5>2, <6>1, <6>2 DEF Counted
          <5>3. CASE j = i /\ i \notin DOMAIN refs \cup DOMAIN forgets
            <6>1. CountOf(refs', i) + CountOf(forgets, i) = 1
              BY <4>2, <5>3 DEF CountOf
            <6> QED BY <3>1, <3>2, <3>3, <5>3, <6>1 DEF Counted
          <5> QED BY <5>1, <5>2, <5>3
        <4>6. \A j \in (DOMAIN refs' \cup DOMAIN forgets') \ linked' : Counted(j, refs', forgets', h', given')
          BY <2>1, <4>5
        <4>7. /\ forgets' = [j \in DOMAIN forgets' |-> forgets'[j]] /\ \A j \in DOMAIN forgets' : forgets'[j] \in Nat
              /\ mounted' => InoOK(at', refs') /\ \A k \in 1 .. Len(queue') : InoOK(queue'[k], refs')
          BY <1>0, <2>1, <2>2, <4>4 DEF InodesInv
        <4> QED BY <3>1, <4>1, <4>2, <4>3, <4>6, <4>7 DEF InodesInv, Counted
      <3>6. CASE ~(mounted /\ at.c \in Callers)
        <4>1. UNCHANGED <<refs, dentry>>
          BY <1>5, <3>6 DEF Handled, Replies
        <4>2. \A j \in DOMAIN refs : j \in DOMAIN given'
          BY <1>0, <3>3 DEF InodesInv
        <4>3. \A j \in (DOMAIN refs' \cup DOMAIN forgets') \ linked' : Counted(j, refs', forgets', h', given')
          BY <2>1, <3>4, <4>1
        <4>4. /\ forgets' = [j \in DOMAIN forgets' |-> forgets'[j]] /\ \A j \in DOMAIN forgets' : forgets'[j] \in Nat
              /\ mounted' => InoOK(at', refs') /\ \A k \in 1 .. Len(queue') : InoOK(queue'[k], refs')
          BY <1>0, <2>1, <2>2, <4>1 DEF InodesInv
        <4>5. /\ refs' = [j \in DOMAIN refs' |-> refs'[j]] /\ dentry' \in [Names -> DOMAIN refs' \cup {None}]
              /\ \A j \in DOMAIN refs' : refs'[j] \in Nat \ {0} /\ j \in DOMAIN given' /\ j \in Nat /\ j >= 2
          BY <1>0, <4>1, <4>2 DEF InodesInv
        <4> QED BY <3>1, <4>3, <4>4, <4>5 DEF InodesInv, Counted
      <3> QED BY <3>5, <3>6
    <2> QED BY <1>5, <2>3, <2>4 DEF Handled
  <1>6. CASE Drops
    <2>1. UNCHANGED <<h, refs, forgets, given, linked, at, queue, mounted>>
      BY <1>6 DEF Drops
    <2>2. dentry' \in [Names -> DOMAIN refs \cup {None}]
      BY <1>0, <1>6 DEF Drops, InodesInv
    <2> QED BY <1>0, <2>1, <2>2 DEF InodesInv
  <1>7. CASE Quiet
    BY <1>0, <1>7 DEF Quiet, kernel, InodesInv
  <1>8. CASE Unmount
    <2>1. /\ ~mounted' /\ refs' = [i \in {} |-> None] /\ forgets' = [i \in {} |-> None] /\ dentry' = [n \in Names |-> None]
          /\ UNCHANGED h
      BY <1>8 DEF Unmount, daemon
    <2>2. /\ DOMAIN refs' = {} /\ DOMAIN forgets' = {} /\ refs' = [i \in DOMAIN refs' |-> refs'[i]]
          /\ forgets' = [i \in DOMAIN forgets' |-> forgets'[i]] /\ dentry' \in [Names -> DOMAIN refs' \cup {None}]
      BY <2>1
    <2> QED BY <1>0, <2>1, <2>2 DEF InodesInv
  <1>9. ASSUME NEW i \in DOMAIN refs, Forget(i) PROVE InodesInv'
    <2>1. UNCHANGED <<h, dentry, given, linked, at, queue, mounted>> /\ Unpinned(i, dentry)
      BY <1>9 DEF Forget, daemon
    <2>2. refs' = [j \in DOMAIN refs \ {i} |-> refs[j]]
      BY <1>9 DEF Forget, Restrict
    <2>3. forgets' = [j \in DOMAIN forgets \cup {i} |-> IF j # i THEN forgets[j] ELSE refs[i] + CountOf(forgets, i)]
      BY <1>9 DEF Forget, CountOf
    <2>4. /\ DOMAIN refs' = DOMAIN refs \ {i} /\ refs' = [j \in DOMAIN refs' |-> refs'[j]]
          /\ \A j \in DOMAIN refs' : refs'[j] = refs[j]
      BY <2>2
    <2>5. /\ DOMAIN forgets' = DOMAIN forgets \cup {i} /\ forgets' = [j \in DOMAIN forgets' |-> forgets'[j]]
          /\ \A j \in DOMAIN forgets : j # i => forgets'[j] = forgets[j]
          /\ forgets'[i] = CountOf(refs, i) + CountOf(forgets, i)
      BY <2>3 DEF CountOf
    <2>6. \A j \in DOMAIN forgets' : forgets'[j] \in Nat
      BY <1>0, <2>5 DEF InodesInv
    <2>7. dentry \in [Names -> DOMAIN refs' \cup {None}]
      BY <1>0, <2>1, <2>4 DEF InodesInv, Unpinned
    <2>8. mounted => InoOK(at, refs') /\ \A k \in 1 .. Len(queue) : InoOK(queue[k], refs')
      BY <1>0, <2>1, <2>4 DEF InodesInv, Unpinned, InoOK
    <2>9. \A j : CountOf(refs', j) + CountOf(forgets', j) = CountOf(refs, j) + CountOf(forgets, j)
      <3> TAKE j
      <3>1. CASE j # i
        <4>1. CountOf(refs', j) = CountOf(refs, j) /\ CountOf(forgets', j) = CountOf(forgets, j)
          BY <2>4, <2>5, <3>1 DEF CountOf
        <4> QED BY <4>1
      <3>2. CASE j = i
        <4>1. CountOf(refs', i) = 0 /\ CountOf(forgets', i) = CountOf(refs, i) + CountOf(forgets, i)
          BY <2>4, <2>5 DEF CountOf
        <4> QED BY <1>0, <3>2, <4>1
      <3> QED BY <3>1, <3>2
    <2>10. \A j \in (DOMAIN refs' \cup DOMAIN forgets') \ linked : Counted(j, refs', forgets', h, given)
      BY <1>0, <2>4, <2>5, <2>9 DEF Counted
    <2> QED BY <1>0, <2>1, <2>4, <2>5, <2>6, <2>7, <2>8, <2>10 DEF InodesInv, Counted
  <1>10. ASSUME NEW S \in SUBSET DOMAIN forgets, Forgotten(S) PROVE InodesInv'
    <2> DEFINE lost == [i \in S |-> forgets[i]]
    <2>1. /\ h' = HostForget(h, lost) /\ forgets' = [i \in DOMAIN forgets \ S |-> forgets[i]]
          /\ UNCHANGED <<dentry, refs, given, linked, at, queue, mounted>>
      BY <1>10 DEF Forgotten, Restrict
    <2>2. DOMAIN lost = S /\ \A i \in DOMAIN lost : lost[i] \in Nat /\ lost[i] = forgets[i]
      BY <1>0 DEF InodesInv
    <2> HIDE DEF lost
    <2>3. /\ HostOK(h')
          /\ \A i \in DOMAIN h.cache : h.cache[i].nlookup > CountOf(lost, i) =>
                /\ i \in DOMAIN h'.cache /\ h'.cache[i].src = h.cache[i].src
                /\ h'.cache[i].nlookup = h.cache[i].nlookup - CountOf(lost, i)
      BY <1>0, <2>1, <2>2, ForgetGood
    <2>4. /\ DOMAIN forgets' = DOMAIN forgets \ S /\ forgets' = [i \in DOMAIN forgets' |-> forgets'[i]]
          /\ \A i \in DOMAIN forgets' : forgets'[i] = forgets[i]
      BY <2>1
    <2>5. \A i : CountOf(forgets, i) = CountOf(lost, i) + CountOf(forgets', i) /\ CountOf(lost, i) \in Nat /\ CountOf(forgets', i) \in Nat
      <3> TAKE i
      <3>1. CASE i \in S
        BY <2>2, <2>4, <3>1 DEF CountOf
      <3>2. CASE i \notin S
        <4>1. CountOf(lost, i) = 0 /\ CountOf(forgets', i) = CountOf(forgets, i)
          BY <2>2, <2>4, <3>2 DEF CountOf
        <4> QED BY <1>0, <4>1
      <3> QED BY <3>1, <3>2
    <2>6. ASSUME NEW i \in (DOMAIN refs \cup DOMAIN forgets') \ linked PROVE Counted(i, refs, forgets', h', given)
      <3>1. Counted(i, refs, forgets, h, given) /\ h.cache[i].nlookup \in Nat \ {0}
        BY <1>0, <2>4 DEF Counted, HostOK
      <3>2. h.cache[i].nlookup > CountOf(lost, i)
        <4>1. CASE i \in DOMAIN refs
          <5>1. CountOf(refs, i) \in Nat \ {0}
            BY <1>0, <4>1 DEF InodesInv, CountOf
          <5> QED BY <2>5, <3>1, <5>1 DEF Counted
        <4>2. CASE i \in DOMAIN forgets'
          <5>1. CountOf(lost, i) = 0
            BY <2>2, <2>4, <4>2 DEF CountOf
          <5> QED BY <3>1, <5>1
        <4> QED BY <4>1, <4>2
      <3>3. /\ i \in DOMAIN h'.cache /\ h'.cache[i].src = h.cache[i].src
            /\ h'.cache[i].nlookup = h.cache[i].nlookup - CountOf(lost, i)
        BY <2>3, <3>1, <3>2 DEF Counted
      <3> QED BY <1>0, <2>5, <3>1, <3>3 DEF Counted
    <2>7. \A i \in DOMAIN forgets' : forgets'[i] \in Nat
      BY <1>0, <2>4 DEF InodesInv
    <2> QED BY <1>0, <2>1, <2>3, <2>4, <2>6, <2>7 DEF InodesInv, Counted
  <1> QED BY <1>1, <1>2, <1>3, <1>4, <1>5, <1>6, <1>7, <1>8, <1>9, <1>10, Steps

LEMMA OthersStep == FuseInv /\ [Next]_vars => ErrorsInv' /\ MiscInv'
PROOF
  <1> SUFFICES ASSUME FuseInv, [Next]_vars PROVE ErrorsInv' /\ MiscInv'
    OBVIOUS
  <1>1. ErrorsInv /\ MiscInv
    BY DEF FuseInv
  <1>2. CASE Handled
    BY <1>1, <1>2 DEF Handled, Replies, MiscInv, States
  <1>3. CASE Quiet
    BY <1>1, <1>3 DEF Quiet, kernel, MiscInv, ErrorsInv, States
  <1>4. ASSUME NEW c, (\E r : Asks(c, r)) \/ Close(c) PROVE ErrorsInv' /\ MiscInv'
    BY <1>1, <1>4 DEF Asks, Close, daemon, ErrorsInv, MiscInv
  <1>5. CASE Receive \/ Drops \/ Unmount \/ (\E i : Forget(i)) \/ (\E S : Forgotten(S)) \/ UNCHANGED vars
    <2>1. UNCHANGED <<errors, linked, state, calls>>
      <3>1. Receive \/ Drops \/ UNCHANGED vars => UNCHANGED <<errors, linked, state, calls>>
        BY DEF Receive, Drops, vars
      <3>2. Unmount => UNCHANGED <<errors, linked, state, calls>>
        BY DEF Unmount, daemon
      <3>3. \A i : Forget(i) => UNCHANGED <<errors, linked, state, calls>>
        BY DEF Forget, daemon
      <3>4. \A S : Forgotten(S) => UNCHANGED <<errors, linked, state, calls>>
        BY DEF Forgotten
      <3> QED BY <1>5, <3>1, <3>2, <3>3, <3>4
    <2> QED BY <1>1, <2>1 DEF ErrorsInv, MiscInv
  <1> QED BY <1>2, <1>3, <1>4, <1>5, Steps

LEMMA FirstState == Init => FuseInv
PROOF
  <1> SUFFICES ASSUME Init PROVE FuseInv
    OBVIOUS
  <1> DEFINE r == [Nothing EXCEPT !.op = "init"]
  <1>1. ReqOK(r) /\ r.c = "none"
    BY FuseAssumption DEF Nothing, ReqOK, Requests, Ops, Unasked, Changing, OnInode, None
  <1>2. queue = <<r>> /\ at = Nothing /\ pending = [c \in Callers |-> FALSE] /\ mounted = TRUE
    BY DEF Init
  <1> HIDE DEF r
  <1>3. r \in Requests /\ r.c \notin Callers
    BY <1>1, FuseAssumption DEF ReqOK
  <1>4. queue \in Seq(Requests) /\ Len(queue) = 1 /\ queue[1] = r
    BY <1>2, <1>3
  <1>5. \A k \in 1 .. Len(queue) : queue[k] = r
    BY <1>4
  <1>6. QueueInv
    BY <1>1, <1>2, <1>3, <1>4, <1>5, NothingOK, FuseAssumption DEF QueueInv
  <1>7. r.op = "init" /\ Nothing.op = "none"
    BY DEF r, Nothing
  <1>8. FilesInv
    <2>1. openFiles = [f \in {} |-> None] /\ nextFh = 1 /\ held = [c \in Callers |-> {}]
      BY DEF Init
    <2>2. FhOK(at, held, nextFh) /\ \A k \in 1 .. Len(queue) : FhOK(queue[k], held, nextFh)
      BY <1>2, <1>5, <1>7 DEF FhOK, OnHandle
    <2>3. DOMAIN openFiles = {} /\ openFiles = [f \in DOMAIN openFiles |-> openFiles[f]]
      BY <2>1
    <2>4. held \in [Callers -> SUBSET DOMAIN openFiles] /\ \A c \in Callers : held[c] = {}
      BY <2>1
    <2>5. \A c, d \in Callers : c # d => held[c] \cap held[d] = {}
      BY <2>4
    <2>6. nextFh \in Nat \ {0}
      BY <2>1
    <2> QED BY <2>2, <2>3, <2>4, <2>5, <2>6 DEF FilesInv
  <1>9. InodesInv
    <2>1. PICK N \in SUBSET Names : h = [NewHost EXCEPT !.dir = [n \in Names |-> IF n \in N THEN Min(HostInodes) ELSE None]]
      BY DEF Init
    <2>2. Min(HostInodes) \in HostInodes
      BY LeastInSet, HostAssumption
    <2>3. HostOK(h)
      BY <2>1, <2>2 DEF HostOK, NewHost
    <2>4. refs = [i \in {} |-> None] /\ forgets = [i \in {} |-> None] /\ dentry = [n \in Names |-> None]
      BY DEF Init
    <2>5. /\ DOMAIN refs = {} /\ DOMAIN forgets = {} /\ refs = [i \in DOMAIN refs |-> refs[i]]
          /\ forgets = [i \in DOMAIN forgets |-> forgets[i]] /\ dentry \in [Names -> DOMAIN refs \cup {None}]
      BY <2>4
    <2>6. InoOK(at, refs) /\ \A k \in 1 .. Len(queue) : InoOK(queue[k], refs)
      BY <1>2, <1>5, <1>7 DEF InoOK, OnInode
    <2> QED BY <2>3, <2>5, <2>6 DEF InodesInv
  <1>10. ErrorsInv /\ MiscInv
    BY FuseAssumption DEF Init, ErrorsInv, MiscInv
  <1> QED BY <1>6, <1>8, <1>9, <1>10 DEF FuseInv

LEMMA Stays == FuseInv /\ [Next]_vars => FuseInv'
BY QueueStep, FilesStep, InodesStep, OthersStep DEF FuseInv

(***************************************************************************)
(* The theorems.                                                           *)
(***************************************************************************)
\* The cache has one entry for a host inode, under a number below the next
\* one, with a count above zero; handles are below the next handle; and while
\* invalidations are still to be queued no other request is being served
\* (get_or_create_inode, forget, alloc_fh, run).
THEOREM FuseTypes == Spec => []TypeOK
PROOF
  <1>1. FuseInv => TypeOK
    <2> SUFFICES ASSUME FuseInv PROVE TypeOK
      OBVIOUS
    <2>1. \A n \in Names : h.dir[n] \in HostInodes \cup {None} /\ dentry[n] \in Nat
      BY DEF FuseInv, InodesInv, HostOK, None
    <2>2. \A i \in DOMAIN h.cache : i < h.next /\ h.cache[i].src \in HostInodes /\ h.cache[i].nlookup \in Nat \ {0}
      BY DEF FuseInv, InodesInv, HostOK
    <2>3. \A i, j \in DOMAIN h.cache : h.cache[i].src = h.cache[j].src => i = j
      BY DEF FuseInv, InodesInv, HostOK
    <2>4. DOMAIN openFiles \subseteq 1 .. nextFh /\ Range(openFiles) \subseteq HostInodes
      BY DEF FuseInv, FilesInv, Range
    <2>5. \A i \in DOMAIN refs : refs[i] \in Nat \ {0} /\ i \in DOMAIN given
      BY DEF FuseInv, InodesInv
    <2>6. state \in {"new", "ready", "drain", "ended"} /\ calls \in 0 .. MaxCalls /\ (at = Nothing \/ due = <<>>)
      BY DEF FuseInv, MiscInv, QueueInv
    <2> QED BY <2>1, <2>2, <2>3, <2>4, <2>5, <2>6 DEF TypeOK
  <1> QED BY <1>1, FirstState, Stays, PTL DEF Spec

\* An inode that the kernel holds lookups of is cached, and is the file it was
\* given out for: the count in the cache covers the lookups the kernel holds
\* and those in FORGETs under way, whatever is removed, renamed, listed or
\* created meanwhile.  Inodes that were hard-linked are excepted, since link
\* counts no lookup (get_or_create_inode, forget, link).
THEOREM FuseInodesServed == Spec => []InodesServed
PROOF
  <1>1. FuseInv => InodesServed
    BY DEF FuseInv, InodesInv, InodesServed
  <1> QED BY <1>1, FirstState, Stays, PTL DEF Spec

\* A process is never told EBADF for a handle it holds: RELEASE is sent only
\* after the last answer on the handle, and handles are not used again; and it
\* is never told ENOENT for an inode it reached as long as nothing was
\* hard-linked (open, read, write, flush, fsync, release).
THEOREM FuseNoStaleHandle == Spec => []NoStaleHandle
PROOF
  <1>1. FuseInv => NoStaleHandle
    BY DEF FuseInv, FilesInv, ErrorsInv, NoStaleHandle
  <1> QED BY <1>1, FirstState, Stays, PTL DEF Spec
================================================================================
