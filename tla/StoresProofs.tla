----------------------------- MODULE StoresProofs -----------------------------
(***************************************************************************)
(* Proofs about the connection pool, for any number of tasks and permits,  *)
(* and about the stores that work through it.                              *)
(***************************************************************************)
EXTENDS Stores, FiniteSetTheorems, SequenceTheorems, TLAPS

(***************************************************************************)
(* The pool.  The semaphore's list holds each waiter once, and nobody      *)
(* else: a permit that is passed on goes to a task that has none.          *)
(***************************************************************************)
Listed(t) == \E i \in 1 .. Len(queue) : queue[i] = t

QueueExact ==
    /\ \A t \in Tasks : Listed(t) <=> pc[t] = "waiting"
    /\ \A i, j \in 1 .. Len(queue) : queue[i] = queue[j] => i = j

Counted == IsFiniteSet(Borrowers) /\ PermitsConserved

PoolInv == TypeOK /\ QueueExact /\ Counted

\* A new pool has all its permits and no callers.
LEMMA PoolInit == Init => PoolInv
PROOF
  <1> SUFFICES ASSUME Init PROVE PoolInv
    OBVIOUS
  <1> USE PoolAssumption
  <1>1. TypeOK
    BY EmptySeq DEF Init, TypeOK, States
  <1>2. QueueExact
    BY EmptySeq DEF Init, QueueExact, Listed
  <1>3. Borrowers = {}
    BY DEF Init, Borrowers
  <1>4. Counted
    BY <1>3, FS_EmptySet DEF Init, Counted, PermitsConserved
  <1> QED BY <1>1, <1>2, <1>4 DEF PoolInv

\* The list without its i-th node.
LEMMA NodeRemoved ==
    ASSUME NEW S, NEW q \in Seq(S), NEW i \in 1 .. Len(q), NEW r,
           r = SubSeq(q, 1, i - 1) \o SubSeq(q, i + 1, Len(q))
    PROVE  /\ r \in Seq(S) /\ Len(r) = Len(q) - 1
           /\ \A j \in 1 .. Len(r) : r[j] = IF j < i THEN q[j] ELSE q[j + 1]
PROOF
  <1> DEFINE a == SubSeq(q, 1, i - 1)
             b == SubSeq(q, i + 1, Len(q))
  <1>0. Len(q) \in Nat /\ \A j \in 1 .. Len(q) : q[j] \in S
    BY LenProperties, ElementOfSeq
  <1>1. a \in Seq(S) /\ Len(a) = i - 1 /\ \A j \in 1 .. i - 1 : a[j] = q[j]
    <2>1. \A j \in 1 .. i - 1 : q[j] \in S
      BY <1>0
    <2>2. /\ a \in Seq(S)
          /\ Len(a) = IF 1 <= i - 1 THEN (i - 1) - 1 + 1 ELSE 0
          /\ \A j \in 1 .. (i - 1) - 1 + 1 : a[j] = q[1 + j - 1]
      BY <2>1, SubSeqProperties
    <2> QED BY <2>2
  <1>2. b \in Seq(S) /\ Len(b) = Len(q) - i /\ \A j \in 1 .. Len(q) - i : b[j] = q[i + j]
    <2>1. \A j \in i + 1 .. Len(q) : q[j] \in S
      BY <1>0
    <2>2. /\ b \in Seq(S)
          /\ Len(b) = IF i + 1 <= Len(q) THEN Len(q) - (i + 1) + 1 ELSE 0
          /\ \A j \in 1 .. Len(q) - (i + 1) + 1 : b[j] = q[(i + 1) + j - 1]
      BY <1>0, <2>1, SubSeqProperties
    <2> QED BY <1>0, <2>2
  <1>3. /\ r \in Seq(S) /\ Len(r) = Len(a) + Len(b)
        /\ \A j \in 1 .. Len(a) + Len(b) : r[j] = IF j <= Len(a) THEN a[j] ELSE b[j - Len(a)]
    BY <1>1, <1>2, ConcatProperties
  <1> HIDE DEF a, b
  <1>4. i \in Int /\ (i - 1) + (Len(q) - i) = Len(q) - 1
    BY <1>0
  <1>5. /\ Len(r) = Len(q) - 1
        /\ \A j \in 1 .. Len(q) - 1 : r[j] = IF j <= i - 1 THEN a[j] ELSE b[j - (i - 1)]
    BY <1>1, <1>2, <1>3, <1>4
  <1>6. ASSUME NEW j \in 1 .. Len(q) - 1 PROVE r[j] = IF j < i THEN q[j] ELSE q[j + 1]
    <2>1. CASE j < i
      <3>1. j <= i - 1 /\ j \in 1 .. i - 1
        BY <1>4, <2>1
      <3> QED BY <1>1, <1>5, <2>1, <3>1
    <2>2. CASE ~(j < i)
      <3>1. ~(j <= i - 1) /\ j - (i - 1) \in 1 .. Len(q) - i /\ i + (j - (i - 1)) = j + 1
        BY <1>0, <1>4, <2>2
      <3> QED BY <1>2, <1>5, <2>2, <3>1
    <2> QED BY <2>1, <2>2
  <1> QED BY <1>3, <1>5, <1>6

\* Drop of a waiter: the others keep their places, and it is no longer listed.
LEMMA LeaveQueueExact ==
    ASSUME TypeOK, QueueExact, NEW t \in Tasks, LeaveQueue(t)
    PROVE  queue' \in Seq(Tasks) /\ QueueExact'
PROOF
  <1>0. Len(queue) \in Nat /\ DOMAIN queue = 1 .. Len(queue)
    BY LenProperties DEF TypeOK
  <1>1. PICK i \in 1 .. Len(queue) : queue[i] = t
               /\ queue' = SubSeq(queue, 1, i - 1) \o SubSeq(queue, i + 1, Len(queue))
    BY <1>0 DEF LeaveQueue
  <1>2. /\ queue' \in Seq(Tasks) /\ Len(queue') = Len(queue) - 1
        /\ \A j \in 1 .. Len(queue') : queue'[j] = IF j < i THEN queue[j] ELSE queue[j + 1]
    <2>1. queue \in Seq(Tasks)
      BY DEF TypeOK
    <2>2. /\ queue' \in Seq(Tasks) /\ Len(queue') = Len(queue) - 1
          /\ \A j \in 1 .. Len(queue') : queue'[j] = IF j < i THEN queue[j] ELSE queue[j + 1]
      BY <1>1, <2>1, NodeRemoved
    <2> QED BY <2>2
  <1>3. pc' = [pc EXCEPT ![t] = "idle"]
    BY DEF LeaveQueue
  <1>4. ASSUME NEW u \in Tasks PROVE Listed(u)' <=> Listed(u) /\ u # t
    <2>1. ASSUME Listed(u)' PROVE Listed(u) /\ u # t
      <3>1. PICK j \in 1 .. Len(queue') : queue'[j] = u
        BY <2>1 DEF Listed
      <3>2. CASE j < i
        BY <1>0, <1>1, <1>2, <3>1, <3>2 DEF Listed, QueueExact
      <3>3. CASE ~(j < i)
        <4>1. j + 1 \in 1 .. Len(queue) /\ queue[j + 1] = u
          BY <1>0, <1>2, <3>1, <3>3
        <4> QED BY <1>0, <1>1, <3>3, <4>1 DEF Listed, QueueExact
      <3> QED BY <3>2, <3>3
    <2>2. ASSUME Listed(u), u # t PROVE Listed(u)'
      <3>1. PICK j \in 1 .. Len(queue) : queue[j] = u
        BY <2>2 DEF Listed
      <3>2. CASE j < i
        <4>1. j \in 1 .. Len(queue') /\ queue'[j] = u
          BY <1>0, <1>2, <3>1, <3>2
        <4> QED BY <4>1 DEF Listed
      <3>3. CASE j > i
        <4>1. j - 1 \in 1 .. Len(queue') /\ queue'[j - 1] = u
          BY <1>0, <1>2, <3>1, <3>3
        <4> QED BY <4>1 DEF Listed
      <3> QED BY <1>0, <1>1, <2>2, <3>1, <3>2, <3>3
    <2> QED BY <2>1, <2>2
  <1>5. \A u \in Tasks : Listed(u)' <=> pc'[u] = "waiting"
    BY <1>3, <1>4 DEF QueueExact, TypeOK
  <1>6. \A j, k \in 1 .. Len(queue') : queue'[j] = queue'[k] => j = k
    <2> SUFFICES ASSUME NEW j \in 1 .. Len(queue'), NEW k \in 1 .. Len(queue'),
                        queue'[j] = queue'[k]
                 PROVE  j = k
      OBVIOUS
    <2> DEFINE up(x) == IF x < i THEN x ELSE x + 1
    <2>1. up(j) \in 1 .. Len(queue) /\ up(k) \in 1 .. Len(queue) /\ queue[up(j)] = queue[up(k)]
      BY <1>0, <1>2
    <2>2. up(j) = up(k)
      BY <2>1 DEF QueueExact
    <2> QED BY <1>0, <1>2, <2>2
  <1> QED BY <1>2, <1>5, <1>6 DEF QueueExact

\* A task that is neither listed before nor after changes the list of nobody.
LEMMA QueueKept ==
    ASSUME TypeOK, QueueExact, UNCHANGED queue, NEW t \in Tasks, pc[t] # "waiting",
           NEW s \in States \ {"waiting"}, pc' = [pc EXCEPT ![t] = s]
    PROVE  queue' \in Seq(Tasks) /\ QueueExact'
PROOF
  <1>1. \A u \in Tasks : Listed(u)' <=> Listed(u)
    BY DEF Listed
  <1>2. \A u \in Tasks : pc'[u] = "waiting" <=> pc[u] = "waiting"
    BY DEF TypeOK
  <1> QED BY <1>1, <1>2 DEF QueueExact, TypeOK

\* A caller that finds no permit is put at the end of the list.
LEMMA JoinQueue ==
    ASSUME TypeOK, QueueExact, NEW t \in Tasks, pc[t] # "waiting",
           queue' = Append(queue, t), pc' = [pc EXCEPT ![t] = "waiting"]
    PROVE  queue' \in Seq(Tasks) /\ QueueExact'
PROOF
  <1>0. queue \in Seq(Tasks) /\ Len(queue) \in Nat
    BY LenProperties DEF TypeOK
  <1>1. /\ queue' \in Seq(Tasks) /\ Len(queue') = Len(queue) + 1
        /\ \A i \in 1 .. Len(queue) : queue'[i] = queue[i]
        /\ queue'[Len(queue) + 1] = t
    BY <1>0, AppendProperties
  <1>2. ~Listed(t)
    BY DEF QueueExact
  <1>3. ASSUME NEW u \in Tasks PROVE Listed(u)' <=> Listed(u) \/ u = t
    <2>1. ASSUME Listed(u)' PROVE Listed(u) \/ u = t
      BY <1>0, <1>1, <2>1 DEF Listed
    <2>2. ASSUME Listed(u) PROVE Listed(u)'
      BY <1>0, <1>1, <2>2 DEF Listed
    <2>3. ASSUME u = t PROVE Listed(u)'
      <3>1. Len(queue) + 1 \in 1 .. Len(queue')
        BY <1>0, <1>1
      <3> QED BY <1>1, <2>3, <3>1 DEF Listed
    <2> QED BY <2>1, <2>2, <2>3
  <1>4. \A u \in Tasks : Listed(u)' <=> pc'[u] = "waiting"
    BY <1>3 DEF QueueExact, TypeOK
  <1>5. \A i, j \in 1 .. Len(queue') : queue'[i] = queue'[j] => i = j
    BY <1>0, <1>1, <1>2 DEF QueueExact, Listed
  <1> QED BY <1>1, <1>4, <1>5 DEF QueueExact

\* A permit that is passed on: the first of the list leaves it and has the permit.
LEMMA ServeFirst ==
    ASSUME TypeOK, QueueExact, queue # <<>>, NEW t \in Tasks, pc[t] # "waiting",
           NEW s \in States \ {"waiting"},
           pc' = [pc EXCEPT ![t] = s, ![Head(queue)] = "permit"], queue' = Tail(queue)
    PROVE  /\ Head(queue) \in Tasks /\ pc[Head(queue)] = "waiting"
           /\ queue' \in Seq(Tasks) /\ QueueExact'
PROOF
  <1>0. queue \in Seq(Tasks) /\ Len(queue) \in Nat \ {0} /\ Head(queue) = queue[1]
    BY EmptySeq DEF TypeOK
  <1>1. /\ Head(queue) \in Tasks /\ queue' \in Seq(Tasks) /\ Len(queue') = Len(queue) - 1
        /\ \A i \in 1 .. Len(queue') : queue'[i] = queue[i + 1]
    BY <1>0, HeadTailProperties
  <1>2. Listed(Head(queue))
    BY <1>0 DEF Listed
  <1>3. pc[Head(queue)] = "waiting"
    BY <1>1, <1>2 DEF QueueExact
  <1>4. ASSUME NEW u \in Tasks PROVE Listed(u)' <=> Listed(u) /\ u # Head(queue)
    <2>1. ASSUME Listed(u)' PROVE Listed(u) /\ u # Head(queue)
      <3>1. PICK i \in 1 .. Len(queue') : queue'[i] = u
        BY <2>1 DEF Listed
      <3>2. i + 1 \in 1 .. Len(queue) /\ queue[i + 1] = u /\ i + 1 # 1 /\ 1 \in 1 .. Len(queue)
        BY <1>0, <1>1, <3>1
      <3> QED BY <1>0, <3>2 DEF Listed, QueueExact
    <2>2. ASSUME Listed(u), u # Head(queue) PROVE Listed(u)'
      <3>1. PICK i \in 1 .. Len(queue) : queue[i] = u
        BY <2>2 DEF Listed
      <3>2. i - 1 \in 1 .. Len(queue') /\ queue'[i - 1] = u
        BY <1>0, <1>1, <2>2, <3>1
      <3> QED BY <3>2 DEF Listed
    <2> QED BY <2>1, <2>2
  <1>5. \A u \in Tasks : Listed(u)' <=> pc'[u] = "waiting"
    BY <1>1, <1>3, <1>4 DEF QueueExact, TypeOK
  <1>6. \A i, j \in 1 .. Len(queue') : queue'[i] = queue'[j] => i = j
    <2> SUFFICES ASSUME NEW i \in 1 .. Len(queue'), NEW j \in 1 .. Len(queue'),
                        queue'[i] = queue'[j]
                 PROVE  i = j
      OBVIOUS
    <2>1. i + 1 \in 1 .. Len(queue) /\ j + 1 \in 1 .. Len(queue) /\ queue[i + 1] = queue[j + 1]
      BY <1>0, <1>1
    <2>2. i + 1 = j + 1
      BY <2>1 DEF QueueExact
    <2> QED BY <1>0, <1>1, <2>2
  <1> QED BY <1>1, <1>3, <1>5, <1>6 DEF QueueExact

\* The callers that have a permit, when none or one comes or goes.
LEMMA Counting ==
    ASSUME TypeOK, Counted, NEW t, permits' \in Int,
           \/ Borrowers' = Borrowers /\ permits' = permits
           \/ t \notin Borrowers /\ Borrowers' = Borrowers \cup {t} /\ permits' = permits - 1
           \/ t \in Borrowers /\ Borrowers' = Borrowers \ {t} /\ permits' = permits + 1
    PROVE  Counted' /\ (permits > 0 \/ permits' >= permits => permits' \in 0 .. MaxConnections)
PROOF
  <1> USE PoolAssumption
  <1>1. Cardinality(Borrowers) \in Nat /\ permits \in Nat
    BY FS_CardinalityType DEF Counted, TypeOK
  <1>2. CASE Borrowers' = Borrowers /\ permits' = permits
    BY <1>2, <1>1 DEF Counted, PermitsConserved, TypeOK
  <1>3. CASE t \notin Borrowers /\ Borrowers' = Borrowers \cup {t} /\ permits' = permits - 1
    <2>1. IsFiniteSet(Borrowers') /\ Cardinality(Borrowers') = Cardinality(Borrowers) + 1
      BY <1>3, FS_AddElement DEF Counted
    <2> QED BY <1>1, <1>3, <2>1 DEF Counted, PermitsConserved, TypeOK
  <1>4. CASE t \in Borrowers /\ Borrowers' = Borrowers \ {t} /\ permits' = permits + 1
    <2>1. IsFiniteSet(Borrowers') /\ Cardinality(Borrowers') = Cardinality(Borrowers) - 1
      BY <1>4, FS_RemoveElement DEF Counted
    <2>2. Cardinality(Borrowers') \in Nat
      BY <2>1, FS_CardinalityType
    <2> QED BY <1>1, <1>4, <2>1, <2>2 DEF Counted, PermitsConserved, TypeOK
  <1> QED BY <1>2, <1>3, <1>4

\* One caller gives its permit to another that had none.
LEMMA HandedOver ==
    ASSUME TypeOK, Counted, NEW t \in Borrowers, NEW h, h \notin Borrowers,
           Borrowers' = (Borrowers \ {t}) \cup {h}, UNCHANGED permits
    PROVE  Counted'
PROOF
  <1>1. /\ IsFiniteSet(Borrowers \ {t})
        /\ Cardinality(Borrowers \ {t}) = Cardinality(Borrowers) - 1
    BY FS_RemoveElement DEF Counted
  <1>2. /\ IsFiniteSet(Borrowers')
        /\ Cardinality(Borrowers') = Cardinality(Borrowers \ {t}) + 1
    BY <1>1, FS_AddElement
  <1>3. Cardinality(Borrowers) \in Nat
    BY FS_CardinalityType DEF Counted
  <1> QED BY <1>1, <1>2, <1>3 DEF Counted, PermitsConserved

\* Drop of the permit, by the end of an operation, a failed connect or a dropped
\* future: it reaches the first waiter or the semaphore, once.
LEMMA PassPermitStep ==
    ASSUME PoolInv, NEW t \in Tasks, t \in Borrowers, PassPermit(t, "idle"),
           UNCHANGED <<pool, lock, created>>
    PROVE  PoolInv'
PROOF
  <1>0. TypeOK /\ QueueExact /\ Counted /\ pc[t] # "waiting" /\ "idle" \in States \ {"waiting"}
    BY DEF PoolInv, Borrowers, States
  <1>1. CASE queue = <<>>
    <2>1. pc' = [pc EXCEPT ![t] = "idle"] /\ permits' = permits + 1 /\ UNCHANGED queue
      BY <1>1 DEF PassPermit
    <2>2. queue' \in Seq(Tasks) /\ QueueExact'
      BY <1>0, <2>1, QueueKept
    <2>3. Borrowers' = Borrowers \ {t}
      BY <1>0, <2>1 DEF Borrowers, TypeOK
    <2>4. permits \in Int /\ permits' \in Int /\ permits' >= permits
      BY <1>0, <2>1, PoolAssumption DEF TypeOK
    <2>5. Counted' /\ permits' \in 0 .. MaxConnections
      BY <1>0, <2>1, <2>3, <2>4, Counting
    <2> QED BY <1>0, <2>1, <2>2, <2>5 DEF PoolInv, TypeOK, States
  <1>2. CASE queue # <<>>
    <2>1. /\ pc' = [pc EXCEPT ![t] = "idle", ![Head(queue)] = "permit"] /\ queue' = Tail(queue)
          /\ UNCHANGED permits
      BY <1>2 DEF PassPermit
    <2>2. /\ Head(queue) \in Tasks /\ pc[Head(queue)] = "waiting"
          /\ queue' \in Seq(Tasks) /\ QueueExact'
      BY <1>0, <1>2, <2>1, ServeFirst
    <2>3. Borrowers' = (Borrowers \ {t}) \cup {Head(queue)} /\ Head(queue) \notin Borrowers
      BY <1>0, <2>1, <2>2 DEF Borrowers, TypeOK
    <2>4. Counted'
      BY <1>0, <2>1, <2>3, HandedOver
    <2> QED BY <1>0, <2>1, <2>2, <2>4 DEF PoolInv, TypeOK, States
  <1> QED BY <1>1, <1>2

\* A step of one task inside get_connection or Drop that takes and gives no permit.
LEMMA WithPermitStep ==
    ASSUME PoolInv, NEW t \in Tasks, t \in Borrowers, UNCHANGED <<queue, permits>>,
           NEW s \in {"permit", "locked", "connect", "held", "release"},
           pc' = [pc EXCEPT ![t] = s],
           pool' \in Nat, lock' \in Tasks \cup {NoTask}, created' \in 0 .. MaxCreated
    PROVE  PoolInv'
PROOF
  <1>0. TypeOK /\ QueueExact /\ Counted /\ pc[t] # "waiting" /\ s \in States \ {"waiting"}
    BY DEF PoolInv, Borrowers, States
  <1>1. queue' \in Seq(Tasks) /\ QueueExact'
    BY <1>0, QueueKept
  <1>2. Borrowers' = Borrowers
    BY <1>0 DEF Borrowers, TypeOK
  <1>3. permits' \in Int
    BY <1>0, PoolAssumption DEF TypeOK
  <1>4. Counted'
    BY <1>0, <1>2, <1>3, Counting
  <1> QED BY <1>0, <1>1, <1>4 DEF PoolInv, TypeOK

\* No statement of get_connection or Drop, time-out or cancellation loses or
\* duplicates a permit.
LEMMA PoolStep == PoolInv /\ [Next]_vars => PoolInv'
PROOF
  <1> SUFFICES ASSUME PoolInv, [Next]_vars PROVE PoolInv'
    OBVIOUS
  <1> USE PoolAssumption
  <1>0. TypeOK /\ QueueExact /\ Counted
    BY DEF PoolInv
  <1>l. ASSUME NEW t \in Tasks, pc[t] = "waiting", LeaveQueue(t),
               UNCHANGED <<permits, pool, lock, created>>
        PROVE  PoolInv'
    <2>1. queue' \in Seq(Tasks) /\ QueueExact'
      BY <1>0, <1>l, LeaveQueueExact
    <2>2. Borrowers' = Borrowers /\ permits' \in Int
      BY <1>0, <1>l DEF Borrowers, TypeOK, LeaveQueue
    <2>3. Counted'
      BY <1>0, <1>l, <2>2, Counting
    <2> QED BY <1>0, <1>l, <2>1, <2>3 DEF PoolInv, TypeOK, LeaveQueue, States
  <1>1. ASSUME NEW t \in Tasks, Acquire(t) PROVE PoolInv'
    <2>1. pc[t] = "idle" /\ t \notin Borrowers /\ UNCHANGED <<pool, lock, created>>
      BY <1>1 DEF Acquire, Borrowers
    <2>2. CASE permits > 0
      <3>1. pc' = [pc EXCEPT ![t] = "permit"] /\ permits' = permits - 1 /\ UNCHANGED queue
        BY <1>1, <2>2 DEF Acquire
      <3>2. queue' \in Seq(Tasks) /\ QueueExact'
        BY <1>0, <2>1, <3>1, QueueKept DEF States
      <3>3. Borrowers' = Borrowers \cup {t} /\ permits' \in Int
        BY <1>0, <3>1 DEF Borrowers, TypeOK
      <3>4. Counted' /\ permits' \in 0 .. MaxConnections
        BY <1>0, <2>1, <2>2, <3>1, <3>3, Counting
      <3> QED BY <1>0, <2>1, <3>1, <3>2, <3>4 DEF PoolInv, TypeOK, States
    <2>3. CASE ~(permits > 0)
      <3>1. /\ pc' = [pc EXCEPT ![t] = "waiting"] /\ queue' = Append(queue, t)
            /\ UNCHANGED permits
        BY <1>1, <2>3 DEF Acquire
      <3>2. queue' \in Seq(Tasks) /\ QueueExact'
        BY <1>0, <2>1, <3>1, JoinQueue
      <3>3. Borrowers' = Borrowers /\ permits' \in Int
        BY <1>0, <2>1, <3>1 DEF Borrowers, TypeOK
      <3>4. Counted'
        BY <1>0, <3>1, <3>3, Counting
      <3> QED BY <1>0, <2>1, <3>1, <3>2, <3>4 DEF PoolInv, TypeOK, States
    <2> QED BY <2>2, <2>3
  <1>2. ASSUME NEW t \in Tasks, Timeout(t) PROVE PoolInv'
    BY <1>2, <1>l DEF Timeout
  <1>3. ASSUME NEW t \in Tasks, LockPool(t) \/ Pop(t) PROVE PoolInv'
    BY <1>0, <1>3, WithPermitStep DEF LockPool, Pop, Borrowers, TypeOK
  <1>4. ASSUME NEW t \in Tasks, Connect(t) \/ DropConnection(t) PROVE PoolInv'
    BY <1>0, <1>4, WithPermitStep DEF Connect, DropConnection, Borrowers, TypeOK
  <1>5. ASSUME NEW t \in Tasks, ConnectFails(t) \/ ReleasePermit(t) PROVE PoolInv'
    BY <1>5, PassPermitStep DEF ConnectFails, ReleasePermit, Borrowers
  <1>6. ASSUME NEW t \in Tasks, Cancel(t) PROVE PoolInv'
    <2>1. CASE pc[t] = "waiting" /\ LeaveQueue(t) /\ UNCHANGED permits
      BY <1>6, <2>1, <1>l DEF Cancel
    <2>2. CASE pc[t] \in {"permit", "connect"} /\ PassPermit(t, "idle")
      BY <1>6, <2>2, PassPermitStep DEF Cancel, Borrowers
    <2> QED BY <1>6, <2>1, <2>2 DEF Cancel
  <1>7. CASE UNCHANGED vars
    BY <1>0, <1>7 DEF vars, PoolInv, TypeOK, QueueExact, Listed, Counted, PermitsConserved, Borrowers
  <1> QED BY <1>1, <1>2, <1>3, <1>4, <1>5, <1>6, <1>7 DEF Next, Run

\* The pool by itself: for any number of callers and permits, and any order of
\* time-outs, cancellations and failed connects, every permit is at the semaphore or
\* with exactly one caller.
THEOREM PoolPermitsConserved == Spec => []PermitsConserved
PROOF
  <1>1. PoolInv => PermitsConserved
    BY DEF PoolInv, Counted
  <1> QED BY <1>1, PoolInit, PoolStep, PTL DEF Spec

(***************************************************************************)
(* The stores.  First the database by itself: fs_inode is created with     *)
(* nlink and rdev, the root's row with all columns, and a migration adds   *)
(* nlink before anything else.                                             *)
(***************************************************************************)
SchemaOK(tab, col) ==
    /\ tab \subseteq AllTables /\ col \subseteq Columns
    /\ "fs_inode" \notin tab => col = {} /\ "root" \notin tab
    /\ col = {} \/ "nlink" \in col
    /\ "fs_inode" \in tab /\ "root" \notin tab => {"nlink", "rdev"} \subseteq col

\* What the version check of AgentFS::open establishes, and keeps.
NotOld(tab, col) == "root" \notin tab \/ col = Columns

\* Tables and columns are added, and the root's row only to a table with all columns.
Grows(tab, col, tab2, col2) ==
    tab \subseteq tab2 /\ col \subseteq col2 /\ (NotOld(tab, col) => NotOld(tab2, col2))

OpenStmts ==
    {<<"exists">>, <<"version">>, <<"root">>, <<"pragma", "off">>, <<"pragma", "busy">>}
    \cup {<<"create", x>> : x \in AllTables \ {"root"}} \cup {<<"alter", c>> : c \in Nsec}

MigrateStmts == {<<"detect">>, <<"stored">>, <<"opened">>} \cup {<<"migrate", c>> : c \in Columns}

\* The section sec of an operation still runs statement s.
InSection(sec, s) == \E b \in 1 .. Len(sec) : sec[b] = s
Before(sec, b, s) == \E d \in 1 .. b - 1 : sec[d] = s
Pending(j, s) == \E a \in 1 .. Len(j) : InSection(j[a], s)

\* The statements of sec come in an order in which each finds what it needs.
OrderOK(sec, tab) ==
    \A b \in 1 .. Len(sec) :
        /\ sec[b] = <<"exists">> => b = 1 /\ Len(sec) >= 2 /\ sec[2] \in {<<"version">>, <<"detect">>}
        /\ sec[b][1] = "alter" => "fs_inode" \in tab \/ Before(sec, b, <<"create", "fs_inode">>)

\* What an AgentFS::open has not found or made yet it still has to do.
OpenOK(j, tab, col) ==
    /\ j \in Seq(Seq(OpenStmts)) /\ j # <<>>
    /\ \A a \in 1 .. Len(j) :
          /\ OrderOK(j[a], tab)
          /\ \A b \in 1 .. Len(j[a]) : j[a][b][1] = "alter" => ~InSection(j[a], <<"version">>)
    /\ \A x \in AllTables \ {"root"} : x \in tab \/ Pending(j, <<"create", x>>)
    /\ "root" \in tab \/ Pending(j, <<"root">>)
    /\ NotOld(tab, col) \/ InSection(j[1], <<"version">>)

\* The same for the other process, which may be a migration instead.
CliOK(c, tab, col) ==
    /\ c \in Seq(OpenStmts \cup MigrateStmts)
    /\ OrderOK(c, tab)
    /\ \A b \in 1 .. Len(c) :
          /\ c[b][1] = "alter" => NotOld(tab, col) \/ Before(c, b, <<"version">>)
          /\ c[b][1] = "migrate" =>
                c[b][2] = "nlink" \/ "nlink" \in col \/ Before(c, b, <<"migrate", "nlink">>)
          /\ c[b] = <<"opened">> =>
                /\ b = Len(c)
                /\ \A x \in AllTables \ {"root"} : x \in tab \/ InSection(c, <<"create", x>>)
                /\ "root" \in tab \/ InSection(c, <<"root">>)
                /\ NotOld(tab, col) \/ InSection(c, <<"version">>)

(***************************************************************************)
(* The operations of an open instance.                                     *)
(***************************************************************************)
PlainStmts ==
    {<<op, k>> : op \in {"set", "delete"}, k \in Keys}
    \cup {<<"read">>, <<"any">>, <<"begin">>, <<"commit">>, <<"pragma", "full">>, <<"pragma", "off">>}
    \cup {<<"start", n>> : n \in 0 .. MaxTime}
    \cup {<<"record", s, c, e>> : s \in 0 .. MaxTime, c \in 0 .. MaxTime, e \in BOOLEAN}

\* A report between its two statements has the start of the call it reports on.
WorkOK(j, cs) ==
    LET sec == j[1] IN
      /\ j = <<sec>>
      /\ \/ sec \in Seq(PlainStmts)
         \/ \E id \in 1 .. MaxCalls, st \in {"success", "error"}, c \in 0 .. MaxTime :
               sec = <<<<"started", id>>, <<"finish", id, st, c, Null>>>>
         \/ \E id \in 1 .. Len(cs), st \in {"success", "error"}, c \in 0 .. MaxTime :
               sec = <<<<"finish", id, st, c, cs[id].started>>>>

\* Rows are added, and keep their start.
Longer(cs, cs2) == Len(cs) <= Len(cs2) /\ \A id \in 1 .. Len(cs) : cs2[id].started = cs[id].started

Rows == [status : {"pending", "success", "error"}, started : 0 .. MaxTime,
         completed : (0 .. MaxTime) \cup {Null}, duration : Int, result : BOOLEAN, error : BOOLEAN]

RowOK(c) ==
    /\ c.status = "pending" <=> c.completed = Null
    /\ c.completed # Null => c.duration = (c.completed - c.started) * 1000
    /\ c.status = "success" => c.result
    /\ c.status = "error" => c.error

CallsOK(cs) ==
    cs \in Seq(Rows) /\ Len(cs) <= MaxCalls /\ \A id \in 1 .. Len(cs) : RowOK(cs[id])

KvOK(m, n) ==
    /\ m \in [Keys -> {<<>>} \cup ((0 .. MaxTime) \X (0 .. MaxTime))]
    /\ \A k \in Keys : m[k] # <<>> => m[k][1] <= m[k][2] /\ m[k][2] <= n

RecordsInv == CallsOK(calls) /\ now \in 0 .. MaxTime /\ KvOK(kv, now)

JobsInv ==
    /\ job = [t \in Tasks |-> job[t]]
    /\ \A t \in Tasks : pc[t] \notin {"idle", "release"} => job[t] # <<>>
    /\ \A t \in Tasks : job[t] # <<>> =>
          IF "here" \in opened THEN WorkOK(job[t], calls) ELSE OpenOK(job[t], tables, columns)
    /\ \A t, u \in Tasks : "here" \notin opened /\ job[t] # <<>> /\ job[u] # <<>> => t = u

StoresInv ==
    /\ PoolInv /\ SchemaOK(tables, columns) /\ RecordsInv /\ JobsInv
    /\ CliOK(cli, tables, columns) /\ OpenIsComplete
    /\ conn \subseteq {"off", "busy"}
    /\ opened \subseteq {"here", "there"}

(***************************************************************************)
(* With one connection: it is configured before open returns, and never    *)
(* replaced.                                                               *)
(***************************************************************************)
Configured(t) ==
    "here" \in opened \/ (job[t] # <<>> /\ ~Pending(job[t], <<"pragma", "busy">>))

SettingsInv ==
    /\ lock # NoTask => pc[lock] = "locked"
    /\ \A t \in Tasks : pc[t] = "connect" => pool = 0
    /\ \A t \in Tasks :
          Configured(t) => "busy" \in conn /\ (pool > 0 \/ \E u \in Tasks : pc[u] = "held")

(***************************************************************************)
(* Sections of statements.                                                 *)
(***************************************************************************)
\* After the first statement of a section the others are still to be run, in order.
LEMMA TailOfSection ==
    ASSUME NEW S, NEW sec \in Seq(S), sec # <<>>, NEW tab, NEW tab2, tab \subseteq tab2,
           OrderOK(sec, tab), sec[1] = <<"create", "fs_inode">> => "fs_inode" \in tab2
    PROVE  /\ Tail(sec) \in Seq(S) /\ Len(Tail(sec)) = Len(sec) - 1 /\ Len(sec) \in Nat \ {0}
           /\ \A b \in 1 .. Len(Tail(sec)) : Tail(sec)[b] = sec[b + 1] /\ b + 1 \in 1 .. Len(sec)
           /\ OrderOK(Tail(sec), tab2)
           /\ \A s : InSection(sec, s) => s = sec[1] \/ InSection(Tail(sec), s)
           /\ \A s : InSection(Tail(sec), s) => InSection(sec, s)
           /\ \A s : \A b \in 1 .. Len(Tail(sec)) :
                 Before(sec, b + 1, s) => s = sec[1] \/ Before(Tail(sec), b, s)
PROOF
  <1> DEFINE r == Tail(sec)
  <1>1. /\ r \in Seq(S) /\ Len(r) = Len(sec) - 1 /\ Len(sec) \in Nat \ {0}
        /\ \A b \in 1 .. Len(r) : r[b] = sec[b + 1]
    BY HeadTailProperties, EmptySeq
  <1> HIDE DEF r
  <1>2. \A b \in 1 .. Len(r) : r[b] = sec[b + 1] /\ b + 1 \in 1 .. Len(sec)
    BY <1>1
  <1>3. ASSUME NEW s, InSection(sec, s) PROVE s = sec[1] \/ InSection(r, s)
    <2>1. PICK b \in 1 .. Len(sec) : sec[b] = s
      BY <1>3 DEF InSection
    <2>2. CASE b # 1
      <3>1. b - 1 \in 1 .. Len(r) /\ r[b - 1] = s
        BY <1>1, <2>1, <2>2
      <3> QED BY <3>1 DEF InSection
    <2> QED BY <2>1, <2>2
  <1>4. \A s : InSection(r, s) => InSection(sec, s)
    BY <1>2 DEF InSection
  <1>5. ASSUME NEW s, NEW b \in 1 .. Len(r), Before(sec, b + 1, s)
        PROVE  s = sec[1] \/ Before(r, b, s)
    <2>1. PICK d \in 1 .. (b + 1) - 1 : sec[d] = s
      BY <1>5 DEF Before
    <2>2. CASE d # 1
      <3>1. d - 1 \in 1 .. b - 1 /\ d - 1 \in 1 .. Len(r) /\ (d - 1) + 1 = d
        BY <1>1, <1>5, <2>1, <2>2
      <3>2. r[d - 1] = s
        BY <1>1, <2>1, <3>1
      <3> QED BY <3>1, <3>2 DEF Before
    <2> QED BY <2>1, <2>2
  <1>6. OrderOK(r, tab2)
    <2> SUFFICES ASSUME NEW b \in 1 .. Len(r)
                 PROVE  /\ r[b] # <<"exists">>
                        /\ r[b][1] = "alter" => "fs_inode" \in tab2
                                               \/ Before(r, b, <<"create", "fs_inode">>)
      BY DEF OrderOK
    <2>1. r[b] = sec[b + 1] /\ b + 1 \in 1 .. Len(sec) /\ b + 1 # 1
      BY <1>1, <1>2
    <2> QED BY <1>5, <2>1 DEF OrderOK
  <1> QED BY <1>1, <1>2, <1>3, <1>4, <1>5, <1>6 DEF r

\* Another process adds tables and columns.
LEMMA OpenGrows ==
    ASSUME NEW j, NEW tab, NEW col, NEW tab2, NEW col2,
           OpenOK(j, tab, col), Grows(tab, col, tab2, col2)
    PROVE  OpenOK(j, tab2, col2)
PROOF BY DEF OpenOK, Grows, OrderOK

LEMMA CliGrows ==
    ASSUME NEW c, NEW tab, NEW col, NEW tab2, NEW col2,
           CliOK(c, tab, col), Grows(tab, col, tab2, col2)
    PROVE  CliOK(c, tab2, col2)
PROOF BY DEF CliOK, Grows, OrderOK

\* The operations of other tasks add rows.
LEMMA WorkGrows ==
    ASSUME NEW j, NEW cs, NEW cs2, Len(cs) \in Nat, Len(cs2) \in Nat, WorkOK(j, cs), Longer(cs, cs2)
    PROVE  WorkOK(j, cs2)
PROOF BY DEF WorkOK, Longer

\* The effect of the first statement on what an AgentFS::open still has to do.
Effect(s, tab2, col2) ==
    /\ \A x : s = <<"create", x>> => x \in tab2
    /\ s = <<"root">> => "root" \in tab2
    /\ s = <<"version">> => NotOld(tab2, col2)
    /\ s = <<"migrate", "nlink">> => "nlink" \in col2

LEMMA OpenAdvances ==
    ASSUME NEW j, NEW tab, NEW col, NEW tab2, NEW col2,
           OpenOK(j, tab, col), Grows(tab, col, tab2, col2), j[1] # <<>>,
           Effect(j[1][1], tab2, col2), NEW r,
           \/ r = Tail(j[1])
           \/ j[1][1] = <<"exists">> /\ r = Tail(Tail(j[1])) /\ NotOld(tab2, col2)
    PROVE  /\ OpenOK([j EXCEPT ![1] = r], tab2, col2)
           /\ \A s : Pending(j, s) /\ s # <<"version">> => s = j[1][1] \/ Pending([j EXCEPT ![1] = r], s)
PROOF
  <1> DEFINE sec == j[1]
             j2 == [j EXCEPT ![1] = r]
  <1>0. /\ j \in Seq(Seq(OpenStmts)) /\ Len(j) \in Nat \ {0} /\ DOMAIN j = 1 .. Len(j)
        /\ sec \in Seq(OpenStmts) /\ OrderOK(sec, tab) /\ tab \subseteq tab2
        /\ \A a \in 1 .. Len(j) : j[a] \in Seq(OpenStmts)
    BY EmptySeq, LenProperties, ElementOfSeq DEF OpenOK, Grows
  \* What is left of the section, and what was not run of it.
  <1>1. /\ r \in Seq(OpenStmts) /\ OrderOK(r, tab2)
        /\ \A s : InSection(r, s) => InSection(sec, s)
        /\ \A s : InSection(sec, s) => s = sec[1] \/ InSection(r, s) \/ (s = <<"version">> /\ NotOld(tab2, col2))
    <2> DEFINE q == Tail(sec)
    <2>1. /\ q \in Seq(OpenStmts) /\ Len(q) = Len(sec) - 1 /\ Len(sec) \in Nat \ {0}
          /\ \A b \in 1 .. Len(q) : q[b] = sec[b + 1] /\ b + 1 \in 1 .. Len(sec)
          /\ OrderOK(q, tab2)
          /\ \A s : InSection(sec, s) => s = sec[1] \/ InSection(q, s)
          /\ \A s : InSection(q, s) => InSection(sec, s)
      BY <1>0, TailOfSection DEF Effect
    <2>2. CASE r = Tail(sec)
      BY <2>1, <2>2
    <2>3. CASE sec[1] = <<"exists">> /\ r = Tail(Tail(sec)) /\ NotOld(tab2, col2)
      <3>1. 1 \in 1 .. Len(sec)
        BY <2>1
      <3>2. Len(sec) >= 2 /\ sec[2] \in {<<"version">>, <<"detect">>} /\ sec[2] \in OpenStmts
        BY <1>0, <2>3, <3>1, ElementOfSeq DEF OrderOK
      <3>3. sec[2] = <<"version">>
        BY <3>2 DEF OpenStmts
      <3>4. q # <<>> /\ q[1] = <<"version">>
        <4> HIDE DEF q
        <4>1. Len(q) # 0 /\ 1 \in 1 .. Len(q) /\ 1 + 1 = 2
          BY <2>1, <3>2
        <4>2. q # <<>>
          BY <4>1, EmptySeq
        <4> QED BY <2>1, <3>3, <4>1, <4>2
      <3> HIDE DEF q
      <3>5. /\ Tail(q) \in Seq(OpenStmts) /\ OrderOK(Tail(q), tab2)
            /\ \A s : InSection(q, s) => s = q[1] \/ InSection(Tail(q), s)
            /\ \A s : InSection(Tail(q), s) => InSection(q, s)
        <4>1. q[1] # <<"create", "fs_inode">> /\ tab2 \subseteq tab2
          BY <3>4
        <4> QED BY <2>1, <3>4, <4>1, TailOfSection
      <3> QED BY <2>1, <2>3, <3>4, <3>5 DEF q
    <2> QED BY <2>2, <2>3
  <1> HIDE DEF sec
  <1>2. /\ j2 \in Seq(Seq(OpenStmts)) /\ Len(j2) = Len(j) /\ j2[1] = r
        /\ \A a \in 1 .. Len(j) : a # 1 => j2[a] = j[a]
    <2>1. 1 \in 1 .. Len(j)
      BY <1>0
    <2>2. /\ j2 \in Seq(Seq(OpenStmts)) /\ Len(j2) = Len(j)
          /\ \A a \in 1 .. Len(j) : j2[a] = IF a = 1 THEN r ELSE j[a]
      BY <1>0, <1>1, <2>1, ExceptSeq
    <2> QED BY <2>1, <2>2
  <1> HIDE DEF j2
  <1>3. ASSUME NEW s, Pending(j, s), s # <<"version">> PROVE s = sec[1] \/ Pending(j2, s)
    <2>1. PICK a \in 1 .. Len(j) : InSection(j[a], s)
      BY <1>3 DEF Pending
    <2>2. CASE a = 1
      BY <1>0, <1>1, <1>2, <1>3, <2>1, <2>2 DEF Pending, sec
    <2>3. CASE a # 1
      BY <1>2, <2>1, <2>3 DEF Pending
    <2> QED BY <2>2, <2>3
  <1>4. ASSUME NEW a \in 1 .. Len(j2)
        PROVE  /\ OrderOK(j2[a], tab2)
               /\ \A b \in 1 .. Len(j2[a]) : j2[a][b][1] = "alter" => ~InSection(j2[a], <<"version">>)
    <2>1. CASE a = 1
      <3>1. ASSUME NEW b \in 1 .. Len(r), r[b][1] = "alter" PROVE ~InSection(r, <<"version">>)
        <4>1. InSection(sec, r[b])
          BY <1>1 DEF InSection
        <4>2. PICK d \in 1 .. Len(sec) : sec[d] = r[b]
          BY <4>1 DEF InSection
        <4> QED BY <1>0, <1>1, <3>1, <4>2 DEF OpenOK, sec
      <3> QED BY <1>1, <1>2, <2>1, <3>1
    <2>2. CASE a # 1
      BY <1>0, <1>2, <2>2 DEF OpenOK, OrderOK
    <2> QED BY <2>1, <2>2
  <1>5. \A x \in AllTables \ {"root"} : x \in tab2 \/ Pending(j2, <<"create", x>>)
    BY <1>0, <1>3 DEF OpenOK, Effect, sec
  <1>6. "root" \in tab2 \/ Pending(j2, <<"root">>)
    BY <1>0, <1>3 DEF OpenOK, Effect, sec
  <1>7. NotOld(tab2, col2) \/ InSection(j2[1], <<"version">>)
    BY <1>1, <1>2 DEF OpenOK, Effect, Grows, sec
  <1>8. j2 # <<>>
    BY <1>0, <1>2, EmptySeq
  <1>9. OpenOK(j2, tab2, col2)
    BY <1>2, <1>4, <1>5, <1>6, <1>7, <1>8 DEF OpenOK
  <1> QED BY <1>3, <1>9 DEF j2, sec

\* The next connection of an AgentFS::open.
LEMMA OpenNextSection ==
    ASSUME NEW j, NEW tab, NEW col, OpenOK(j, tab, col), j[1] = <<>>
    PROVE  /\ NotOld(tab, col)
           /\ Len(j) # 1 => OpenOK(Tail(j), tab, col) /\ \A s : Pending(Tail(j), s) <=> Pending(j, s)
           /\ Len(j) = 1 => /\ \A x \in AllTables : x \in tab
                            /\ Tail(j) = <<>>
                            /\ \A s : ~Pending(j, s)
PROOF
  <1>0. /\ j \in Seq(Seq(OpenStmts)) /\ j # <<>> /\ Len(j) \in Nat \ {0}
        /\ \A s : ~InSection(j[1], s)
    BY EmptySeq DEF OpenOK, InSection
  <1> DEFINE k == Tail(j)
  <1>1. /\ k \in Seq(Seq(OpenStmts)) /\ Len(k) = Len(j) - 1
        /\ \A a \in 1 .. Len(k) : k[a] = j[a + 1]
    BY <1>0, HeadTailProperties
  <1> HIDE DEF k
  <1>2. ASSUME NEW s PROVE Pending(k, s) <=> Pending(j, s)
    <2>1. ASSUME Pending(j, s) PROVE Pending(k, s)
      <3>1. PICK a \in 1 .. Len(j) : InSection(j[a], s)
        BY <2>1 DEF Pending
      <3>2. a - 1 \in 1 .. Len(k) /\ k[a - 1] = j[a]
        BY <1>0, <1>1, <3>1
      <3> QED BY <3>1, <3>2 DEF Pending
    <2>2. ASSUME Pending(k, s) PROVE Pending(j, s)
      <3>1. PICK a \in 1 .. Len(k) : InSection(k[a], s)
        BY <2>2 DEF Pending
      <3>2. a + 1 \in 1 .. Len(j) /\ k[a] = j[a + 1]
        BY <1>0, <1>1, <3>1
      <3> QED BY <3>1, <3>2 DEF Pending
    <2> QED BY <2>1, <2>2
  <1>3. NotOld(tab, col)
    BY <1>0 DEF OpenOK
  <1>4. ASSUME Len(j) # 1 PROVE OpenOK(k, tab, col)
    <2>1. k # <<>>
      BY <1>0, <1>1, <1>4, EmptySeq
    <2>2. \A a \in 1 .. Len(k) : k[a] = j[a + 1] /\ a + 1 \in 1 .. Len(j)
      BY <1>0, <1>1
    <2> QED BY <1>1, <1>2, <1>3, <2>1, <2>2 DEF OpenOK
  <1>5. ASSUME Len(j) = 1 PROVE k = <<>> /\ \A s : ~Pending(j, s)
    <2>1. k = <<>>
      BY <1>1, <1>5, EmptySeq
    <2> QED BY <1>0, <1>5, <2>1 DEF Pending
  <1>6. ASSUME Len(j) = 1 PROVE \A x \in AllTables : x \in tab
    BY <1>5, <1>6 DEF OpenOK
  <1> QED BY <1>2, <1>3, <1>4, <1>5, <1>6 DEF k

(***************************************************************************)
(* The programs.                                                           *)
(***************************************************************************)
\* The statements of AgentFS::from_pool, one by one.
LEMMA FromPool ==
    /\ from_pool \in Seq(OpenStmts) /\ Len(from_pool) = 11
    /\ from_pool[1] = <<"create", "fs_config">> /\ from_pool[2] = <<"create", "fs_inode">>
    /\ from_pool[3] = <<"alter", "atime_nsec">> /\ from_pool[4] = <<"alter", "mtime_nsec">>
    /\ from_pool[5] = <<"alter", "ctime_nsec">> /\ from_pool[6] = <<"create", "fs_dentry">>
    /\ from_pool[7] = <<"create", "fs_data">> /\ from_pool[8] = <<"create", "fs_symlink">>
    /\ from_pool[9] = <<"root">> /\ from_pool[10] = <<"pragma", "off">>
    /\ from_pool[11] = <<"pragma", "busy">>
PROOF
  <1> DEFINE a == initialize_schema
             b == <<<<"pragma", "off">>, <<"pragma", "busy">>>>
  <1>1. a \in Seq(OpenStmts) /\ Len(a) = 9
    BY DEF initialize_schema, OpenStmts, AllTables, FsTables, Nsec
  <1>2. b \in Seq(OpenStmts) /\ Len(b) = 2
    BY DEF OpenStmts
  <1>3. from_pool \in Seq(OpenStmts) /\ Len(from_pool) = 9 + 2
    <2>1. from_pool = a \o b
      BY DEF from_pool
    <2> HIDE DEF a, b
    <2>2. a \o b \in Seq(OpenStmts) /\ Len(a \o b) = Len(a) + Len(b)
      BY <1>1, <1>2, ConcatProperties
    <2> QED BY <1>1, <1>2, <2>1, <2>2
  <1> QED BY <1>3 DEF from_pool, initialize_schema

\* AgentFS::open checks the version and then makes everything.
LEMMA OpenProgram ==
    ASSUME NEW tab, NEW col
    PROVE  OpenOK(AgentFSOpen, tab, col) /\ Pending(AgentFSOpen, <<"pragma", "busy">>)
PROOF
  <1>1. /\ detect \in Seq(OpenStmts) /\ Len(detect) = 2
        /\ detect[1] = <<"exists">> /\ detect[2] = <<"version">>
    BY DEF detect, OpenStmts
  <1>2. kv_initialize \in Seq(OpenStmts) /\ Len(kv_initialize) = 1 /\ kv_initialize[1] = <<"create", "kv_store">>
    BY DEF kv_initialize, OpenStmts, AllTables
  <1>3. /\ tools_initialize \in Seq(OpenStmts) /\ Len(tools_initialize) = 1
        /\ tools_initialize[1] = <<"create", "tool_calls">>
    BY DEF tools_initialize, OpenStmts, AllTables
  <1>4. /\ AgentFSOpen \in Seq(Seq(OpenStmts)) /\ Len(AgentFSOpen) = 4
        /\ AgentFSOpen[1] = detect /\ AgentFSOpen[2] = kv_initialize
        /\ AgentFSOpen[3] = from_pool /\ AgentFSOpen[4] = tools_initialize
    <2>1. <<detect>> \in Seq(Seq(OpenStmts)) /\ Len(<<detect>>) = 1
      BY <1>1
    <2>2. open_with_pool \in Seq(Seq(OpenStmts)) /\ Len(open_with_pool) = 3
      BY <1>2, <1>3, FromPool DEF open_with_pool
    <2>3. AgentFSOpen \in Seq(Seq(OpenStmts)) /\ Len(AgentFSOpen) = 1 + 3
      <3> DEFINE a == <<detect>>
                 b == open_with_pool
      <3>1. AgentFSOpen = a \o b
        BY DEF AgentFSOpen
      <3> HIDE DEF a, b
      <3>2. a \o b \in Seq(Seq(OpenStmts)) /\ Len(a \o b) = Len(a) + Len(b)
        BY <2>1, <2>2, ConcatProperties DEF a, b
      <3> QED BY <2>1, <2>2, <3>1, <3>2 DEF a, b
    <2> QED BY <2>3 DEF AgentFSOpen, open_with_pool
  <1> HIDE DEF AgentFSOpen
  <1>5. \A b \in 1 .. 11 : b = 1 \/ b = 2 \/ b = 3 \/ b = 4 \/ b = 5 \/ b = 6 \/ b = 7 \/ b = 8
                           \/ b = 9 \/ b = 10 \/ b = 11
    OBVIOUS
  <1>6. OrderOK(detect, tab) /\ OrderOK(kv_initialize, tab) /\ OrderOK(tools_initialize, tab)
    BY <1>1, <1>2, <1>3 DEF OrderOK
  <1>7. OrderOK(from_pool, tab) /\ ~InSection(from_pool, <<"version">>)
    <2>1. ASSUME NEW b \in 1 .. 11
          PROVE  /\ from_pool[b] # <<"exists">> /\ from_pool[b] # <<"version">>
                 /\ from_pool[b][1] = "alter" => Before(from_pool, b, <<"create", "fs_inode">>)
      <3>1. b > 2 => Before(from_pool, b, <<"create", "fs_inode">>)
        BY FromPool DEF Before
      <3> QED BY <1>5, <3>1, FromPool
    <2> QED BY <2>1, FromPool DEF OrderOK, InSection
  <1>8. ASSUME NEW a \in 1 .. 4
        PROVE  /\ OrderOK(AgentFSOpen[a], tab)
               /\ \A b \in 1 .. Len(AgentFSOpen[a]) : AgentFSOpen[a][b][1] = "alter" =>
                     ~InSection(AgentFSOpen[a], <<"version">>)
    <2>1. a = 1 \/ a = 2 \/ a = 3 \/ a = 4
      OBVIOUS
    <2> QED BY <2>1, <1>1, <1>2, <1>3, <1>4, <1>6, <1>7
  <1>9. ASSUME NEW s, InSection(detect, s) \/ InSection(kv_initialize, s) \/ InSection(from_pool, s)
                      \/ InSection(tools_initialize, s)
        PROVE  Pending(AgentFSOpen, s)
    BY <1>4, <1>9 DEF Pending
  <1>10. ASSUME NEW x \in AllTables \ {"root"} PROVE Pending(AgentFSOpen, <<"create", x>>)
    <2>1. InSection(kv_initialize, <<"create", "kv_store">>)
      BY <1>2 DEF InSection
    <2>2. InSection(tools_initialize, <<"create", "tool_calls">>)
      BY <1>3 DEF InSection
    <2>3. \A y \in FsTables : InSection(from_pool, <<"create", y>>)
      BY FromPool DEF InSection, FsTables
    <2> QED BY <1>9, <2>1, <2>2, <2>3 DEF AllTables
  <1>11. Pending(AgentFSOpen, <<"root">>) /\ Pending(AgentFSOpen, <<"pragma", "busy">>)
    <2>1. InSection(from_pool, <<"root">>) /\ InSection(from_pool, <<"pragma", "busy">>)
      BY FromPool DEF InSection
    <2> QED BY <1>9, <2>1
  <1>12. InSection(AgentFSOpen[1], <<"version">>)
    <2>1. 2 \in 1 .. Len(detect) /\ detect[2] = <<"version">>
      BY <1>1
    <2>2. InSection(detect, <<"version">>)
      BY <2>1 DEF InSection
    <2> QED BY <1>4, <2>2
  <1>13. AgentFSOpen # <<>>
    BY <1>4, EmptySeq
  <1> QED BY <1>4, <1>8, <1>10, <1>11, <1>12, <1>13 DEF OpenOK

\* c is the program b after the program a, statement by statement.
Joins(c, a, b, S) ==
    /\ c \in Seq(S) /\ Len(c) = Len(a) + Len(b) /\ Len(a) \in Nat /\ Len(b) \in Nat
    /\ \A i \in 1 .. Len(a) : c[i] = a[i]
    /\ \A i \in 1 .. Len(b) : c[Len(a) + i] = b[i]

\* What \o does to two programs.
LEMMA Joined ==
    ASSUME NEW S, NEW a \in Seq(S), NEW b \in Seq(S), NEW c, c = a \o b
    PROVE  Joins(c, a, b, S)
PROOF
  <1>1. Len(a) \in Nat /\ Len(b) \in Nat
    BY LenProperties
  <1>2. /\ c \in Seq(S) /\ Len(c) = Len(a) + Len(b)
        /\ \A i \in 1 .. Len(a) + Len(b) : c[i] = IF i <= Len(a) THEN a[i] ELSE b[i - Len(a)]
    BY ConcatProperties
  <1>3. ASSUME NEW i \in 1 .. Len(b) PROVE c[Len(a) + i] = b[i]
    <2>1. Len(a) + i \in 1 .. Len(a) + Len(b) /\ ~(Len(a) + i <= Len(a)) /\ (Len(a) + i) - Len(a) = i
      BY <1>1
    <2> QED BY <1>2, <2>1
  <1> QED BY <1>1, <1>2, <1>3 DEF Joins

\* The AgentFS::open of the other process.
LEMMA CliOpenProgram ==
    ASSUME NEW tab, NEW col
    PROVE  CliOK(detect \o kv_initialize \o from_pool \o tools_initialize \o <<<<"opened">>>>, tab, col)
PROOF
  <1> DEFINE S == OpenStmts \cup MigrateStmts
             z == <<<<"opened">>>>
             p2 == detect \o kv_initialize
             p3 == p2 \o from_pool
             p4 == p3 \o tools_initialize
             c == p4 \o z
  <1>1. /\ detect \in Seq(S) /\ Len(detect) = 2
        /\ detect[1] = <<"exists">> /\ detect[2] = <<"version">>
    BY DEF detect, OpenStmts
  <1>2. kv_initialize \in Seq(S) /\ Len(kv_initialize) = 1 /\ kv_initialize[1] = <<"create", "kv_store">>
    BY DEF kv_initialize, OpenStmts, AllTables
  <1>3. /\ tools_initialize \in Seq(S) /\ Len(tools_initialize) = 1
        /\ tools_initialize[1] = <<"create", "tool_calls">>
    BY DEF tools_initialize, OpenStmts, AllTables
  <1>4. from_pool \in Seq(S)
    BY FromPool, SeqMonotonic
  <1>5. z \in Seq(S) /\ Len(z) = 1 /\ z[1] = <<"opened">>
    BY DEF MigrateStmts
  <1> HIDE DEF S, z, p2, p3, p4, c
  <1>6. /\ p2 \in Seq(S) /\ Len(p2) = 3
        /\ p2[1] = <<"exists">> /\ p2[2] = <<"version">> /\ p2[3] = <<"create", "kv_store">>
    <2>1. Joins(p2, detect, kv_initialize, S)
      BY <1>1, <1>2, Joined DEF p2
    <2>2. p2[2 + 1] = kv_initialize[1] /\ 2 + 1 = 3
      BY <1>1, <1>2, <2>1 DEF Joins
    <2> QED BY <1>1, <1>2, <2>1, <2>2 DEF Joins
  <1>7. /\ p3 \in Seq(S) /\ Len(p3) = 14
        /\ \A i \in 1 .. 3 : p3[i] = p2[i] /\ \A k \in 1 .. 11 : p3[3 + k] = from_pool[k]
    <2>1. Joins(p3, p2, from_pool, S)
      BY <1>4, <1>6, Joined DEF p3
    <2> QED BY <1>6, <2>1, FromPool DEF Joins
  <1>8. p4 \in Seq(S) /\ Len(p4) = 15 /\ \A i \in 1 .. 14 : p4[i] = p3[i] /\ p4[15] = <<"create", "tool_calls">>
    <2>1. Joins(p4, p3, tools_initialize, S)
      BY <1>3, <1>7, Joined DEF p4
    <2>2. p4[14 + 1] = tools_initialize[1] /\ 14 + 1 = 15
      BY <1>3, <1>7, <2>1 DEF Joins
    <2> QED BY <1>3, <1>7, <2>1, <2>2 DEF Joins
  <1>9. c \in Seq(S) /\ Len(c) = 16 /\ \A i \in 1 .. 15 : c[i] = p4[i] /\ c[16] = <<"opened">>
    <2>1. Joins(c, p4, z, S)
      BY <1>5, <1>8, Joined DEF c
    <2>2. c[15 + 1] = z[1] /\ 15 + 1 = 16
      BY <1>5, <1>8, <2>1 DEF Joins
    <2> QED BY <1>5, <1>8, <2>1, <2>2 DEF Joins
  <1>10. /\ c[1] = <<"exists">> /\ c[2] = <<"version">> /\ c[3] = <<"create", "kv_store">>
         /\ c[15] = <<"create", "tool_calls">> /\ c[16] = <<"opened">>
    BY <1>6, <1>7, <1>8, <1>9
  <1>11. \A k \in 1 .. 11 : 3 + k \in 1 .. 14 /\ c[3 + k] = from_pool[k]
    <2>1. \A k \in 1 .. 11 : 3 + k \in 1 .. 14 /\ 3 + k \in 1 .. 15
      OBVIOUS
    <2> QED BY <2>1, <1>7, <1>8, <1>9 DEF Joins
  <1>12. /\ c[4] = <<"create", "fs_config">> /\ c[5] = <<"create", "fs_inode">>
         /\ c[6] = <<"alter", "atime_nsec">> /\ c[7] = <<"alter", "mtime_nsec">>
         /\ c[8] = <<"alter", "ctime_nsec">> /\ c[9] = <<"create", "fs_dentry">>
         /\ c[10] = <<"create", "fs_data">> /\ c[11] = <<"create", "fs_symlink">>
         /\ c[12] = <<"root">> /\ c[13] = <<"pragma", "off">> /\ c[14] = <<"pragma", "busy">>
    <2>1. /\ c[3 + 1] = from_pool[1] /\ c[3 + 2] = from_pool[2] /\ c[3 + 3] = from_pool[3]
          /\ c[3 + 4] = from_pool[4] /\ c[3 + 5] = from_pool[5] /\ c[3 + 6] = from_pool[6]
          /\ c[3 + 7] = from_pool[7] /\ c[3 + 8] = from_pool[8] /\ c[3 + 9] = from_pool[9]
          /\ c[3 + 10] = from_pool[10] /\ c[3 + 11] = from_pool[11]
      BY <1>11
    <2> QED BY <2>1, FromPool
  <1>13. \A b \in 1 .. 16 : b = 1 \/ b = 2 \/ b = 3 \/ b = 4 \/ b = 5 \/ b = 6 \/ b = 7 \/ b = 8
                            \/ b = 9 \/ b = 10 \/ b = 11 \/ b = 12 \/ b = 13 \/ b = 14 \/ b = 15 \/ b = 16
    OBVIOUS
  <1>14. ASSUME NEW b \in 1 .. 16
         PROVE  /\ c[b] = <<"exists">> => b = 1
                /\ c[b][1] = "alter" => b > 5
                /\ c[b][1] # "migrate"
                /\ c[b] = <<"opened">> => b = 16
    BY <1>10, <1>12, <1>13
  <1>15. \A b \in 1 .. 16 : b > 5 => Before(c, b, <<"version">>) /\ Before(c, b, <<"create", "fs_inode">>)
    BY <1>10, <1>12 DEF Before
  <1>16. /\ \A x \in AllTables \ {"root"} : InSection(c, <<"create", x>>)
         /\ InSection(c, <<"root">>) /\ InSection(c, <<"version">>)
    BY <1>9, <1>10, <1>12 DEF InSection, AllTables, FsTables
  <1>17. OrderOK(c, tab)
    BY <1>9, <1>10, <1>14, <1>15 DEF OrderOK
  <1> QED BY <1>9, <1>14, <1>15, <1>16, <1>17 DEF CliOK, S, c, p4, p3, p2, z

\* A migration starts with nlink unless the table has it.
LEMMA MigrateProgram ==
    ASSUME NEW tab, NEW col, NEW v \in {"0.0", "0.2", "0.4"}, v = "0.2" => "nlink" \in col,
           NEW z, z = <<<<"stored">>>> \/ (z = <<>> /\ v = "0.4")
    PROVE  CliOK(apply_migrations(v) \o z, tab, col)
PROOF
  <1> DEFINE S == OpenStmts \cup MigrateStmts
             a == IF v = "0.0" THEN migrate_v0_0_to_v0_2 ELSE <<>>
             b == IF v = "0.4" THEN <<>> ELSE migrate_v0_2_to_v0_4
             p == a \o b
             c == p \o z
  <1>0. apply_migrations(v) \o z = c
    BY DEF apply_migrations
  <1>1. a \in Seq(S) /\ (v = "0.0" => Len(a) = 1 /\ a[1] = <<"migrate", "nlink">>) /\ (v # "0.0" => Len(a) = 0)
    BY DEF migrate_v0_0_to_v0_2, MigrateStmts, Columns
  <1>2. b \in Seq(S) /\ (v = "0.4" => Len(b) = 0) /\ \A i \in 1 .. Len(b) : b[i][1] = "migrate"
    <2>1. CASE v = "0.4"
      BY <2>1
    <2>2. CASE v # "0.4"
      <3>1. b = migrate_v0_2_to_v0_4
        BY <2>2
      <3>2. /\ b \in Seq(S) /\ Len(b) = 4 /\ b[1] = <<"migrate", "atime_nsec">> /\ b[2] = <<"migrate", "mtime_nsec">>
            /\ b[3] = <<"migrate", "ctime_nsec">> /\ b[4] = <<"migrate", "rdev">>
        <4>1. /\ <<"migrate", "atime_nsec">> \in S /\ <<"migrate", "mtime_nsec">> \in S
              /\ <<"migrate", "ctime_nsec">> \in S /\ <<"migrate", "rdev">> \in S
          BY DEF MigrateStmts, Columns, Nsec
        <4> HIDE DEF S
        <4> QED BY <3>1, <4>1 DEF migrate_v0_2_to_v0_4
      <3>3. \A i \in 1 .. 4 : i = 1 \/ i = 2 \/ i = 3 \/ i = 4
        OBVIOUS
      <3> HIDE DEF b
      <3> QED BY <2>2, <3>2, <3>3
    <2> QED BY <2>1, <2>2
  <1>3. z \in Seq(S) /\ \A i \in 1 .. Len(z) : z[i] = <<"stored">>
    <2>1. <<"stored">> \in S
      BY DEF MigrateStmts
    <2>2. CASE z = <<>>
      BY <2>2, EmptySeq
    <2>3. CASE z = <<<<"stored">>>>
      <3> HIDE DEF S
      <3> QED BY <2>1, <2>3
    <2> QED BY <2>2, <2>3
  <1> HIDE DEF S, a, b, p, c
  <1>4. /\ p \in Seq(S) /\ Len(p) = Len(a) + Len(b) /\ Len(a) \in Nat /\ Len(b) \in Nat
        /\ \A i \in 1 .. Len(a) : p[i] = a[i]
        /\ \A i \in 1 .. Len(b) : p[Len(a) + i] = b[i]
    <2>1. Joins(p, a, b, S)
      BY <1>1, <1>2, Joined DEF p
    <2> QED BY <2>1 DEF Joins
  <1>5. /\ c \in Seq(S) /\ Len(c) = Len(p) + Len(z) /\ Len(z) \in Nat
        /\ \A i \in 1 .. Len(p) : c[i] = p[i]
        /\ \A i \in 1 .. Len(z) : c[Len(p) + i] = z[i]
    <2>1. Joins(c, p, z, S)
      BY <1>3, <1>4, Joined DEF c
    <2> QED BY <2>1 DEF Joins
  <1>6. ASSUME NEW i \in 1 .. Len(c) PROVE c[i] = <<"stored">> \/ (c[i][1] = "migrate" /\ i <= Len(p))
    <2>1. CASE i <= Len(a)
      <3>1. i \in 1 .. Len(a) /\ i \in 1 .. Len(p) /\ v = "0.0" /\ i = 1
        BY <1>1, <1>4, <1>5, <2>1
      <3>2. c[i] = <<"migrate", "nlink">>
        BY <1>1, <1>4, <1>5, <3>1
      <3> QED BY <3>1, <3>2
    <2>2. CASE i > Len(a) /\ i <= Len(p)
      <3>1. i - Len(a) \in 1 .. Len(b) /\ i \in 1 .. Len(p) /\ Len(a) + (i - Len(a)) = i
        BY <1>4, <1>5, <2>2
      <3>2. c[i] = p[i] /\ p[i] = b[i - Len(a)]
        BY <1>4, <1>5, <3>1
      <3> QED BY <1>2, <2>2, <3>1, <3>2
    <2>3. CASE i > Len(p)
      <3>1. i - Len(p) \in 1 .. Len(z) /\ Len(p) + (i - Len(p)) = i
        BY <1>4, <1>5, <2>3
      <3> QED BY <1>3, <1>5, <3>1
    <2> QED BY <1>4, <1>5, <2>1, <2>2, <2>3
  <1>7. ASSUME NEW i \in 1 .. Len(c), c[i][1] = "migrate"
        PROVE  c[i][2] = "nlink" \/ "nlink" \in col \/ Before(c, i, <<"migrate", "nlink">>)
    <2>1. i <= Len(p)
      BY <1>6, <1>7
    <2>2. CASE v = "0.0"
      <3>1. c[1] = <<"migrate", "nlink">>
        <4>1. 1 \in 1 .. Len(a) /\ 1 \in 1 .. Len(p)
          BY <1>1, <1>4, <2>2
        <4> QED BY <1>1, <1>4, <1>5, <2>2, <4>1
      <3>2. CASE i = 1
        BY <3>1, <3>2
      <3>3. CASE i # 1
        BY <1>4, <1>5, <3>1, <3>3 DEF Before
      <3> QED BY <3>2, <3>3
    <2>3. CASE v = "0.4"
      BY <1>1, <1>2, <1>4, <1>5, <2>1, <2>3
    <2> QED BY <2>2, <2>3
  <1>8. OrderOK(c, tab)
    BY <1>6 DEF OrderOK
  <1>9. CliOK(c, tab, col)
    BY <1>5, <1>6, <1>7, <1>8 DEF CliOK, S
  <1> QED BY <1>0, <1>9

\* The other process goes on to its next statement.
LEMMA CliTail ==
    ASSUME NEW q, NEW tab, NEW col, q # <<>>, CliOK(q, tab, col), Effect(q[1], tab, col)
    PROVE  CliOK(Tail(q), tab, col)
PROOF
  <1> DEFINE S == OpenStmts \cup MigrateStmts
             w == Tail(q)
  <1>0. q \in Seq(S) /\ OrderOK(q, tab) /\ (q[1] = <<"create", "fs_inode">> => "fs_inode" \in tab)
    BY DEF CliOK, Effect
  <1>1. /\ w \in Seq(S) /\ Len(w) = Len(q) - 1 /\ Len(q) \in Nat \ {0}
        /\ \A b \in 1 .. Len(w) : w[b] = q[b + 1] /\ b + 1 \in 1 .. Len(q)
        /\ OrderOK(w, tab)
        /\ \A s : InSection(q, s) => s = q[1] \/ InSection(w, s)
        /\ \A s : \A b \in 1 .. Len(w) : Before(q, b + 1, s) => s = q[1] \/ Before(w, b, s)
    BY <1>0, TailOfSection
  <1> HIDE DEF w
  <1>2. ASSUME NEW b \in 1 .. Len(w)
        PROVE  /\ w[b][1] = "alter" => NotOld(tab, col) \/ Before(w, b, <<"version">>)
               /\ w[b][1] = "migrate" =>
                     w[b][2] = "nlink" \/ "nlink" \in col \/ Before(w, b, <<"migrate", "nlink">>)
    BY <1>1 DEF CliOK, Effect
  <1>3. ASSUME NEW b \in 1 .. Len(w), w[b] = <<"opened">>
        PROVE  /\ b = Len(w)
               /\ \A x \in AllTables \ {"root"} : x \in tab \/ InSection(w, <<"create", x>>)
               /\ "root" \in tab \/ InSection(w, <<"root">>)
               /\ NotOld(tab, col) \/ InSection(w, <<"version">>)
    <2>1. /\ b + 1 = Len(q)
          /\ \A x \in AllTables \ {"root"} : x \in tab \/ InSection(q, <<"create", x>>)
          /\ "root" \in tab \/ InSection(q, <<"root">>)
          /\ NotOld(tab, col) \/ InSection(q, <<"version">>)
      BY <1>1, <1>3 DEF CliOK
    <2>2. b = Len(w)
      BY <1>1, <2>1
    <2> QED BY <1>1, <2>1, <2>2 DEF Effect
  <1> QED BY <1>1, <1>2, <1>3 DEF CliOK, w

\* One statement of the other process, or the check that finds no table at all.
LEMMA CliAdvances ==
    ASSUME NEW c, NEW tab, NEW col, NEW tab2, NEW col2, c # <<>>,
           CliOK(c, tab, col), Grows(tab, col, tab2, col2), Effect(c[1], tab2, col2), NEW r,
           \/ r = Tail(c)
           \/ c[1] = <<"exists">> /\ c[2] = <<"version">> /\ r = Tail(Tail(c)) /\ NotOld(tab2, col2)
    PROVE  CliOK(r, tab2, col2)
PROOF
  <1> DEFINE S == OpenStmts \cup MigrateStmts
             q == Tail(c)
  <1>1. CliOK(q, tab2, col2)
    BY CliGrows, CliTail
  <1>2. CASE c[1] = <<"exists">> /\ c[2] = <<"version">> /\ r = Tail(q) /\ NotOld(tab2, col2)
    <2>1. c \in Seq(S) /\ Len(c) \in Nat \ {0}
      BY EmptySeq DEF CliOK
    <2>2. Len(c) >= 2
      BY <1>2, <2>1 DEF CliOK, OrderOK
    <2>3. Len(q) = Len(c) - 1 /\ q \in Seq(S) /\ \A i \in 1 .. Len(q) : q[i] = c[i + 1]
      BY <2>1, HeadTailProperties
    <2> HIDE DEF q, S
    <2>4. q # <<>> /\ q[1] = <<"version">>
      <3>1. 1 \in 1 .. Len(q) /\ Len(q) # 0 /\ 1 + 1 = 2
        BY <2>1, <2>2, <2>3
      <3> QED BY <1>2, <2>3, <3>1, EmptySeq
    <2>5. Effect(q[1], tab2, col2)
      BY <1>2, <2>4 DEF Effect
    <2> QED BY <1>1, <1>2, <2>4, <2>5, CliTail
  <1> QED BY <1>1, <1>2

(***************************************************************************)
(* One statement.                                                          *)
(***************************************************************************)
\* What each kind of statement does.
LEMMA Executed ==
    ASSUME NEW s, Execute(s)
    PROVE  /\ \A k : s = <<"set", k>> => kv_set(k)
           /\ \A k : s = <<"delete", k>> => kv_delete(k)
           /\ \A n : s = <<"start", n>> => start(n)
           /\ \A b, e, err : s = <<"record", b, e, err>> => record(b, e, err)
           /\ \A id, st, c, b : s = <<"finish", id, st, c, b>> => finish(id, st, c, b)
           /\ \A id : s = <<"started", id>> => UNCHANGED <<tables, columns, kv, calls>>
           /\ s[1] \notin Writes => UNCHANGED <<tables, columns, kv, calls>>
PROOF
  <1>1. ASSUME NEW k, s = <<"set", k>> PROVE kv_set(k)
    BY <1>1 DEF Execute, Writes
  <1>2. ASSUME NEW k, s = <<"delete", k>> PROVE kv_delete(k)
    BY <1>2 DEF Execute, Writes
  <1>3. ASSUME NEW n, s = <<"start", n>> PROVE start(n)
    BY <1>3 DEF Execute, Writes
  <1>4. ASSUME NEW b, NEW e, NEW err, s = <<"record", b, e, err>> PROVE record(b, e, err)
    BY <1>4 DEF Execute, Writes
  <1>5. ASSUME NEW id, NEW st, NEW c, NEW b, s = <<"finish", id, st, c, b>>
        PROVE  finish(id, st, c, b)
    BY <1>5 DEF Execute, Writes
  <1>6. ASSUME NEW id, s = <<"started", id>> PROVE UNCHANGED <<tables, columns, kv, calls>>
    BY <1>6 DEF Execute, Writes, stores
  <1>7. ASSUME s[1] \notin Writes PROVE UNCHANGED <<tables, columns, kv, calls>>
    BY <1>7 DEF Execute, Writes, stores
  <1> QED BY <1>1, <1>2, <1>3, <1>4, <1>5, <1>6, <1>7

\* CREATE TABLE IF NOT EXISTS, ALTER TABLE and the insertion of the root's row keep
\* the schema one that the version check understands.
LEMMA SchemaStatement ==
    ASSUME SchemaOK(tables, columns), NEW s \in OpenStmts \cup MigrateStmts, Succeeds(s), Execute(s),
           s[1] = "alter" => NotOld(tables, columns) /\ "fs_inode" \in tables,
           s[1] = "migrate" => s[2] = "nlink" \/ "nlink" \in columns
    PROVE  /\ SchemaOK(tables', columns') /\ Grows(tables, columns, tables', columns')
           /\ Effect(s, tables', columns') /\ UNCHANGED <<kv, calls>>
PROOF
  <1>1. ASSUME NEW x \in AllTables \ {"root"}, s = <<"create", x>>
        PROVE  /\ SchemaOK(tables', columns') /\ Grows(tables, columns, tables', columns')
               /\ Effect(s, tables', columns') /\ UNCHANGED <<kv, calls>>
    <2>1. CreateTable(x)
      BY <1>1 DEF Execute, Writes
    <2>2. SchemaOK(tables', columns')
      BY <2>1 DEF CreateTable, SchemaOK, Columns
    <2>3. Grows(tables, columns, tables', columns')
      BY <2>1 DEF CreateTable, Grows, NotOld, SchemaOK
    <2>4. Effect(s, tables', columns')
      BY <1>1, <2>1 DEF CreateTable, Effect
    <2> QED BY <2>1, <2>2, <2>3, <2>4 DEF CreateTable
  <1>2. ASSUME NEW c \in Columns, s = <<"alter", c>> \/ s = <<"migrate", c>>
        PROVE  /\ SchemaOK(tables', columns') /\ Grows(tables, columns, tables', columns')
               /\ Effect(s, tables', columns') /\ UNCHANGED <<kv, calls>>
    <2>1. /\ columns' = columns \cup {c} \/ (columns' = columns /\ s = <<"alter", c>>)
          /\ UNCHANGED <<tables, kv, calls>>
      <3>1. CASE s = <<"alter", c>>
        BY <3>1 DEF Execute, Writes, add_column
      <3>2. CASE s = <<"migrate", c>>
        BY <3>2 DEF Execute, Writes, add_column
      <3> QED BY <1>2, <3>1, <3>2
    <2>2. "fs_inode" \in tables
      BY <1>2 DEF Succeeds
    <2>3. c = "nlink" \/ "nlink" \in columns
      <3>1. CASE s = <<"migrate", c>>
        BY <3>1
      <3>2. CASE s = <<"alter", c>>
        <4>1. NotOld(tables, columns)
          BY <3>2
        <4> QED BY <2>2, <4>1 DEF NotOld, SchemaOK, Columns
      <3> QED BY <1>2, <3>1, <3>2
    <2>4. SchemaOK(tables', columns')
      BY <2>1, <2>2, <2>3 DEF SchemaOK
    <2>5. Grows(tables, columns, tables', columns')
      BY <2>1, <2>4 DEF Grows, NotOld, SchemaOK
    <2>6. Effect(s, tables', columns')
      BY <1>2, <2>1 DEF Effect
    <2> QED BY <2>1, <2>4, <2>5, <2>6
  <1>3. ASSUME s = <<"root">>
        PROVE  /\ SchemaOK(tables', columns') /\ Grows(tables, columns, tables', columns')
               /\ Effect(s, tables', columns') /\ UNCHANGED <<kv, calls>>
    <2>1. tables' = tables \cup {"root"} /\ UNCHANGED <<columns, kv, calls>>
      BY <1>3 DEF Execute, Writes, RootRow
    <2>2. "root" \in tables \/ columns = Columns
      BY <1>3 DEF Succeeds, SchemaOK, Columns
    <2>3. "fs_inode" \in tables
      BY <2>2 DEF SchemaOK, Columns
    <2>4. SchemaOK(tables', columns')
      BY <2>1, <2>2, <2>3 DEF SchemaOK, AllTables
    <2>5. Grows(tables, columns, tables', columns')
      BY <2>1, <2>2 DEF Grows, NotOld
    <2>6. Effect(s, tables', columns')
      BY <1>3, <2>1 DEF Effect
    <2> QED BY <2>1, <2>4, <2>5, <2>6
  <1>4. ASSUME s \in {<<"exists">>, <<"version">>, <<"pragma", "off">>, <<"pragma", "busy">>,
                      <<"detect">>, <<"stored">>, <<"opened">>}
        PROVE  /\ SchemaOK(tables', columns') /\ Grows(tables, columns, tables', columns')
               /\ Effect(s, tables', columns') /\ UNCHANGED <<kv, calls>>
    <2>1. UNCHANGED <<tables, columns, kv, calls>>
      <3>1. s[1] \notin Writes
        BY <1>4 DEF Writes
      <3> QED BY <3>1, Executed
    <2>2. ASSUME s = <<"version">> PROVE columns = Columns
      <3>1. Version = "0.4"
        BY <2>2 DEF Succeeds
      <3>2. Nsec \cup {"rdev"} \subseteq columns
        BY <3>1 DEF Version
      <3>3. columns \subseteq Columns /\ "nlink" \in columns
        BY <3>2 DEF SchemaOK
      <3> QED BY <3>2, <3>3 DEF Columns
    <2> QED BY <1>4, <2>1, <2>2 DEF Grows, Effect, NotOld
  <1> QED BY <1>1, <1>2, <1>3, <1>4 DEF OpenStmts, MigrateStmts, Columns

\* A new row of tool_calls.
LEMMA RowAdded ==
    ASSUME CallsOK(calls), Len(calls) < MaxCalls, NEW c \in Rows, RowOK(c), calls' = Append(calls, c)
    PROVE  CallsOK(calls') /\ Longer(calls, calls')
PROOF
  <1>0. calls \in Seq(Rows) /\ Len(calls) \in Nat /\ MaxCalls \in Nat
    BY LenProperties, StoresAssumption DEF CallsOK
  <1>1. /\ calls' \in Seq(Rows) /\ Len(calls') = Len(calls) + 1
        /\ \A i \in 1 .. Len(calls) : calls'[i] = calls[i]
        /\ calls'[Len(calls) + 1] = c
    BY <1>0, AppendProperties
  <1>2. \A id \in 1 .. Len(calls') : RowOK(calls'[id])
    <2> SUFFICES ASSUME NEW id \in 1 .. Len(calls') PROVE RowOK(calls'[id])
      OBVIOUS
    <2>1. id \in 1 .. Len(calls) \/ id = Len(calls) + 1
      BY <1>0, <1>1
    <2> QED BY <1>1, <2>1 DEF CallsOK
  <1> QED BY <1>0, <1>1, <1>2 DEF CallsOK, Longer

\* The UPDATE of success and error, with the start its SELECT read.
LEMMA RowFinished ==
    ASSUME CallsOK(calls), NEW id \in 1 .. Len(calls), NEW st \in {"success", "error"},
           NEW c \in 0 .. MaxTime, finish(id, st, c, calls[id].started)
    PROVE  CallsOK(calls') /\ Longer(calls, calls')
PROOF
  <1> DEFINE old == calls[id]
             row == Call(st, old.started, c, (c - old.started) * 1000,
                         old.result \/ st = "success", old.error \/ st = "error")
  <1>0. calls \in Seq(Rows) /\ Len(calls) \in Nat /\ old \in Rows
    BY LenProperties, ElementOfSeq DEF CallsOK
  <1>1. calls' = [calls EXCEPT ![id] = row]
    BY DEF finish
  <1>2. row \in Rows /\ RowOK(row) /\ row.started = old.started
    <2>1. c \in Int /\ old.started \in 0 .. MaxTime /\ (c - old.started) * 1000 \in Int /\ c # Null
      BY <1>0, StoresAssumption DEF Rows, Null
    <2>2. row \in Rows
      BY <2>1 DEF Rows, Call
    <2>3. RowOK(row)
      BY <2>1 DEF RowOK, Call
    <2> QED BY <2>2, <2>3 DEF Call
  <1> HIDE DEF row, old
  <1>3. /\ calls' \in Seq(Rows) /\ Len(calls') = Len(calls)
        /\ \A i \in 1 .. Len(calls) : calls'[i] = IF i = id THEN row ELSE calls[i]
    BY <1>0, <1>1, <1>2, ExceptSeq
  <1> QED BY <1>0, <1>2, <1>3 DEF CallsOK, Longer, old

\* KvStore::set keeps the creation of a key it finds.
LEMMA KeySet ==
    ASSUME KvOK(kv, now), now \in 0 .. MaxTime, NEW k \in Keys, kv_set(k)
    PROVE  KvOK(kv', now)
PROOF
  <1> DEFINE new == <<IF kv[k] = <<>> THEN now ELSE kv[k][1], now>>
  <1>1. kv' = [kv EXCEPT ![k] = new]
    BY DEF kv_set
  <1>2. kv[k] # <<>> => kv[k][1] \in 0 .. MaxTime /\ kv[k][2] \in 0 .. MaxTime
                        /\ kv[k][1] <= kv[k][2] /\ kv[k][2] <= now
    BY DEF KvOK
  <1>3. new \in (0 .. MaxTime) \X (0 .. MaxTime) /\ new[1] <= new[2] /\ new[2] <= now
    BY <1>2, StoresAssumption
  <1> HIDE DEF new
  <1> QED BY <1>1, <1>3 DEF KvOK

\* A statement of an operation of the open instance.
LEMMA WorkStatement ==
    ASSUME RecordsInv, NEW sec, sec # <<>>, WorkOK(<<sec>>, calls),
           NEW s, s = Head(sec), Succeeds(s), Execute(s)
    PROVE  /\ UNCHANGED <<tables, columns>> /\ CallsOK(calls') /\ KvOK(kv', now)
           /\ Longer(calls, calls') /\ WorkOK(<<Rest(sec)>>, calls')
PROOF
  <1>0. calls \in Seq(Rows) /\ Len(calls) \in Nat /\ CallsOK(calls) /\ KvOK(kv, now) /\ now \in 0 .. MaxTime
    BY LenProperties DEF RecordsInv, CallsOK
  <1>s. Longer(calls, calls)
    BY <1>0 DEF Longer
  <1>1. CASE sec \in Seq(PlainStmts)
    <2>1. s \in PlainStmts /\ Tail(sec) \in Seq(PlainStmts)
      BY <1>1, HeadTailProperties
    <2>2. s[1] \notin {"exists", "started"}
      BY <2>1 DEF PlainStmts
    <2>3. Rest(sec) = Tail(sec)
      BY <2>2 DEF Rest
    <2>4. WorkOK(<<Rest(sec)>>, calls')
      BY <2>1, <2>3 DEF WorkOK
    <2>5. ASSUME NEW k \in Keys, s = <<"set", k>>
          PROVE  UNCHANGED <<tables, columns>> /\ CallsOK(calls') /\ KvOK(kv', now) /\ Longer(calls, calls')
      <3>1. kv_set(k)
        BY <2>5, Executed
      <3> QED BY <1>0, <1>s, <3>1, KeySet DEF kv_set
    <2>6. ASSUME NEW k \in Keys, s = <<"delete", k>>
          PROVE  UNCHANGED <<tables, columns>> /\ CallsOK(calls') /\ KvOK(kv', now) /\ Longer(calls, calls')
      <3>1. kv_delete(k)
        BY <2>6, Executed
      <3> QED BY <1>0, <1>s, <3>1 DEF kv_delete, KvOK
    <2>7. ASSUME s \in {<<"read">>, <<"any">>, <<"begin">>, <<"commit">>, <<"pragma", "full">>, <<"pragma", "off">>}
          PROVE  UNCHANGED <<tables, columns>> /\ CallsOK(calls') /\ KvOK(kv', now) /\ Longer(calls, calls')
      <3>1. s[1] \notin Writes
        BY <2>7 DEF Writes
      <3>2. UNCHANGED <<tables, columns, kv, calls>>
        BY <3>1, Executed
      <3> QED BY <1>0, <1>s, <3>2
    <2>8. ASSUME NEW n \in 0 .. MaxTime, s = <<"start", n>>
          PROVE  UNCHANGED <<tables, columns>> /\ CallsOK(calls') /\ KvOK(kv', now) /\ Longer(calls, calls')
      <3> DEFINE c == Call("pending", n, Null, Null, FALSE, FALSE)
      <3>1. start(n) /\ Len(calls) < MaxCalls
        BY <2>8, Executed DEF Succeeds
      <3>2. c \in Rows /\ RowOK(c)
        BY DEF Call, Rows, RowOK, Null
      <3> HIDE DEF c
      <3> QED BY <1>0, <3>1, <3>2, RowAdded DEF start, c
    <2>9. ASSUME NEW b \in 0 .. MaxTime, NEW e \in 0 .. MaxTime, NEW err \in BOOLEAN,
                 s = <<"record", b, e, err>>
          PROVE  UNCHANGED <<tables, columns>> /\ CallsOK(calls') /\ KvOK(kv', now) /\ Longer(calls, calls')
      <3> DEFINE c == Call(IF err THEN "error" ELSE "success", b, e, (e - b) * 1000, ~err, err)
      <3>1. record(b, e, err) /\ Len(calls) < MaxCalls
        BY <2>9, Executed DEF Succeeds
      <3>2. b \in Int /\ e \in Int /\ e # Null /\ (e - b) * 1000 \in Int
        BY StoresAssumption DEF Null
      <3>3. c \in Rows
        BY <3>2 DEF Call, Rows
      <3>4. RowOK(c)
        <4>1. CASE err = TRUE
          BY <3>2, <4>1 DEF Call, RowOK
        <4>2. CASE err = FALSE
          BY <3>2, <4>2 DEF Call, RowOK
        <4> QED BY <4>1, <4>2
      <3> HIDE DEF c
      <3> QED BY <1>0, <3>1, <3>3, <3>4, RowAdded DEF record, c
    <2> QED BY <2>1, <2>4, <2>5, <2>6, <2>7, <2>8, <2>9 DEF PlainStmts
  <1>2. ASSUME NEW id \in 1 .. MaxCalls, NEW st \in {"success", "error"}, NEW c \in 0 .. MaxTime,
               sec = <<<<"started", id>>, <<"finish", id, st, c, Null>>>>
        PROVE  /\ UNCHANGED <<tables, columns>> /\ CallsOK(calls') /\ KvOK(kv', now)
               /\ Longer(calls, calls') /\ WorkOK(<<Rest(sec)>>, calls')
    <2>1. s = <<"started", id>>
      BY <1>2
    <2>2. UNCHANGED <<tables, columns, kv, calls>> /\ id \in 1 .. Len(calls)
      BY <1>0, <2>1, Executed DEF Succeeds
    <2>3. Rest(sec) = <<<<"finish", id, st, c, calls[id].started>>>>
      BY <1>2 DEF Rest
    <2> QED BY <1>0, <1>s, <2>2, <2>3 DEF WorkOK
  <1>3. ASSUME NEW id \in 1 .. Len(calls), NEW st \in {"success", "error"}, NEW c \in 0 .. MaxTime,
               sec = <<<<"finish", id, st, c, calls[id].started>>>>
        PROVE  /\ UNCHANGED <<tables, columns>> /\ CallsOK(calls') /\ KvOK(kv', now)
               /\ Longer(calls, calls') /\ WorkOK(<<Rest(sec)>>, calls')
    <2>1. s = <<"finish", id, st, c, calls[id].started>>
      BY <1>3
    <2>2. finish(id, st, c, calls[id].started)
      BY <2>1, Executed
    <2>3. Rest(sec) = <<>>
      BY <1>3 DEF Rest
    <2>4. WorkOK(<<Rest(sec)>>, calls')
      BY <2>3, EmptySeq DEF WorkOK
    <2>5. UNCHANGED <<tables, columns, kv>>
      BY <2>2 DEF finish
    <2>6. CallsOK(calls') /\ Longer(calls, calls')
      BY <1>0, <2>2, RowFinished
    <2> QED BY <1>0, <2>4, <2>5, <2>6
  <1> QED BY <1>1, <1>2, <1>3 DEF WorkOK

(***************************************************************************)
(* The steps of the tasks.                                                 *)
(***************************************************************************)
\* The first of the list waits, so it is not the task that passes its permit on.
LEMMA FirstWaits ==
    ASSUME TypeOK, QueueExact, queue # <<>>
    PROVE  Head(queue) \in Tasks /\ pc[Head(queue)] = "waiting"
PROOF
  <1>1. Len(queue) \in Nat \ {0} /\ Head(queue) = queue[1] /\ Head(queue) \in Tasks
    BY EmptySeq, HeadTailProperties DEF TypeOK
  <1> QED BY <1>1 DEF QueueExact, Listed

LEMMA PermitPassed ==
    ASSUME TypeOK, QueueExact, NEW t \in Tasks, pc[t] # "waiting", PassPermit(t, "idle")
    PROVE  pc'[t] = "idle"
PROOF
  <1>1. CASE queue = <<>>
    BY <1>1 DEF PassPermit, TypeOK
  <1>2. CASE queue # <<>>
    BY <1>2, FirstWaits DEF PassPermit, TypeOK
  <1> QED BY <1>1, <1>2

\* Every step of the stores is one of the pool or none, but for a crash, which
\* leaves a new pool.
LEMMA StoresAndPool == [StoresNext]_svars => [Next]_vars \/ Init'
PROOF
  <1> SUFFICES ASSUME [StoresNext]_svars PROVE [Next]_vars \/ Init'
    OBVIOUS
  <1>1. ASSUME NEW t \in Tasks, Invoke(t) \/ Again(t) PROVE Next
    BY <1>1 DEF Invoke, Again, Next
  <1>2. ASSUME NEW t \in Tasks, GetConnection(t) \/ NewConnection(t) PROVE Next
    BY <1>2 DEF GetConnection, NewConnection, Next, Run
  <1>3. ASSUME NEW t \in Tasks, GiveUp(t) PROVE Next
    BY <1>3 DEF GiveUp, Next, Run
  <1>4. ASSUME NEW t \in Tasks, EndSection(t) \/ Abandon(t) \/ Release(t) PROVE Next
    BY <1>4 DEF EndSection, Abandon, Release, Next, Run
  <1>5. ASSUME NEW t \in Tasks, Statement(t) \/ Choose(t) PROVE UNCHANGED vars
    BY <1>5 DEF Statement, Choose
  <1>6. ASSUME Crash PROVE Init'
    BY <1>6 DEF Crash, Init
  <1>7. ASSUME Tick \/ CliStart \/ CliStatement \/ CliStops PROVE UNCHANGED vars
    BY <1>7 DEF Tick, CliStart, CliStatement, CliStops, Elsewhere
  <1>8. ASSUME UNCHANGED svars PROVE UNCHANGED vars
    BY <1>8 DEF svars, vars
  <1> QED BY <1>1, <1>2, <1>3, <1>4, <1>5, <1>6, <1>7, <1>8 DEF StoresNext, Serve

\* After a crash the pool is new.
LEMMA PoolReset == Init' => PoolInv'
PROOF BY PoolInit, PTL

LEMMA StoresPoolStep == PoolInv /\ [StoresNext]_svars => PoolInv'
PROOF BY PoolStep, PoolReset, StoresAndPool

\* A task at work: neither before get_connection nor after Drop.
Busy(s) == s \notin {"idle", "release"}

\* A step of one task sets no other to work.
LEMMA OthersStay ==
    ASSUME PoolInv, NEW t \in Tasks,
           Acquire(t) \/ Timeout(t) \/ Run(t) \/ Cancel(t), NEW u \in Tasks, u # t, Busy(pc'[u])
    PROVE  Busy(pc[u])
PROOF
  <1>0. TypeOK /\ QueueExact
    BY DEF PoolInv
  <1>1. ASSUME PassPermit(t, "idle") PROVE Busy(pc[u])
    <2>1. CASE queue = <<>>
      BY <1>0, <1>1, <2>1 DEF PassPermit, Busy, TypeOK
    <2>2. CASE queue # <<>>
      <3>1. Head(queue) \in Tasks /\ pc[Head(queue)] = "waiting"
        BY <1>0, <2>2, FirstWaits
      <3>2. pc' = [pc EXCEPT ![t] = "idle", ![Head(queue)] = "permit"]
        BY <1>1, <2>2 DEF PassPermit
      <3> QED BY <1>0, <3>1, <3>2 DEF Busy, TypeOK
    <2> QED BY <2>1, <2>2
  <1>2. CASE Acquire(t) \/ Timeout(t) \/ LockPool(t) \/ Pop(t) \/ Connect(t) \/ DropConnection(t)
    BY <1>0, <1>2 DEF Acquire, Timeout, LeaveQueue, LockPool, Pop, Connect, DropConnection, Busy, TypeOK
  <1>3. CASE ConnectFails(t) \/ ReleasePermit(t) \/ Cancel(t)
    BY <1>0, <1>1, <1>3 DEF ConnectFails, ReleasePermit, Cancel, LeaveQueue, Busy, TypeOK
  <1> QED BY <1>2, <1>3 DEF Run

\* A step of task t, whose remaining work becomes w.
LEMMA JobsKept ==
    ASSUME JobsInv, NEW t \in Tasks, NEW w, job' = [job EXCEPT ![t] = w],
           Grows(tables, columns, tables', columns'), Longer(calls, calls'),
           Len(calls) \in Nat, Len(calls') \in Nat, "here" \in opened' <=> "here" \in opened,
           w # <<>> => IF "here" \in opened THEN WorkOK(w, calls') ELSE OpenOK(w, tables', columns'),
           w # <<>> /\ "here" \notin opened => \A u \in Tasks : u # t => job[u] = <<>>,
           Busy(pc'[t]) => w # <<>>,
           \A u \in Tasks : u # t /\ Busy(pc'[u]) => Busy(pc[u])
    PROVE  JobsInv'
PROOF
  <1>0. \A u \in Tasks : job'[u] = IF u = t THEN w ELSE job[u]
    BY DEF JobsInv
  <1>1. job' = [u \in Tasks |-> job'[u]]
    BY DEF JobsInv
  <1>2. ASSUME NEW u \in Tasks, Busy(pc'[u]) PROVE job'[u] # <<>>
    BY <1>0, <1>2 DEF JobsInv, Busy
  <1>3. ASSUME NEW u \in Tasks, job'[u] # <<>>
        PROVE  IF "here" \in opened' THEN WorkOK(job'[u], calls') ELSE OpenOK(job'[u], tables', columns')
    <2>1. CASE u = t
      BY <1>0, <1>3, <2>1
    <2>2. CASE u # t
      BY <1>0, <1>3, <2>2, WorkGrows, OpenGrows DEF JobsInv
    <2> QED BY <2>1, <2>2
  <1>4. ASSUME NEW u \in Tasks, NEW v \in Tasks, "here" \notin opened', job'[u] # <<>>, job'[v] # <<>>
        PROVE  u = v
    BY <1>0, <1>4 DEF JobsInv
  <1> QED BY <1>1, <1>2, <1>3, <1>4 DEF JobsInv, Busy

\* Nothing happens to the database.
LEMMA NothingGrows ==
    ASSUME UNCHANGED stores, CallsOK(calls)
    PROVE  /\ Grows(tables, columns, tables', columns') /\ Longer(calls, calls')
           /\ Len(calls) \in Nat /\ Len(calls') \in Nat
PROOF
  <1>1. Len(calls) \in Nat
    BY LenProperties DEF CallsOK
  <1> QED BY <1>1 DEF stores, Grows, Longer

\* A step of a task that leaves the database alone.
LEMMA TaskStep ==
    ASSUME StoresInv, PoolInv', NEW t \in Tasks, NEW w, job' = [job EXCEPT ![t] = w],
           UNCHANGED stores, Others, conn' \subseteq {"off", "busy"},
           w # <<>> => IF "here" \in opened THEN WorkOK(w, calls) ELSE OpenOK(w, tables, columns),
           w # <<>> /\ "here" \notin opened => \A u \in Tasks : u # t => job[u] = <<>>,
           Busy(pc'[t]) => w # <<>>,
           \A u \in Tasks : u # t /\ Busy(pc'[u]) => Busy(pc[u])
    PROVE  StoresInv'
PROOF
  <1>0. JobsInv /\ CallsOK(calls)
    BY DEF StoresInv, RecordsInv
  <1>1. JobsInv'
    BY <1>0, NothingGrows, JobsKept DEF Others, stores
  <1> QED BY <1>1 DEF StoresInv, RecordsInv, OpenIsComplete, Others, stores

\* The first connection of an operation.
LEMMA InvokeStep == ASSUME StoresInv, PoolInv', NEW t \in Tasks, Invoke(t) PROVE StoresInv'
PROOF
  <1> DEFINE w == IF "here" \in opened THEN AnyJob ELSE AgentFSOpen
  <1>0. PoolInv /\ JobsInv /\ Acquire(t)
    BY DEF StoresInv, Invoke
  <1>1. job' = [job EXCEPT ![t] = w] /\ UNCHANGED stores /\ Others /\ conn' = conn
    BY DEF Invoke
  <1>2. ASSUME "here" \in opened PROVE WorkOK(w, calls) /\ w # <<>>
    <2>1. <<<<"any">>>> \in Seq(PlainStmts)
      BY DEF PlainStmts
    <2> QED BY <1>2, <2>1 DEF WorkOK, AnyJob
  <1>3. ASSUME "here" \notin opened
        PROVE  OpenOK(w, tables, columns) /\ w # <<>> /\ \A u \in Tasks : job[u] = <<>>
    BY <1>3, OpenProgram DEF Invoke, OpenOK
  <1>4. \A u \in Tasks : u # t /\ Busy(pc'[u]) => Busy(pc[u])
    BY <1>0, OthersStay
  <1> HIDE DEF w
  <1> QED BY <1>0, <1>1, <1>2, <1>3, <1>4, TaskStep DEF StoresInv

\* The steps of get_connection and of Drop in an operation that goes on.
LEMMA ConnectionStep ==
    ASSUME StoresInv, PoolInv', NEW t \in Tasks,
           Again(t) \/ GetConnection(t) \/ NewConnection(t) \/ Release(t)
    PROVE  StoresInv'
PROOF
  <1>0. PoolInv /\ JobsInv
    BY DEF StoresInv
  <1>1. UNCHANGED <<job, stores>> /\ Others /\ conn' \in {conn, {}}
    BY DEF Again, GetConnection, NewConnection, Release
  <1>2. Acquire(t) \/ Run(t)
    BY DEF Again, GetConnection, NewConnection, Release, Run
  <1>3. job' = [job EXCEPT ![t] = job[t]]
    BY <1>0, <1>1 DEF JobsInv
  <1>4. \A u \in Tasks : u # t /\ Busy(pc'[u]) => Busy(pc[u])
    BY <1>0, <1>2, OthersStay
  <1>5. Busy(pc'[t]) => job[t] # <<>>
    <2>1. CASE Again(t)
      BY <2>1 DEF Again
    <2>2. CASE GetConnection(t) \/ NewConnection(t)
      BY <1>0, <2>2 DEF GetConnection, NewConnection, LockPool, Pop, Connect, JobsInv
    <2>3. CASE Release(t)
      <3>1. pc[t] = "release" /\ PassPermit(t, "idle")
        BY <2>3 DEF Release, ReleasePermit
      <3>2. pc'[t] = "idle"
        BY <1>0, <3>1, PermitPassed DEF PoolInv
      <3> QED BY <3>2 DEF Busy
    <2> QED BY <2>1, <2>2, <2>3
  <1>6. /\ job[t] # <<>> => IF "here" \in opened THEN WorkOK(job[t], calls) ELSE OpenOK(job[t], tables, columns)
        /\ job[t] # <<>> /\ "here" \notin opened => \A u \in Tasks : u # t => job[u] = <<>>
    BY <1>0 DEF JobsInv
  <1>7. conn' \subseteq {"off", "busy"}
    BY <1>1 DEF StoresInv
  <1> QED BY <1>1, <1>3, <1>4, <1>5, <1>6, <1>7, TaskStep

\* An operation that ends early: time-out, failed connect, dropped future, failed statement.
LEMMA EndEarly ==
    ASSUME StoresInv, PoolInv', NEW t \in Tasks, GiveUp(t) \/ Abandon(t)
    PROVE  StoresInv'
PROOF
  <1>0. PoolInv /\ TypeOK /\ QueueExact
    BY DEF StoresInv, PoolInv
  <1>1. job' = [job EXCEPT ![t] = <<>>] /\ UNCHANGED stores /\ Others /\ conn' = conn
    BY DEF GiveUp, Abandon
  <1>2. \A u \in Tasks : u # t /\ Busy(pc'[u]) => Busy(pc[u])
    BY <1>0, OthersStay DEF GiveUp, Abandon, Run
  <1>3. ~Busy(pc'[t])
    <2>1. CASE Abandon(t)
      BY <1>0, <2>1 DEF Abandon, DropConnection, Busy, TypeOK
    <2>2. CASE LeaveQueue(t)
      BY <1>0, <2>2 DEF LeaveQueue, Busy, TypeOK
    <2>3. ASSUME PassPermit(t, "idle"), pc[t] # "waiting" PROVE ~Busy(pc'[t])
      BY <1>0, <2>3, PermitPassed DEF Busy
    <2> QED BY <2>1, <2>2, <2>3 DEF GiveUp, Timeout, ConnectFails, Cancel
  <1> QED BY <1>1, <1>2, <1>3, TaskStep DEF StoresInv

\* The operation of an open instance looks at its arguments.
LEMMA ChooseStep == ASSUME StoresInv, PoolInv', NEW t \in Tasks, Choose(t) PROVE StoresInv'
PROOF
  <1>0. JobsInv /\ now \in 0 .. MaxTime
    BY DEF StoresInv, RecordsInv
  <1>1. /\ pc[t] = "held" /\ job[t] = AnyJob /\ UNCHANGED stores /\ UNCHANGED pc /\ Others /\ conn' = conn
    BY DEF Choose, vars
  <1>2. PICK j \in KvJobs \cup LogJobs \cup {fsync} : job' = [job EXCEPT ![t] = j]
    BY DEF Choose
  <1>3. "here" \in opened
    <2>1. job[t] # <<>> /\ job[t][1] = <<<<"any">>>> /\ job[t] = <<<<<<"any">>>>>>
      BY <1>1 DEF AnyJob
    <2>2. ASSUME "here" \notin opened PROVE FALSE
      <3>1. OpenOK(job[t], tables, columns)
        BY <1>0, <2>1, <2>2 DEF JobsInv
      <3>2. job[t] \in Seq(Seq(OpenStmts)) /\ Len(job[t]) = 1
        BY <2>1, <3>1 DEF OpenOK
      <3>3. job[t][1] \in Seq(OpenStmts) /\ Len(job[t][1]) = 1
        BY <2>1, <3>2, ElementOfSeq
      <3>4. job[t][1][1] \in OpenStmts
        BY <3>3, ElementOfSeq
      <3>5. job[t][1][1] = <<"any">>
        BY <2>1
      <3> QED BY <3>4, <3>5 DEF OpenStmts
    <2> QED BY <2>2
  <1>4. WorkOK(j, calls) /\ j # <<>>
    <2>1. CASE j \in KvJobs
      <3>1. ASSUME NEW s \in PlainStmts, j = <<<<s>>>> PROVE WorkOK(j, calls) /\ j # <<>>
        BY <3>1 DEF WorkOK
      <3>2. \E s \in PlainStmts : j = <<<<s>>>>
        BY <2>1 DEF KvJobs, PlainStmts
      <3> QED BY <3>1, <3>2
    <2>2. CASE j \in LogJobs
      <3>1. ASSUME NEW s \in PlainStmts, j = <<<<s>>>> PROVE WorkOK(j, calls) /\ j # <<>>
        BY <3>1 DEF WorkOK
      <3>2. ASSUME NEW id \in 1 .. MaxCalls, NEW st \in {"success", "error"}, j = Report(id, st)
            PROVE  WorkOK(j, calls) /\ j # <<>>
        BY <1>0, <3>2 DEF WorkOK, Report
      <3>3. \/ \E s \in PlainStmts : j = <<<<s>>>>
            \/ \E id \in 1 .. MaxCalls, st \in {"success", "error"} : j = Report(id, st)
        <4>1. CASE j \in {<<<<<<"start", now>>>>>>, <<<<<<"read">>>>>>}
          BY <1>0, <4>1 DEF PlainStmts
        <4>2. ASSUME NEW s \in 0 .. MaxTime, NEW e \in BOOLEAN, j = <<<<<<"record", s, now, e>>>>>>
              PROVE  \E x \in PlainStmts : j = <<<<x>>>>
          <5>1. <<"record", s, now, e>> \in PlainStmts
            BY <1>0 DEF PlainStmts
          <5> QED BY <4>2, <5>1
        <4> QED BY <2>2, <4>1, <4>2 DEF LogJobs
      <3> QED BY <3>1, <3>2, <3>3
    <2>3. CASE j = fsync
      <3>1. <<<<"pragma", "full">>, <<"begin">>, <<"commit">>, <<"pragma", "off">>>> \in Seq(PlainStmts)
        <4>1. /\ <<"pragma", "full">> \in PlainStmts /\ <<"begin">> \in PlainStmts
              /\ <<"commit">> \in PlainStmts /\ <<"pragma", "off">> \in PlainStmts
          BY DEF PlainStmts
        <4> QED BY <4>1
      <3> QED BY <2>3, <3>1 DEF WorkOK, fsync
    <2> QED BY <2>1, <2>2, <2>3
  <1>5. conn' \subseteq {"off", "busy"}
    BY <1>1 DEF StoresInv
  <1> QED BY <1>1, <1>2, <1>3, <1>4, <1>5, TaskStep

\* A statement of AgentFS::open.
LEMMA OpenStatement ==
    ASSUME StoresInv, NEW t \in Tasks, Statement(t), "here" \notin opened
    PROVE  /\ SchemaOK(tables', columns') /\ Grows(tables, columns, tables', columns')
           /\ UNCHANGED <<kv, calls>>
           /\ \E w : /\ job' = [job EXCEPT ![t] = w] /\ OpenOK(w, tables', columns')
                     /\ Pending(job[t], <<"pragma", "busy">>) =>
                           Pending(w, <<"pragma", "busy">>) \/ "busy" \in conn'
           /\ conn' = conn \/ (conn' = conn \cup {"off"}) \/ (conn' = conn \cup {"busy"})
PROOF
  <1> DEFINE j == job[t]
             sec == j[1]
             s == sec[1]
             w == [j EXCEPT ![1] = Rest(sec)]
  <1>0. /\ JobsInv /\ j # <<>> /\ OpenOK(j, tables, columns) /\ SchemaOK(tables, columns)
        /\ Head(j) = sec /\ sec # <<>> /\ Head(sec) = s
    BY DEF StoresInv, JobsInv, Statement, AtStatement
  <1>1. sec \in Seq(OpenStmts) /\ Len(sec) \in Nat \ {0} /\ 1 \in 1 .. Len(j)
    <2>1. j \in Seq(Seq(OpenStmts)) /\ Len(j) \in Nat \ {0} /\ 1 \in 1 .. Len(j)
      BY <1>0, EmptySeq DEF OpenOK
    <2>2. sec \in Seq(OpenStmts)
      BY <2>1, ElementOfSeq
    <2> QED BY <1>0, <2>1, <2>2, EmptySeq
  <1>2. s \in OpenStmts /\ 1 \in 1 .. Len(sec)
    BY <1>1, ElementOfSeq
  <1>3. Succeeds(s) /\ Execute(s) /\ conn' = Pragma(s) /\ job' = [job EXCEPT ![t][1] = Rest(sec)]
    BY <1>0 DEF Statement
  <1>4. s[1] = "alter" => NotOld(tables, columns) /\ "fs_inode" \in tables
    <2>1. SUFFICES ASSUME s[1] = "alter" PROVE NotOld(tables, columns) /\ "fs_inode" \in tables
      OBVIOUS
    <2>2. OrderOK(sec, tables) /\ ~InSection(sec, <<"version">>)
      BY <1>0, <1>1, <1>2, <2>1 DEF OpenOK
    <2>3. NotOld(tables, columns)
      BY <1>0, <2>2 DEF OpenOK
    <2>4. ~Before(sec, 1, <<"create", "fs_inode">>)
      BY DEF Before
    <2> QED BY <1>2, <2>1, <2>2, <2>3, <2>4 DEF OrderOK
  <1> HIDE DEF s, sec, j, w
  <1>5. s[1] # "migrate" /\ s[1] # "started"
    BY <1>2 DEF OpenStmts
  <1>6. /\ SchemaOK(tables', columns') /\ Grows(tables, columns, tables', columns')
        /\ Effect(s, tables', columns') /\ UNCHANGED <<kv, calls>>
    BY <1>0, <1>2, <1>3, <1>4, <1>5, SchemaStatement
  <1>7. job' = [job EXCEPT ![t] = w]
    BY <1>3 DEF w, j
  <1>8. \/ Rest(sec) = Tail(sec)
        \/ s = <<"exists">> /\ Rest(sec) = Tail(Tail(sec)) /\ NotOld(tables', columns')
    <2>1. CASE s[1] = "exists" /\ "fs_inode" \notin tables
      <3>1. s = <<"exists">>
        BY <1>2, <2>1 DEF OpenStmts
      <3>2. NotOld(tables, columns)
        BY <1>0, <2>1 DEF SchemaOK, NotOld
      <3> QED BY <1>0, <1>6, <2>1, <3>1, <3>2 DEF Rest, Grows
    <2>2. CASE ~(s[1] = "exists" /\ "fs_inode" \notin tables)
      BY <1>0, <1>5, <2>2 DEF Rest
    <2> QED BY <2>1, <2>2
  <1>9. OpenOK(w, tables', columns') /\ \A x : Pending(j, x) /\ x # <<"version">> => x = s \/ Pending(w, x)
    BY <1>0, <1>6, <1>8, OpenAdvances DEF w, sec, s
  <1>10. conn' = conn \/ (conn' = conn \cup {"off"}) \/ (conn' = conn \cup {"busy"})
    BY <1>2, <1>3 DEF Pragma, OpenStmts
  <1>11. Pending(j, <<"pragma", "busy">>) => Pending(w, <<"pragma", "busy">>) \/ "busy" \in conn'
    <2>1. s = <<"pragma", "busy">> => "busy" \in conn'
      BY <1>3 DEF Pragma
    <2> QED BY <1>9, <2>1
  <1> QED BY <1>6, <1>7, <1>9, <1>10, <1>11 DEF j

\* A statement of either kind of operation.
LEMMA StatementStep == ASSUME StoresInv, PoolInv', NEW t \in Tasks, Statement(t) PROVE StoresInv'
PROOF
  <1>0. JobsInv /\ RecordsInv /\ CallsOK(calls) /\ Len(calls) \in Nat /\ job[t] # <<>> /\ UNCHANGED pc /\ Others
    <2>1. CallsOK(calls)
      BY DEF StoresInv, RecordsInv
    <2>2. Len(calls) \in Nat
      BY <2>1, LenProperties DEF CallsOK
    <2> QED BY <2>1, <2>2 DEF StoresInv, JobsInv, Statement, AtStatement, vars
  <1>1. ASSUME SchemaOK(tables', columns'), Grows(tables, columns, tables', columns'),
               CallsOK(calls'), KvOK(kv', now), Longer(calls, calls'),
               NEW w, job' = [job EXCEPT ![t] = w], w # <<>>, conn' \subseteq {"off", "busy"},
               IF "here" \in opened THEN WorkOK(w, calls') ELSE OpenOK(w, tables', columns')
        PROVE  StoresInv'
    <2>1. Len(calls') \in Nat
      BY <1>1, LenProperties DEF CallsOK
    <2>2. JobsInv'
      <3>1. "here" \notin opened => \A u \in Tasks : u # t => job[u] = <<>>
        BY <1>0 DEF JobsInv
      <3>2. opened' = opened /\ pc' = pc
        BY <1>0 DEF Others
      <3> QED BY <1>0, <1>1, <2>1, <3>1, <3>2, JobsKept
    <2>3. CliOK(cli', tables', columns')
      BY <1>0, <1>1, CliGrows DEF StoresInv, Others
    <2>4. OpenIsComplete'
      BY <1>0, <1>1 DEF StoresInv, OpenIsComplete, Others, Grows, SchemaOK
    <2>5. RecordsInv'
      BY <1>0, <1>1 DEF RecordsInv, Others
    <2> QED BY <1>0, <1>1, <2>2, <2>3, <2>4, <2>5 DEF StoresInv, Others
  <1>2. CASE "here" \notin opened
    <2>1. /\ SchemaOK(tables', columns') /\ Grows(tables, columns, tables', columns')
          /\ UNCHANGED <<kv, calls>>
          /\ \E w : job' = [job EXCEPT ![t] = w] /\ OpenOK(w, tables', columns')
          /\ conn' = conn \/ (conn' = conn \cup {"off"}) \/ (conn' = conn \cup {"busy"})
      BY <1>2, OpenStatement
    <2>2. PICK w : job' = [job EXCEPT ![t] = w] /\ OpenOK(w, tables', columns')
      BY <2>1
    <2>3. conn' \subseteq {"off", "busy"} /\ w # <<>>
      BY <2>1, <2>2 DEF StoresInv, OpenOK
    <2>4. Longer(calls, calls') /\ CallsOK(calls') /\ KvOK(kv', now)
      BY <1>0, <2>1 DEF Longer, RecordsInv
    <2> QED BY <1>1, <1>2, <2>1, <2>2, <2>3, <2>4
  <1>3. CASE "here" \in opened
    <2> DEFINE sec == job[t][1]
               s == Head(sec)
    <2>1. WorkOK(job[t], calls) /\ job[t] = <<sec>> /\ sec # <<>>
      BY <1>0, <1>3 DEF JobsInv, WorkOK, Statement, AtStatement
    <2>2. Succeeds(s) /\ Execute(s) /\ conn' = Pragma(s) /\ job' = [job EXCEPT ![t][1] = Rest(sec)]
      BY <2>1 DEF Statement
    <2>3. job' = [job EXCEPT ![t] = <<Rest(sec)>>]
      <3>1. ASSUME NEW j, NEW x, NEW r, j = <<x>> PROVE [j EXCEPT ![1] = r] = <<r>>
        BY <3>1
      <3>2. job' = [job EXCEPT ![t] = [job[t] EXCEPT ![1] = Rest(sec)]]
        BY <2>2
      <3> HIDE DEF sec
      <3>3. [job[t] EXCEPT ![1] = Rest(sec)] = <<Rest(sec)>>
        BY <2>1, <3>1
      <3> QED BY <3>2, <3>3
    <2>4. conn' \subseteq {"off", "busy"}
      <3>1. CASE sec \in Seq(PlainStmts)
        <4>1. s \in PlainStmts
          BY <2>1, <3>1, HeadTailProperties
        <4> HIDE DEF s
        <4>2. s[1] = "pragma" => s[2] \in {"full", "off"}
          BY <4>1 DEF PlainStmts
        <4> QED BY <2>2, <4>2 DEF StoresInv, Pragma
      <3>2. CASE s[1] # "pragma"
        BY <2>2, <3>2 DEF StoresInv, Pragma
      <3> QED BY <2>1, <3>1, <3>2 DEF WorkOK
    <2> HIDE DEF s, sec
    <2>5. /\ UNCHANGED <<tables, columns>> /\ CallsOK(calls') /\ KvOK(kv', now)
          /\ Longer(calls, calls') /\ WorkOK(<<Rest(sec)>>, calls')
      BY <1>0, <2>1, <2>2, WorkStatement DEF s
    <2>6. Grows(tables, columns, tables', columns') /\ SchemaOK(tables', columns')
      BY <2>5 DEF Grows, StoresInv
    <2> QED BY <1>1, <1>3, <2>3, <2>4, <2>5, <2>6
  <1> QED BY <1>2, <1>3

\* A connection goes out of scope; with the last one AgentFS::open returns Ok.
LEMMA EndSectionStep == ASSUME StoresInv, PoolInv', NEW t \in Tasks, EndSection(t) PROVE StoresInv'
PROOF
  <1> DEFINE j == job[t]
  <1>0. /\ PoolInv /\ TypeOK /\ JobsInv /\ CallsOK(calls) /\ j # <<>> /\ Head(j) = j[1] /\ j[1] = <<>>
        /\ pc[t] = "held" /\ DropConnection(t) /\ UNCHANGED stores
        /\ job' = [job EXCEPT ![t] = Tail(j)] /\ UNCHANGED <<conn, now, cli>>
        /\ opened' = IF Len(j) = 1 THEN opened \cup {"here"} ELSE opened
    BY DEF StoresInv, PoolInv, RecordsInv, JobsInv, EndSection
  <1>1. ~Busy(pc'[t]) /\ \A u \in Tasks : u # t /\ Busy(pc'[u]) => Busy(pc[u])
    BY <1>0 DEF DropConnection, Busy, TypeOK
  <1>2. CASE "here" \in opened
    <2>1. Len(j) = 1 /\ Tail(j) = <<>>
      <3>1. WorkOK(j, calls)
        BY <1>0, <1>2 DEF JobsInv
      <3>2. j = <<j[1]>>
        BY <3>1 DEF WorkOK
      <3>3. ASSUME NEW x, NEW y, y = <<x>> PROVE Len(y) = 1 /\ Tail(y) = <<>>
        BY <3>3
      <3> HIDE DEF j
      <3> QED BY <3>2, <3>3
    <2>2. Others
      BY <1>0, <1>2, <2>1 DEF Others
    <2> HIDE DEF j
    <2> QED BY <1>0, <1>1, <2>1, <2>2, TaskStep DEF StoresInv
  <1>3. CASE "here" \notin opened
    <2>1. OpenOK(j, tables, columns) /\ \A u \in Tasks : u # t => job[u] = <<>>
      BY <1>0, <1>3 DEF JobsInv
    <2>2. /\ NotOld(tables, columns)
          /\ Len(j) # 1 => OpenOK(Tail(j), tables, columns)
          /\ Len(j) = 1 => (\A x \in AllTables : x \in tables) /\ Tail(j) = <<>>
      BY <1>0, <2>1, OpenNextSection
    <2> HIDE DEF j
    <2>3. CASE Len(j) # 1
      BY <1>0, <1>1, <1>3, <2>1, <2>2, <2>3, TaskStep DEF StoresInv, Others
    <2>4. CASE Len(j) = 1
      <3>1. tables = AllTables /\ columns = Columns
        BY <2>2, <2>4 DEF StoresInv, SchemaOK, NotOld, AllTables
      <3>2. \A u \in Tasks : job'[u] = <<>>
        BY <1>0, <2>1, <2>2, <2>4 DEF JobsInv
      <3>3. JobsInv'
        <4>1. \A u \in Tasks : ~Busy(pc'[u])
          BY <1>0, <1>1, <2>1 DEF JobsInv, Busy
        <4>2. job' = [u \in Tasks |-> job'[u]]
          BY <1>0 DEF JobsInv
        <4> QED BY <3>2, <4>1, <4>2 DEF JobsInv, Busy
      <3> QED BY <1>0, <3>1, <3>3 DEF StoresInv, RecordsInv, OpenIsComplete, stores
    <2> QED BY <2>3, <2>4
  <1> QED BY <1>2, <1>3

\* The other process: what it adds is added in an order that every program here expects.
LEMMA CliStep ==
    ASSUME StoresInv, PoolInv', CliStart \/ CliStatement \/ CliStops
    PROVE  StoresInv'
PROOF
  <1>0. /\ JobsInv /\ CallsOK(calls) /\ Len(calls) \in Nat /\ SchemaOK(tables, columns)
        /\ CliOK(cli, tables, columns) /\ UNCHANGED <<pc, job, conn, kv, calls, now>>
    <2>1. CallsOK(calls)
      BY DEF StoresInv, RecordsInv
    <2>2. Len(calls) \in Nat
      BY <2>1, LenProperties DEF CallsOK
    <2> QED BY <2>1, <2>2 DEF StoresInv, CliStart, CliStatement, CliStops, Elsewhere, vars
  \* Any step that only adds to the database.
  <1>1. ASSUME SchemaOK(tables', columns'), Grows(tables, columns, tables', columns'),
               CliOK(cli', tables', columns'),
               \/ UNCHANGED opened
               \/ opened' = opened \cup {"there"} /\ tables' = AllTables /\ columns' = Columns
        PROVE  StoresInv'
    <2>1. "here" \in opened' <=> "here" \in opened
      BY <1>1
    <2>2. \A u \in Tasks : job[u] # <<>> =>
            IF "here" \in opened' THEN WorkOK(job[u], calls) ELSE OpenOK(job[u], tables', columns')
      BY <1>0, <1>1, <2>1, OpenGrows DEF JobsInv
    <2>3. JobsInv'
      BY <1>0, <2>1, <2>2 DEF JobsInv
    <2>4. OpenIsComplete'
      BY <1>1 DEF StoresInv, OpenIsComplete, Grows, SchemaOK
    <2> QED BY <1>0, <1>1, <2>3, <2>4 DEF StoresInv, RecordsInv
  <1>2. ASSUME UNCHANGED <<tables, columns, opened>>, CliOK(cli', tables, columns) PROVE StoresInv'
    BY <1>0, <1>1, <1>2 DEF Grows
  <1>3. CliOK(<<>>, tables, columns)
    BY EmptySeq DEF CliOK, OrderOK
  <1>4. CASE CliStart
    <2>1. CASE cli' = handle_migrate_command
      <3> DEFINE c == handle_migrate_command
      <3>1. /\ c \in Seq(OpenStmts \cup MigrateStmts) /\ Len(c) = 2
            /\ c[1] = <<"exists">> /\ c[2] = <<"detect">>
        BY DEF handle_migrate_command, OpenStmts, MigrateStmts
      <3> HIDE DEF c
      <3>2. \A b \in 1 .. 2 : b = 1 \/ b = 2
        OBVIOUS
      <3>3. OrderOK(c, tables)
        BY <3>1, <3>2 DEF OrderOK
      <3>4. CliOK(c, tables, columns)
        BY <3>1, <3>2, <3>3 DEF CliOK
      <3> QED BY <1>2, <1>4, <2>1, <3>4 DEF CliStart, c
    <2>2. CASE cli' = detect \o kv_initialize \o from_pool \o tools_initialize \o <<<<"opened">>>>
      <3>1. CliOK(cli', tables, columns)
        BY <2>2, CliOpenProgram, Zenon
      <3> QED BY <1>2, <1>4, <3>1 DEF CliStart
    <2> QED BY <1>4, <2>1, <2>2 DEF CliStart
  <1>5. CASE CliStops
    BY <1>2, <1>3, <1>5 DEF CliStops
  <1>6. CASE CliStatement
    <2> DEFINE s == cli[1]
    <2>1. /\ cli \in Seq(OpenStmts \cup MigrateStmts) /\ cli # <<>> /\ Len(cli) \in Nat \ {0}
          /\ Head(cli) = s /\ OrderOK(cli, tables)
      BY <1>0, <1>6, EmptySeq DEF CliOK, CliStatement
    <2>2. s \in OpenStmts \cup MigrateStmts /\ 1 \in 1 .. Len(cli)
      BY <2>1, ElementOfSeq
    <2>3. CASE ~Succeeds(s)
      BY <1>2, <1>3, <1>6, <2>1, <2>3 DEF CliStatement
    <2>4. CASE Succeeds(s)
      <3>1. /\ Execute(s) /\ cli' = CliRest
            /\ opened' = IF s = <<"opened">> THEN opened \cup {"there"} ELSE opened
        BY <1>6, <2>1, <2>4 DEF CliStatement
      <3>2. \A x : ~Before(cli, 1, x)
        BY DEF Before
      <3>3. s[1] = "alter" => NotOld(tables, columns) /\ "fs_inode" \in tables
        BY <1>0, <2>1, <2>2, <3>2 DEF CliOK, OrderOK
      <3>4. s[1] = "migrate" => s[2] = "nlink" \/ "nlink" \in columns
        BY <1>0, <2>2, <3>2 DEF CliOK
      <3> HIDE DEF s
      <3>5. /\ SchemaOK(tables', columns') /\ Grows(tables, columns, tables', columns')
            /\ Effect(s, tables', columns')
        BY <1>0, <2>2, <2>4, <3>1, <3>3, <3>4, SchemaStatement
      <3>6. ASSUME s = <<"opened">>
            PROVE  /\ opened' = opened \cup {"there"} /\ tables' = AllTables /\ columns' = Columns
        <4>1. /\ Len(cli) = 1
              /\ \A x \in AllTables \ {"root"} : x \in tables \/ InSection(cli, <<"create", x>>)
              /\ "root" \in tables \/ InSection(cli, <<"root">>)
              /\ NotOld(tables, columns) \/ InSection(cli, <<"version">>)
          BY <1>0, <2>2, <3>6 DEF CliOK, s
        <4>2. \A x : InSection(cli, x) => x = <<"opened">>
          BY <3>6, <4>1 DEF InSection, s
        <4>3. \A x \in AllTables : x \in tables
          BY <4>1, <4>2
        <4>4. columns = Columns
          BY <4>1, <4>2, <4>3 DEF NotOld, AllTables
        <4> QED BY <3>1, <3>5, <3>6, <4>3, <4>4 DEF Grows, SchemaOK
      <3>7. CliOK(cli', tables', columns')
        <4>0. SchemaOK(tables, columns) /\ Version \in {"0.0", "0.2", "0.4"}
              /\ (Version = "0.2" => "nlink" \in columns)
          BY <1>0 DEF Version
        <4>1. CASE s = <<"exists">> /\ cli[2] = <<"detect">> /\ "fs_inode" \notin tables
          <5>1. cli' = apply_migrations("0.0") \o <<<<"stored">>>>
            BY <2>1, <3>1, <4>1 DEF CliRest
          <5> QED BY <5>1, MigrateProgram, Zenon
        <4>2. CASE s = <<"detect">>
          <5> DEFINE v == Version
                     z == IF v = "0.4" THEN <<>> ELSE <<<<"stored">>>>
          <5>1. cli' = apply_migrations(v) \o z
            BY <2>1, <3>1, <4>2 DEF CliRest
          <5>2. z = <<<<"stored">>>> \/ (z = <<>> /\ v = "0.4")
            OBVIOUS
          <5>3. "nlink" \in columns => "nlink" \in columns'
            BY <3>5 DEF Grows
          <5>4. v \in {"0.0", "0.2", "0.4"} /\ (v = "0.2" => "nlink" \in columns')
            BY <4>0, <5>3
          <5> HIDE DEF v, z
          <5>5. CliOK(apply_migrations(v) \o z, tables', columns')
            BY <5>2, <5>4, MigrateProgram
          <5> QED BY <5>1, <5>5
        <4>3. CASE ~(s = <<"exists">> /\ cli[2] = <<"detect">> /\ "fs_inode" \notin tables) /\ s # <<"detect">>
          <5>1. cli' = Rest(cli)
            BY <2>1, <3>1, <4>3 DEF CliRest
          <5>2. s[1] # "started"
            BY <2>2 DEF OpenStmts, MigrateStmts
          <5>3. CASE s[1] = "exists" /\ "fs_inode" \notin tables
            <6>1. s = <<"exists">>
              BY <2>2, <5>3 DEF OpenStmts, MigrateStmts
            <6>2. cli[2] = <<"version">>
              BY <2>1, <2>2, <4>3, <5>3, <6>1 DEF OrderOK, s
            <6>3. cli' = Tail(Tail(cli))
              BY <2>1, <5>1, <5>3 DEF Rest
            <6>4. NotOld(tables', columns')
              BY <1>0, <3>5, <5>3 DEF NotOld, SchemaOK, Grows
            <6> QED BY <1>0, <2>1, <3>5, <6>1, <6>2, <6>3, <6>4, CliAdvances DEF s
          <5>4. CASE ~(s[1] = "exists" /\ "fs_inode" \notin tables)
            <6>1. cli' = Tail(cli)
              BY <2>1, <5>1, <5>2, <5>4 DEF Rest
            <6> QED BY <1>0, <2>1, <3>5, <6>1, CliAdvances DEF s
          <5> QED BY <5>3, <5>4
        <4> QED BY <4>1, <4>2, <4>3
      <3> QED BY <1>1, <3>1, <3>5, <3>6, <3>7
    <2> QED BY <2>3, <2>4
  <1> QED BY <1>4, <1>5, <1>6

\* The clock, and the end of the process.
LEMMA TickAndCrash == ASSUME StoresInv, PoolInv', Tick \/ Crash PROVE StoresInv'
PROOF
  <1>1. CASE Tick
    <2>1. /\ UNCHANGED <<pc, job, conn, tables, columns, kv, calls, opened, cli>>
          /\ now \in 0 .. MaxTime /\ now' = now + 1 /\ now < MaxTime
      BY <1>1 DEF Tick, vars, stores, StoresInv, RecordsInv
    <2>2. now' \in 0 .. MaxTime
      BY <2>1, StoresAssumption
    <2>3. KvOK(kv', now')
      <3>1. ASSUME NEW k \in Keys, kv[k] # <<>> PROVE kv[k][1] <= kv[k][2] /\ kv[k][2] <= now + 1
        <4>1. kv[k][2] \in 0 .. MaxTime /\ kv[k][1] <= kv[k][2] /\ kv[k][2] <= now
          BY <3>1 DEF StoresInv, RecordsInv, KvOK
        <4> QED BY <2>1, <4>1, StoresAssumption
      <3> QED BY <2>1, <3>1 DEF StoresInv, RecordsInv, KvOK
    <2>4. JobsInv'
      BY <2>1 DEF StoresInv, JobsInv
    <2> QED BY <2>1, <2>2, <2>3, <2>4 DEF StoresInv, RecordsInv, OpenIsComplete
  <1>2. CASE Crash
    <2>1. /\ pc' = [t \in Tasks |-> "idle"] /\ job' = [t \in Tasks |-> <<>>] /\ conn' = {}
          /\ opened' = opened \ {"here"} /\ UNCHANGED <<tables, columns, kv, calls, now, cli>>
      BY <1>2 DEF Crash, stores
    <2>2. JobsInv'
      BY <2>1 DEF JobsInv
    <2> QED BY <2>1, <2>2 DEF StoresInv, RecordsInv, OpenIsComplete
  <1> QED BY <1>1, <1>2

LEMMA StoresInitInv == StoresInit => StoresInv
PROOF
  <1> SUFFICES ASSUME StoresInit PROVE StoresInv
    OBVIOUS
  <1>1. PoolInv
    BY PoolInit DEF StoresInit
  <1>2. SchemaOK(tables, columns)
    BY DEF StoresInit, SchemaOK, AllTables, FsTables, Columns
  <1>3. RecordsInv
    BY EmptySeq, StoresAssumption DEF StoresInit, RecordsInv, CallsOK, KvOK
  <1>4. JobsInv
    BY DEF StoresInit, Init, JobsInv
  <1>5. CliOK(cli, tables, columns)
    BY EmptySeq DEF StoresInit, CliOK, OrderOK
  <1> QED BY <1>1, <1>2, <1>3, <1>4, <1>5 DEF StoresInit, StoresInv, OpenIsComplete

LEMMA StoresStep == StoresInv /\ [StoresNext]_svars => StoresInv'
PROOF
  <1> SUFFICES ASSUME StoresInv, [StoresNext]_svars PROVE StoresInv'
    OBVIOUS
  <1>0. PoolInv'
    BY StoresPoolStep DEF StoresInv
  <1>1. ASSUME NEW t \in Tasks, Invoke(t) PROVE StoresInv'
    BY <1>0, <1>1, InvokeStep
  <1>2. ASSUME NEW t \in Tasks, Serve(t) PROVE StoresInv'
    BY <1>0, <1>2, ConnectionStep, StatementStep, EndSectionStep, ChooseStep, EndEarly DEF Serve
  <1>3. ASSUME NEW t \in Tasks, GiveUp(t) \/ Abandon(t) PROVE StoresInv'
    BY <1>0, <1>3, EndEarly
  <1>4. CASE Crash \/ Tick
    BY <1>0, <1>4, TickAndCrash
  <1>5. CASE CliStart \/ CliStatement \/ CliStops
    BY <1>0, <1>5, CliStep
  <1>6. CASE UNCHANGED svars
    <2>1. UNCHANGED <<pc, job, conn, tables, columns, kv, calls, now, opened, cli>>
      BY <1>6 DEF svars
    <2>2. JobsInv'
      BY <2>1 DEF StoresInv, JobsInv
    <2> QED BY <1>0, <2>1, <2>2 DEF StoresInv, RecordsInv, OpenIsComplete
  <1> QED BY <1>1, <1>2, <1>3, <1>4, <1>5, <1>6 DEF StoresNext

LEMMA StoresInvariant == StoresSpec => []StoresInv
PROOF BY StoresInitInv, StoresStep, PTL DEF StoresSpec

\* Types of the pool, the jobs and the tables, for every number of tasks, keys, rows
\* and permits; a task in get_connection or with a connection has something to do.
THEOREM StoresTypes == StoresSpec => []StoresTypeOK
PROOF
  <1>1. StoresInv => StoresTypeOK
    BY DEF StoresInv, PoolInv, JobsInv, RecordsInv, CallsOK, KvOK, SchemaOK, StoresTypeOK
  <1> QED BY <1>1, StoresInvariant, PTL

\* Across operations, failures of statements, cancellations and crashes of the
\* process, every permit of the pool is at the semaphore or with one caller.
THEOREM StoresPermits == StoresSpec => []PermitsConserved
PROOF
  <1>1. StoresInv => PermitsConserved
    BY DEF StoresInv, PoolInv, Counted
  <1> QED BY <1>1, StoresInvariant, PTL

\* AgentFS::open returns Ok only on a database with every table, the root's row and
\* every column, whichever process made them and whatever was cut short.
THEOREM StoresOpenIsComplete == StoresSpec => []OpenIsComplete
PROOF
  <1>1. StoresInv => OpenIsComplete
    BY DEF StoresInv
  <1> QED BY <1>1, StoresInvariant, PTL

\* The rows of tool_calls and kv_store are consistent after any statements of any
\* tasks, reports of the same call at the same time included.
THEOREM StoresRecords == StoresSpec => []RecordsConsistent
PROOF
  <1>1. ASSUME StoresInv PROVE RecordsConsistent
    <2>1. calls \in Seq(Rows) /\ DOMAIN calls = 1 .. Len(calls)
      BY <1>1, LenProperties DEF StoresInv, RecordsInv, CallsOK
    <2> QED BY <1>1, <2>1 DEF StoresInv, RecordsInv, CallsOK, KvOK, RowOK, RecordsConsistent
  <1> QED BY <1>1, StoresInvariant, PTL

(***************************************************************************)
(* One permit: the connection that AgentFS::open configured stays.         *)
(***************************************************************************)
\* With one permit, two callers that have one are the same.
LEMMA OneBorrower ==
    ASSUME MaxConnections = 1, TypeOK, Counted, NEW t \in Borrowers, NEW u \in Borrowers
    PROVE  t = u
PROOF
  <1>1. /\ IsFiniteSet(Borrowers \ {t})
        /\ Cardinality(Borrowers \ {t}) = Cardinality(Borrowers) - 1
    BY FS_RemoveElement DEF Counted
  <1>2. permits \in Nat /\ Cardinality(Borrowers) \in Nat /\ Cardinality(Borrowers \ {t}) \in Nat
    BY <1>1, FS_CardinalityType DEF Counted, TypeOK
  <1>3. Cardinality(Borrowers \ {t}) = 0
    BY <1>1, <1>2 DEF Counted, PermitsConserved
  <1>4. Borrowers \ {t} = {}
    BY <1>1, <1>3, FS_EmptySet
  <1> QED BY <1>4

PoolOrder ==
    /\ lock # NoTask => pc[lock] = "locked"
    /\ \A t \in Tasks : pc[t] = "connect" => pool = 0

\* There is a connection, idle or in use.
Stocked == pool > 0 \/ \E u \in Tasks : pc[u] = "held"

\* With one permit nobody connects while there is a connection, and none is lost.
LEMMA OnePermitStep ==
    ASSUME MaxConnections = 1, PoolInv, PoolOrder, [Next]_vars
    PROVE  PoolOrder' /\ (Stocked => Stocked')
PROOF
  <1>0. TypeOK /\ QueueExact /\ Counted /\ pool \in Nat /\ (lock # NoTask => lock \in Tasks)
    BY DEF PoolInv, TypeOK
  <1>1. ASSUME NEW t \in Tasks, t \in Borrowers, NEW u \in Tasks, u \in Borrowers PROVE t = u
    BY <1>0, <1>1, OneBorrower
  <1>2. ASSUME NEW t \in Tasks, pc[t] \notin {"locked", "held", "waiting"}, PassPermit(t, "idle"),
               UNCHANGED <<pool, lock, created>>
        PROVE  PoolOrder' /\ (Stocked => Stocked')
    <2>1. \A u \in Tasks : /\ pc[u] \in {"locked", "held"} => pc'[u] = pc[u]
                           /\ pc'[u] \in {"connect"} => pc[u] = "connect"
      <3>1. CASE queue = <<>>
        BY <1>0, <1>2, <3>1 DEF PassPermit, TypeOK
      <3>2. CASE queue # <<>>
        <4>1. pc' = [pc EXCEPT ![t] = "idle", ![Head(queue)] = "permit"]
          BY <1>2, <3>2 DEF PassPermit
        <4>2. Head(queue) \in Tasks /\ pc[Head(queue)] = "waiting"
          BY <1>0, <3>2, FirstWaits
        <4> QED BY <1>0, <1>2, <4>1, <4>2 DEF TypeOK
      <3> QED BY <3>1, <3>2
    <2> QED BY <1>0, <1>2, <2>1 DEF PoolOrder, Stocked
  <1>3. ASSUME NEW t \in Tasks, pc[t] \in {"idle", "waiting"}, NEW x \in {"idle", "waiting", "permit"},
               pc' = [pc EXCEPT ![t] = x], UNCHANGED <<pool, lock, created>>
        PROVE  PoolOrder' /\ (Stocked => Stocked')
    <2>1. \A u \in Tasks : /\ pc[u] \in {"locked", "held"} => pc'[u] = pc[u]
                           /\ pc'[u] = "connect" => pc[u] = "connect"
      BY <1>0, <1>3 DEF TypeOK
    <2> QED BY <1>0, <1>3, <2>1 DEF PoolOrder, Stocked
  <1>4. ASSUME NEW t \in Tasks, Acquire(t) \/ Timeout(t) PROVE PoolOrder' /\ (Stocked => Stocked')
    <2>1. CASE Timeout(t)
      BY <1>3, <2>1 DEF Timeout, LeaveQueue
    <2>2. CASE Acquire(t)
      BY <1>3, <2>2 DEF Acquire
    <2> QED BY <1>4, <2>1, <2>2
  <1>5. ASSUME NEW t \in Tasks, Cancel(t) \/ ConnectFails(t) \/ ReleasePermit(t)
        PROVE  PoolOrder' /\ (Stocked => Stocked')
    <2>1. CASE pc[t] = "waiting" /\ LeaveQueue(t) /\ UNCHANGED <<pool, lock, created>>
      BY <1>3, <2>1 DEF LeaveQueue
    <2>2. CASE /\ pc[t] \in {"permit", "connect", "release"} /\ PassPermit(t, "idle")
               /\ UNCHANGED <<pool, lock, created>>
      BY <1>2, <2>2
    <2> QED BY <1>5, <2>1, <2>2 DEF Cancel, ConnectFails, ReleasePermit
  \* The steps of the one caller that has the permit.
  <1>6. ASSUME NEW t \in Tasks, LockPool(t) \/ Pop(t) \/ Connect(t) \/ DropConnection(t)
        PROVE  PoolOrder' /\ (Stocked => Stocked')
    <2>1. t \in Borrowers
      BY <1>6 DEF LockPool, Pop, Connect, DropConnection, Borrowers
    <2>2. \A u \in Tasks : u # t => pc'[u] = pc[u] /\ pc[u] \notin {"locked", "connect", "held"}
      BY <1>0, <1>1, <1>6, <2>1 DEF LockPool, Pop, Connect, DropConnection, Borrowers, TypeOK
    <2>3. CASE LockPool(t)
      BY <1>0, <2>2, <2>3 DEF LockPool, PoolOrder, Stocked, TypeOK
    <2>4. CASE Pop(t)
      <3>1. CASE pool > 0
        BY <1>0, <2>2, <2>4, <3>1 DEF Pop, PoolOrder, Stocked, TypeOK
      <3>2. CASE ~(pool > 0)
        BY <1>0, <2>2, <2>4, <3>2 DEF Pop, PoolOrder, Stocked, TypeOK
      <3> QED BY <3>1, <3>2
    <2>5. CASE Connect(t)
      BY <1>0, <2>2, <2>5 DEF Connect, PoolOrder, Stocked, TypeOK
    <2>6. CASE DropConnection(t)
      <3>1. lock = NoTask
        BY <1>0, <2>2, <2>6 DEF DropConnection, PoolOrder
      <3> QED BY <1>0, <2>2, <2>6, <3>1 DEF DropConnection, PoolOrder, Stocked, TypeOK
    <2> QED BY <1>6, <2>3, <2>4, <2>5, <2>6
  <1>7. CASE UNCHANGED vars
    BY <1>7 DEF vars, PoolOrder, Stocked
  <1> QED BY <1>4, <1>5, <1>6, <1>7 DEF Next, Run

\* An operation becomes one on a configured connection only by a statement that
\* configures it; no other step takes a setting away.
LEMMA SettingsStep ==
    ASSUME MaxConnections = 1, StoresInv, SettingsInv, [StoresNext]_svars
    PROVE  SettingsInv'
PROOF
  <1> DEFINE busy == <<"pragma", "busy">>
  <1>0. /\ PoolInv /\ TypeOK /\ QueueExact /\ Counted /\ JobsInv /\ PoolOrder
        /\ \A t \in Tasks : Configured(t) => "busy" \in conn /\ Stocked
    BY DEF StoresInv, PoolInv, SettingsInv, PoolOrder, Stocked
  <1>1. ASSUME [Next]_vars, "busy" \in conn => "busy" \in conn',
               \A t \in Tasks : Configured(t)' => \E v \in Tasks : Configured(v)
        PROVE  SettingsInv'
    <2>1. PoolOrder' /\ (Stocked => Stocked')
      BY <1>0, <1>1, OnePermitStep
    <2> QED BY <1>0, <1>1, <2>1 DEF SettingsInv, PoolOrder, Stocked
  \* What remains of an operation and what is open are as they were.
  <1>2. ASSUME UNCHANGED <<job, opened>> PROVE \A t \in Tasks : Configured(t)' => Configured(t)
    BY <1>2 DEF Configured
  \* Only the work of task t changes, and it is not done.
  <1>3. ASSUME NEW t \in Tasks, NEW w, job' = [job EXCEPT ![t] = w], opened' = opened,
               "here" \notin opened => w = <<>> \/ Pending(w, busy)
        PROVE  \A u \in Tasks : Configured(u)' => Configured(u)
    <2>1. \A u \in Tasks : job'[u] = IF u = t THEN w ELSE job[u]
      BY <1>0, <1>3 DEF JobsInv
    <2> QED BY <1>3, <2>1 DEF Configured
  <1>4. ASSUME NEW t \in Tasks, Invoke(t) PROVE SettingsInv'
    <2> DEFINE w == IF "here" \in opened THEN AnyJob ELSE AgentFSOpen
    <2>1. job' = [job EXCEPT ![t] = w] /\ opened' = opened /\ Next /\ conn' = conn
      BY <1>4 DEF Invoke, Others, Next
    <2>2. "here" \notin opened => Pending(w, busy)
      BY OpenProgram
    <2> HIDE DEF w
    <2>3. \A u \in Tasks : Configured(u)' => Configured(u)
      BY <1>3, <2>1, <2>2
    <2> QED BY <1>1, <2>1, <2>3
  <1>5. ASSUME NEW t \in Tasks, Again(t) \/ GetConnection(t) \/ Release(t) PROVE SettingsInv'
    <2>1. UNCHANGED <<job, opened, conn>> /\ Next
      BY <1>5 DEF Again, GetConnection, Release, Others, Next, Run
    <2> QED BY <1>1, <1>2, <2>1
  <1>6. ASSUME NEW t \in Tasks, NewConnection(t) PROVE SettingsInv'
    <2>1. UNCHANGED <<job, opened>> /\ Next /\ Connect(t)
      BY <1>6 DEF NewConnection, Others, Next, Run
    <2>2. t \in Borrowers /\ pool = 0 /\ pc[t] = "connect"
      BY <1>0, <2>1 DEF Connect, Borrowers, PoolOrder
    <2>3. \A u \in Tasks : pc[u] # "held"
      BY <1>0, <2>2, OneBorrower DEF Borrowers
    <2>4. \A u \in Tasks : ~Configured(u)
      BY <1>0, <2>2, <2>3 DEF Stocked
    <2>5. \A u \in Tasks : ~Configured(u)'
      BY <1>2, <2>1, <2>4
    <2>6. PoolOrder'
      BY <1>0, <2>1, OnePermitStep
    <2> QED BY <2>5, <2>6 DEF SettingsInv, PoolOrder
  <1>7. ASSUME NEW t \in Tasks, GiveUp(t) \/ Abandon(t) PROVE SettingsInv'
    <2>1. job' = [job EXCEPT ![t] = <<>>] /\ opened' = opened /\ Next /\ conn' = conn
      BY <1>7 DEF GiveUp, Abandon, Others, Next, Run
    <2>2. \A u \in Tasks : Configured(u)' => Configured(u)
      BY <1>3, <2>1
    <2> QED BY <1>1, <2>1, <2>2
  <1>8. ASSUME NEW t \in Tasks, Choose(t) PROVE SettingsInv'
    <2>1. UNCHANGED vars /\ opened' = opened /\ conn' = conn
      BY <1>8 DEF Choose, Others
    <2>2. "here" \in opened
      <3>1. job[t] = AnyJob /\ job[t] # <<>>
        BY <1>8 DEF Choose, AnyJob
      <3>2. CASE "here" \notin opened
        <4>1. OpenOK(AnyJob, tables, columns)
          BY <1>0, <3>1, <3>2 DEF JobsInv
        <4>2. AnyJob[1] \in Seq(OpenStmts)
          BY <4>1, ElementOfSeq DEF OpenOK, AnyJob
        <4>3. <<"any">> \in OpenStmts
          BY <4>2, ElementOfSeq DEF AnyJob
        <4> QED BY <4>3 DEF OpenStmts
      <3> QED BY <3>2
    <2> QED BY <1>1, <2>1, <2>2 DEF Configured
  <1>9. ASSUME NEW t \in Tasks, Statement(t) PROVE SettingsInv'
    <2>1. UNCHANGED vars /\ opened' = opened /\ pc[t] = "held" /\ job[t] # <<>>
      BY <1>0, <1>9 DEF Statement, AtStatement, Others, JobsInv
    <2>2. CASE "here" \in opened
      <3>1. "busy" \in conn => "busy" \in conn'
        BY <1>9 DEF Statement, Pragma
      <3> QED BY <1>1, <2>1, <2>2, <3>1 DEF Configured
    <2>3. CASE "here" \notin opened
      <3>1. PICK w : /\ job' = [job EXCEPT ![t] = w]
                     /\ Pending(job[t], busy) => Pending(w, busy) \/ "busy" \in conn'
        BY <1>9, <2>3, OpenStatement
      <3>2. "busy" \in conn => "busy" \in conn'
        BY <1>9, <2>3, OpenStatement
      <3>3. \A u \in Tasks : job'[u] = IF u = t THEN w ELSE job[u]
        BY <1>0, <3>1 DEF JobsInv
      <3>4. Stocked' /\ PoolOrder'
        BY <1>0, <2>1 DEF vars, Stocked, PoolOrder
      <3>5. ASSUME NEW u \in Tasks, Configured(u)' PROVE "busy" \in conn'
        BY <1>0, <2>1, <2>3, <3>1, <3>2, <3>3, <3>5 DEF Configured
      <3> QED BY <3>4, <3>5 DEF SettingsInv, Stocked, PoolOrder
    <2> QED BY <2>2, <2>3
  <1>10. ASSUME NEW t \in Tasks, EndSection(t) PROVE SettingsInv'
    <2> DEFINE j == job[t]
    <2>1. /\ Next /\ conn' = conn /\ job' = [job EXCEPT ![t] = Tail(j)] /\ j # <<>> /\ j[1] = <<>>
          /\ opened' = IF Len(j) = 1 THEN opened \cup {"here"} ELSE opened
      BY <1>0, <1>10 DEF EndSection, Next, Run, JobsInv
    <2>2. CASE "here" \in opened
      BY <1>1, <2>1, <2>2 DEF Configured
    <2>3. CASE "here" \notin opened
      <3>1. /\ Len(j) # 1 => \A s : Pending(Tail(j), s) <=> Pending(j, s)
            /\ Len(j) = 1 => \A s : ~Pending(j, s)
        BY <1>0, <2>1, <2>3, OpenNextSection DEF JobsInv
      <3> HIDE DEF j
      <3>2. CASE Len(j) = 1
        <4>1. Configured(t)
          BY <2>1, <3>1, <3>2 DEF Configured, j
        <4> QED BY <1>1, <2>1, <4>1
      <3>3. CASE Len(j) # 1
        <4>1. \A u \in Tasks : job'[u] = IF u = t THEN Tail(j) ELSE job[u]
          BY <1>0, <2>1 DEF JobsInv
        <4>2. \A u \in Tasks : Configured(u)' => Configured(u)
          BY <2>1, <2>3, <3>1, <3>3, <4>1 DEF Configured, j
        <4> QED BY <1>1, <2>1, <4>2
      <3> QED BY <3>2, <3>3
    <2> QED BY <2>2, <2>3
  <1>11. CASE Crash
    BY <1>11 DEF Crash, SettingsInv, Configured
  <1>12. CASE Tick \/ CliStart \/ CliStatement \/ CliStops \/ UNCHANGED svars
    <2>1. UNCHANGED <<pc, pool, lock, job, conn>> /\ ("here" \in opened' => "here" \in opened)
      BY <1>12 DEF Tick, CliStart, CliStatement, CliStops, Elsewhere, vars, svars
    <2>2. \A t \in Tasks : Configured(t)' => Configured(t)
      BY <2>1 DEF Configured
    <2> QED BY <1>0, <2>1, <2>2 DEF SettingsInv, PoolOrder, Stocked
  <1> QED BY <1>4, <1>5, <1>6, <1>7, <1>8, <1>9, <1>10, <1>11, <1>12 DEF StoresNext, Serve

\* With the one connection of the code's MAX_CONNECTIONS, every operation of an open
\* instance runs on a connection that waits for locks: no cancellation, time-out,
\* failed statement or lost race for the pool's mutex replaces the one from_pool set up.
THEOREM StoresSettingsKept ==
    ASSUME MaxConnections = 1 PROVE StoresSpec => []SettingsKept
PROOF
  <1>1. StoresInit => SettingsInv
    BY DEF StoresInit, Init, SettingsInv, Configured
  <1>2. StoresInv /\ SettingsInv /\ [StoresNext]_svars => SettingsInv'
    BY SettingsStep
  <1>3. SettingsInv => SettingsKept
    BY DEF SettingsInv, SettingsKept, Configured
  <1> QED BY <1>1, <1>2, <1>3, StoresInvariant, PTL DEF StoresSpec
=============================================================================
