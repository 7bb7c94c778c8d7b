----------------------------- MODULE SandboxProofs -----------------------------
(***************************************************************************)
(* Proofs about the ptrace sandbox, for any number of guest threads and    *)
(* descriptors and any sequence of system calls.                           *)
(***************************************************************************)
EXTENDS Sandbox, FiniteSetTheorems, SequenceTheorems, WellFoundedInduction, TLAPS

(***************************************************************************)
(* The descriptor table (fdtable.rs).  A table is a record of its three    *)
(* fields, and `entries` a function: what an EXCEPT needs.                 *)
(***************************************************************************)
Shaped(t) ==
    /\ t \in [entries : {t.entries}, next_vfd : {t.next_vfd}, free_fds : {t.free_fds}]
    /\ t.entries = [v \in DOMAIN t.entries |-> t.entries[v]]

Good(t) == Shaped(t) /\ TableOK(t)

\* The heap's top is one of its elements.
LEMMA MinInSet ==
    ASSUME NEW S \in SUBSET Nat, S # {}
    PROVE  Min(S) \in S /\ \A x \in S : Min(S) <= x
PROOF
  <1> DEFINE R == {xy \in Nat \X Nat : xy[1] < xy[2]}
  <1>1. R = OpToRel(<, Nat)
    BY DEF OpToRel
  <1>2. IsWellFoundedOn(R, Nat)
    BY <1>1, NatLessThanWellFounded
  <1>3. \A x, y \in Nat : x < y => <<x, y>> \in R
    OBVIOUS
  <1> HIDE DEF R
  <1>4. PICK m \in S : \A y \in S : ~(<<y, m>> \in R)
    BY <1>2, WFMin
  <1>5. ASSUME NEW y \in S PROVE m <= y
    <2>1. m \in Nat /\ y \in Nat
      OBVIOUS
    <2>2. ~(y < m)
      BY <1>3, <1>4, <2>1, Zenon
    <2> QED BY <2>1, <2>2
  <1> QED BY <1>5 DEF Min

\* A new table holds the standard descriptors.
LEMMA NewTableGood == Good(new_table(Std))
BY FdAssumption DEF Good, Shaped, TableOK, new_table, Std, StdFds

\* What `allocate` takes is free, and either was given back or is the next one.
LEMMA AllocatedFree ==
    ASSUME NEW t, Good(t), CanAllocate(t)
    PROVE  /\ allocated(t) \in Fds /\ ~Has(t, allocated(t))
           /\ allocated(t) \in t.free_fds \/ (t.free_fds = {} /\ allocated(t) = t.next_vfd)
PROOF
  <1>1. t.free_fds \in SUBSET Nat
    BY FdAssumption DEF Good, TableOK
  <1>2. t.free_fds # {} => Min(t.free_fds) \in t.free_fds
    BY <1>1, MinInSet
  <1> QED BY <1>2, FdAssumption DEF Good, TableOK, CanAllocate, allocated, Has, Fds

\* What Insert makes of a table.
LEMMA Inserted ==
    ASSUME NEW t, Shaped(t), NEW v, NEW e
    PROVE  LET u == Insert(t, v, e)
           IN /\ Shaped(u) /\ u.next_vfd = t.next_vfd /\ u.free_fds = t.free_fds
              /\ u.entries = [x \in DOMAIN t.entries \cup {v} |-> IF x = v THEN e ELSE t.entries[x]]
BY DEF Shaped, Insert

LEMMA AllocateGood ==
    ASSUME NEW t, Good(t), CanAllocate(t), NEW e
    PROVE  /\ Good(allocate(t, e))
           /\ allocate(t, e).entries = [x \in DOMAIN t.entries \cup {allocated(t)} |->
                                          IF x = allocated(t) THEN e ELSE t.entries[x]]
PROOF
  <1> DEFINE v == allocated(t)
             w == [t EXCEPT !.free_fds = @ \ {v}, !.next_vfd = IF v = @ THEN @ + 1 ELSE @]
             u == Insert(w, v, e)
  <1>1. v \in Fds /\ ~Has(t, v) /\ (v \in t.free_fds \/ (t.free_fds = {} /\ v = t.next_vfd))
    BY AllocatedFree
  <1>2. u = allocate(t, e)
    BY DEF allocate
  <1> HIDE DEF v
  <1>3. /\ Shaped(w) /\ w.entries = t.entries /\ w.free_fds = t.free_fds \ {v}
        /\ w.next_vfd = IF v = t.next_vfd THEN t.next_vfd + 1 ELSE t.next_vfd
    BY DEF Good, Shaped
  <1> HIDE DEF w
  <1>4. /\ Shaped(u) /\ u.next_vfd = w.next_vfd /\ u.free_fds = w.free_fds
        /\ u.entries = [x \in DOMAIN t.entries \cup {v} |-> IF x = v THEN e ELSE t.entries[x]]
    BY <1>3, Inserted
  <1> HIDE DEF u
  <1>5. DOMAIN u.entries = DOMAIN t.entries \cup {v}
    BY <1>4
  <1>6. TableOK(u)
    BY <1>1, <1>3, <1>4, <1>5, FdAssumption DEF Good, TableOK, Fds, Has, CanAllocate
  <1> QED BY <1>2, <1>4, <1>6 DEF Good, v

\* allocate_at: a descriptor taken out of turn.
LEMMA AllocateAtGood ==
    ASSUME NEW t, Good(t), NEW v \in Fds, NEW e
    PROVE  /\ Good(allocate_at(t, v, e))
           /\ allocate_at(t, v, e).entries = [x \in DOMAIN t.entries \cup {v} |-> IF x = v THEN e ELSE t.entries[x]]
PROOF
  <1> DEFINE w == Skip(t, v)
             u == Insert(w, v, e)
             G == {x \in t.next_vfd..(v - 1) : x >= FIRST_USER_FD /\ ~Has(t, x)}
  <1>1. /\ Shaped(w) /\ w.entries = t.entries
        /\ w.next_vfd = (IF v < t.next_vfd THEN t.next_vfd ELSE v + 1)
        /\ w.free_fds = (IF v < t.next_vfd THEN t.free_fds ELSE t.free_fds \cup G) \ {v}
    <2>1. CASE v < t.next_vfd
      BY <2>1 DEF Good, Shaped, Skip
    <2>2. CASE ~(v < t.next_vfd)
      BY <2>2 DEF Good, Shaped, Skip
    <2> QED BY <2>1, <2>2
  <1> HIDE DEF w
  <1>2. /\ Shaped(u) /\ u.next_vfd = w.next_vfd /\ u.free_fds = w.free_fds
        /\ u.entries = [x \in DOMAIN t.entries \cup {v} |-> IF x = v THEN e ELSE t.entries[x]]
    BY <1>1, Inserted
  <1> HIDE DEF u
  <1>3. DOMAIN u.entries = DOMAIN t.entries \cup {v}
    BY <1>2
  <1>4. t.next_vfd \in FIRST_USER_FD..MaxFd /\ FIRST_USER_FD \in Nat /\ MaxFd \in Nat /\ v \in Nat /\ v < MaxFd
    BY FdAssumption DEF Good, TableOK, Fds
  <1>5. TableOK(u)
    <2>1. CASE v < t.next_vfd
      BY <1>1, <1>2, <1>3, <1>4, <2>1 DEF TableOK, Good
    <2>2. CASE ~(v < t.next_vfd)
      BY <1>1, <1>2, <1>3, <1>4, <2>2 DEF TableOK, Good, Has
    <2> QED BY <2>1, <2>2
  <1> QED BY <1>2, <1>5 DEF Good, allocate_at, u, w

\* allocate_min: the lowest descriptor from a minimum on.
LEMMA AllocateMinGood ==
    ASSUME NEW t, Good(t), NEW min, NEW e, \E v \in Fds : v >= min /\ ~Has(t, v)
    PROVE  /\ allocated_min(t, min) \in Fds /\ ~Has(t, allocated_min(t, min))
           /\ allocate_min(t, min, e) = allocate_at(t, allocated_min(t, min), e)
           /\ Good(allocate_min(t, min, e))
PROOF
  <1> DEFINE S == {v \in Fds : v >= min /\ ~Has(t, v)}
  <1>1. S \in SUBSET Nat /\ S # {}
    BY DEF Fds
  <1>2. allocated_min(t, min) \in S
    BY <1>1, MinInSet DEF allocated_min
  <1>3. allocate_min(t, min, e) = allocate_at(t, allocated_min(t, min), e)
    BY DEF allocate_min, allocate_at
  <1>4. allocated_min(t, min) \in Fds /\ ~Has(t, allocated_min(t, min))
    BY <1>2
  <1>5. Good(allocate_at(t, allocated_min(t, min), e))
    BY <1>4, AllocateAtGood
  <1> QED BY <1>3, <1>4, <1>5

LEMMA DeallocateGood ==
    ASSUME NEW t, Good(t), NEW v, Has(t, v)
    PROVE  /\ Good(deallocate(t, v))
           /\ deallocate(t, v).entries = [x \in DOMAIN t.entries \ {v} |-> t.entries[x]]
PROOF
  <1> DEFINE u == deallocate(t, v)
  <1>1. /\ u.entries = [x \in DOMAIN t.entries \ {v} |-> t.entries[x]] /\ u.next_vfd = t.next_vfd
        /\ u.free_fds = IF v >= FIRST_USER_FD THEN t.free_fds \cup {v} ELSE t.free_fds
        /\ Shaped(u)
    BY DEF Good, Shaped, deallocate
  <1> HIDE DEF u
  <1>2. DOMAIN u.entries = DOMAIN t.entries \ {v}
    BY <1>1
  <1>3. TableOK(u)
    BY <1>1, <1>2, FdAssumption DEF Good, TableOK, Has
  <1> QED BY <1>1, <1>3 DEF Good, u

(***************************************************************************)
(* The tables of the processes.  Tables are only added; a handler that     *)
(* ends in `install` keeps a descriptor number to install at.              *)
(***************************************************************************)
IsSeq(s) == \E S : s \in Seq(S)

ShapedEntry(e) == e \in [kind : {e.kind}, k : {e.k}, o : {e.o}, desc : {e.desc}]
ShapedCall(c) ==
    c \in [pc : {c.pc}, fd : {c.fd}, to : {c.to}, e : {c.e}, old : {c.old}, k : {c.k},
           desc : {c.desc}, o : {c.o}, ino : {c.ino}, data : {c.data}, next : {c.next}, t : {c.t}]

\* The call goes on to replace the entry of `to`.
Installs(c) == c.pc \in {"closeold", "install"} \/ c.next \in {"closeold", "install"}
Sound(c) == ShapedCall(c) /\ (Installs(c) => c.to \in Fds)

CallsInv == /\ call = [a \in Threads |-> call[a]]
            /\ \A a \in Threads : Sound(call[a])
TablesInv ==
    /\ IsSeq(tables) /\ tableOf \in [Procs -> 1 .. Len(tables)]
    /\ \A n \in 1 .. Len(tables) : Good(tables[n])
    /\ \A a \in Threads : call[a].t \in 0 .. Len(tables)
LowestInv == CallsInv /\ TablesInv

LEMMA LowestInit == Init => LowestInv
PROOF
  <1> SUFFICES ASSUME Init PROVE LowestInv
    OBVIOUS
  <1>1. tables = <<new_table(Std)>> /\ Good(new_table(Std))
    BY NewTableGood DEF Init
  <1>2. IsSeq(tables) /\ Len(tables) = 1 /\ tables[1] = new_table(Std)
    <2>1. <<new_table(Std)>> \in Seq({new_table(Std)})
      OBVIOUS
    <2> QED BY <1>1, <2>1 DEF IsSeq
  <1>3. TablesInv
    BY <1>1, <1>2 DEF Init, TablesInv, Idle
  <1>4. CallsInv
    BY DEF Init, CallsInv, Sound, ShapedCall, Installs, Idle, NoEntry, None
  <1> QED BY <1>3, <1>4 DEF LowestInv

\* A handler's table.
LEMMA TableIn ==
    ASSUME LowestInv, NEW a \in Threads
    PROVE  /\ Ix(a) \in 1 .. Len(tables) /\ Table(a) = tables[Ix(a)] /\ Good(Table(a))
           /\ ProcOf[a] \in Procs /\ tableOf[ProcOf[a]] \in 1 .. Len(tables)
PROOF
  <1>1. ProcOf[a] \in Procs /\ tableOf[ProcOf[a]] \in 1 .. Len(tables) /\ call[a].t \in 0 .. Len(tables)
    BY SandboxAssumption DEF LowestInv, TablesInv
  <1>2. Len(tables) \in Nat
    BY DEF LowestInv, TablesInv, IsSeq
  <1>3. Ix(a) \in 1 .. Len(tables)
    BY <1>1, <1>2 DEF Ix
  <1> QED BY <1>1, <1>3 DEF Table, LowestInv, TablesInv

\* A step of thread a: its call changes, and its table, or a table is added, after
\* which calls under way go on with the one they had.
Continues(a) == \E c : Sound(c) /\ c.t \in {0, call[a].t} /\ call' = [call EXCEPT ![a] = c]
Retabled(a) == \E t : Good(t) /\ SetTable(a, t)
Detached(a, b) == IF b = a THEN Idle
                  ELSE IF ProcOf[b] = Child /\ call[b].pc # "idle" THEN [call[b] EXCEPT !.t = Ix(b)] ELSE call[b]
Copied(a) == /\ tables' = tables \/ tables' = Append(tables, Table(a))
             /\ \E n \in 1 .. Len(tables') : tableOf' = [tableOf EXCEPT ![Child] = n]
             /\ call' = [b \in Threads |-> Detached(a, b)]
Added_Std(a) == /\ tables' = Append(tables, new_table(Std))
                /\ tableOf' = [tableOf EXCEPT ![ProcOf[a]] = Len(tables')] /\ call' = call
Effect(a) ==
    \/ Continues(a) /\ UNCHANGED <<tables, tableOf>>
    \/ Continues(a) /\ Retabled(a) /\ UNCHANGED tableOf
    \/ Copied(a)
    \/ Added_Std(a)
    \/ UNCHANGED <<call, tables, tableOf>>

\* A table more.
LEMMA OneMore ==
    ASSUME LowestInv, NEW t, Good(t), tables' = Append(tables, t),
           NEW p, NEW n \in 1 .. Len(tables'), tableOf' = [tableOf EXCEPT ![p] = n]
    PROVE  /\ IsSeq(tables') /\ tableOf' \in [Procs -> 1 .. Len(tables')]
           /\ \A m \in 1 .. Len(tables') : Good(tables'[m])
           /\ Len(tables) \in Nat /\ Len(tables') = Len(tables) + 1
PROOF
  <1>1. PICK S : tables \in Seq(S)
    BY DEF LowestInv, TablesInv, IsSeq
  <1>2. tables \in Seq(S \cup {t}) /\ t \in S \cup {t}
    BY <1>1
  <1>3. /\ tables' \in Seq(S \cup {t}) /\ Len(tables') = Len(tables) + 1 /\ Len(tables) \in Nat
        /\ \A m \in 1 .. Len(tables) + 1 : tables'[m] = IF m = Len(tables) + 1 THEN t ELSE tables[m]
    BY <1>2
  <1>4. tableOf' \in [Procs -> 1 .. Len(tables')]
    <2>1. \A m \in 1 .. Len(tables) : m \in 1 .. Len(tables')
      BY <1>3
    <2> QED BY <2>1 DEF LowestInv, TablesInv
  <1>5. \A m \in 1 .. Len(tables') : Good(tables'[m])
    BY <1>3 DEF LowestInv, TablesInv
  <1> QED BY <1>3, <1>4, <1>5 DEF IsSeq

LEMMA IdleSound == Sound(Idle) /\ Idle.pc = "idle" /\ Idle.next = "idle" /\ Idle.to = None /\ Idle.t = 0
BY DEF Sound, ShapedCall, Installs, Idle, None

LEMMA EffectKeeps ==
    ASSUME LowestInv, NEW a \in Threads, Effect(a)
    PROVE  LowestInv'
PROOF
  <1>1. PICK S : tables \in Seq(S)
    BY DEF LowestInv, TablesInv, IsSeq
  <1>2. /\ Len(tables) \in Nat /\ DOMAIN tables = 1 .. Len(tables)
        /\ tableOf \in [Procs -> 1 .. Len(tables)]
        /\ \A n \in 1 .. Len(tables) : Good(tables[n])
        /\ \A b \in Threads : call[b].t \in 0 .. Len(tables) /\ Sound(call[b])
        /\ call = [b \in Threads |-> call[b]]
    BY <1>1 DEF LowestInv, TablesInv, CallsInv
  <1>3. ASSUME Continues(a), Len(tables') = Len(tables)
        PROVE  CallsInv' /\ \A b \in Threads : call'[b].t \in 0 .. Len(tables')
    <2>1. PICK c : Sound(c) /\ c.t \in {0, call[a].t} /\ call' = [call EXCEPT ![a] = c]
      BY <1>3 DEF Continues
    <2>2. call' = [b \in Threads |-> IF b = a THEN c ELSE call[b]]
      BY <1>2, <2>1
    <2> HIDE DEF Sound
    <2>3. call' = [b \in Threads |-> call'[b]] /\ \A b \in Threads : call'[b] = IF b = a THEN c ELSE call[b]
      BY <2>2
    <2>4. \A b \in Threads : Sound(call'[b])
      BY <1>2, <2>1, <2>3
    <2>5. c.t \in 0 .. Len(tables)
      BY <1>2, <2>1
    <2> QED BY <1>2, <1>3, <2>3, <2>4, <2>5 DEF CallsInv
  <1>4. CASE Continues(a) /\ UNCHANGED <<tables, tableOf>>
    BY <1>3, <1>4 DEF LowestInv, TablesInv
  <1>5. CASE Continues(a) /\ Retabled(a) /\ UNCHANGED tableOf
    <2>1. PICK t : Good(t) /\ tables' = [tables EXCEPT ![Ix(a)] = t]
      BY <1>5 DEF Retabled, SetTable
    <2>2. tables \in Seq(S \cup {t})
      BY <1>1
    <2>3. Ix(a) \in 1 .. Len(tables)
      BY TableIn
    <2>4. tables' \in Seq(S \cup {t}) /\ Len(tables') = Len(tables)
      BY <2>1, <2>2, <2>3
    <2>5. \A n \in 1 .. Len(tables) : tables'[n] = IF n = Ix(a) THEN t ELSE tables[n]
      BY <1>2, <2>1, <2>3
    <2>6. \A n \in 1 .. Len(tables') : Good(tables'[n])
      BY <1>2, <2>1, <2>4, <2>5
    <2>7. tableOf' \in [Procs -> 1 .. Len(tables')]
      BY <1>2, <1>5, <2>4
    <2>8. CallsInv' /\ \A b \in Threads : call'[b].t \in 0 .. Len(tables')
      BY <1>3, <1>5, <2>4
    <2> QED BY <2>4, <2>6, <2>7, <2>8 DEF LowestInv, TablesInv, IsSeq
  <1>6. CASE Copied(a)
    <2>1. PICK n \in 1 .. Len(tables') : tableOf' = [tableOf EXCEPT ![Child] = n]
      BY <1>6 DEF Copied
    <2>2. /\ IsSeq(tables') /\ tableOf' \in [Procs -> 1 .. Len(tables')]
          /\ \A m \in 1 .. Len(tables') : Good(tables'[m])
          /\ Len(tables') \in Nat /\ Len(tables) <= Len(tables')
      <3>1. CASE tables' = tables
        <4>1. IsSeq(tables)
          BY DEF LowestInv, TablesInv
        <4>2. tableOf' \in [Procs -> 1 .. Len(tables')]
          <5>1. n \in 1 .. Len(tables) /\ Len(tables') = Len(tables)
            BY <2>1, <3>1
          <5> QED BY <1>2, <2>1, <5>1
        <4>3. \A m \in 1 .. Len(tables') : Good(tables'[m])
          BY <1>2, <3>1
        <4>4. IsSeq(tables') /\ Len(tables') = Len(tables)
          BY <3>1, <4>1
        <4> QED BY <1>2, <4>2, <4>3, <4>4
      <3>2. CASE tables' = Append(tables, Table(a))
        <4>1. Good(Table(a))
          BY TableIn
        <4>2. /\ IsSeq(tables') /\ tableOf' \in [Procs -> 1 .. Len(tables')]
              /\ \A m \in 1 .. Len(tables') : Good(tables'[m])
              /\ Len(tables) \in Nat /\ Len(tables') = Len(tables) + 1
          BY <2>1, <3>2, <4>1, OneMore
        <4> QED BY <4>2
      <3> QED BY <1>6, <3>1, <3>2 DEF Copied
    <2>3. ASSUME NEW b \in Threads
          PROVE  call'[b] = Detached(a, b) /\ Sound(Detached(a, b)) /\ Detached(a, b).t \in 0 .. Len(tables)
      <3>1. call'[b] = Detached(a, b)
        BY <1>6 DEF Copied
      <3>2. /\ Sound([call[b] EXCEPT !.t = Ix(b)]) /\ [call[b] EXCEPT !.t = Ix(b)].t = Ix(b)
        <4>1. Sound(call[b])
          BY <1>2
        <4> QED BY <4>1 DEF Sound, ShapedCall, Installs
      <3>3. Ix(b) \in 0 .. Len(tables)
        BY <1>2, TableIn
      <3> QED BY <1>2, <3>1, <3>2, <3>3, IdleSound DEF Detached
    <2>4. call' = [b \in Threads |-> call'[b]]
      BY <1>6 DEF Copied
    <2>5. CallsInv' /\ \A b \in Threads : call'[b].t \in 0 .. Len(tables')
      BY <1>2, <2>2, <2>3, <2>4 DEF CallsInv
    <2> QED BY <2>2, <2>5 DEF LowestInv, TablesInv
  <1>7. CASE Added_Std(a)
    <2>1. Good(new_table(Std)) /\ tables' = Append(tables, new_table(Std)) /\ call' = call
      BY <1>7, NewTableGood DEF Added_Std
    <2>2. Len(tables') = Len(tables) + 1
      <3>1. tables \in Seq(S \cup {new_table(Std)})
        BY <1>1
      <3> QED BY <2>1, <3>1
    <2>3. Len(tables') \in 1 .. Len(tables')
      BY <1>2, <2>2
    <2>4. /\ IsSeq(tables') /\ tableOf' \in [Procs -> 1 .. Len(tables')]
          /\ \A m \in 1 .. Len(tables') : Good(tables'[m])
      BY <1>7, <2>1, <2>3, OneMore DEF Added_Std
    <2>5. CallsInv' /\ \A b \in Threads : call'[b].t \in 0 .. Len(tables')
      <3>1. \A b \in Threads : call[b].t \in 0 .. Len(tables')
        BY <1>2, <2>2
      <3> QED BY <1>2, <2>1, <3>1 DEF CallsInv
    <2> QED BY <2>4, <2>5 DEF LowestInv, TablesInv
  <1>8. CASE UNCHANGED <<call, tables, tableOf>>
    BY <1>8 DEF LowestInv, TablesInv, CallsInv
  <1> QED BY <1>4, <1>5, <1>6, <1>7, <1>8 DEF Effect

\* Calls that end at once and change neither table nor kernel descriptors.
Quiet(a) ==
    /\ call' = [call EXCEPT ![a] = Idle] /\ UNCHANGED <<World, tables, files>>
    /\ rude => rude'
\* Calls that the kernel answers, with the kernel descriptor of the entry.
Forwarded(a) ==
    \E v \in Fds :
       /\ Entry(a, v).kind = "pass" /\ Begin(a, [Idle EXCEPT !.pc = "fwd", !.fd = v, !.e = Entry(a, v)], {v}, {})
       /\ UNCHANGED <<World, tables, files>>

\* Most calls are of these two kinds.
LEMMA Calls ==
    ASSUME NEW a \in Threads, LowestInv, UsesDescriptor(a) \/ NamesPath(a)
    PROVE  Quiet(a) \/ Forwarded(a)
PROOF
  <1>1. ASSUME NEW S, AtOnce(a, S), UNCHANGED <<World, tables, files>> PROVE Quiet(a)
    BY <1>1 DEF AtOnce, Begin, Start, Quiet
  <1>2. ASSUME NEW v \in Fds, Forward(a, v) PROVE Quiet(a) \/ Forwarded(a)
    BY <1>1, <1>2 DEF Forward, Forwarded, Untranslated
  <1>3. ASSUME NEW v, NEW o, OnVirtual(a, v, o) PROVE Quiet(a)
    BY <1>1, <1>3 DEF OnVirtual
  <1>4. ASSUME NEW S, PathCall(a, S) PROVE Quiet(a)
    BY <1>4 DEF PathCall, Start, Quiet
  <1>5. ASSUME Answer(a) PROVE Quiet(a)
    BY <1>1, <1>5 DEF Answer
  <1>6. ASSUME NEW d, StoredName(a, d) PROVE Quiet(a)
    BY <1>1, <1>6 DEF StoredName
  <1>7. ASSUME OnePath(a) PROVE Quiet(a)
    BY <1>4, <1>7 DEF OnePath
  <1>8. ASSUME NEW v \in DOMAIN Table(a).entries PROVE v \in Fds
    BY TableIn, FdAssumption DEF Good, TableOK, Fds
  <1>9. ASSUME UsesDescriptor(a) PROVE Quiet(a) \/ Forwarded(a)
    <2>1. ASSUME Translate(a) PROVE Quiet(a) \/ Forwarded(a)
      BY <1>2, <2>1 DEF Translate
    <2>2. ASSUME handle_read(a) PROVE Quiet(a) \/ Forwarded(a)
      BY <1>2, <1>3, <2>2 DEF handle_read
    <2>3. ASSUME handle_write(a) PROVE Quiet(a) \/ Forwarded(a)
      BY <1>2, <1>3, <2>3 DEF handle_write
    <2>4. ASSUME handle_lseek(a) PROVE Quiet(a) \/ Forwarded(a)
      BY <1>2, <1>3, <2>4 DEF handle_lseek
    <2>5. ASSUME handle_fstat(a) PROVE Quiet(a) \/ Forwarded(a)
      BY <1>1, <1>2, <1>3, <2>5 DEF handle_fstat
    <2>6. ASSUME handle_getdents64(a) PROVE Quiet(a) \/ Forwarded(a)
      BY <1>2, <1>3, <2>6 DEF handle_getdents64
    <2> QED BY <1>9, <2>1, <2>2, <2>3, <2>4, <2>5, <2>6
            DEF UsesDescriptor, handle_ioctl, handle_pread64, handle_pwrite64, handle_mmap, handle_readv,
                handle_writev, handle_sendto, handle_connect, handle_getpeername, handle_pselect6, handle_poll
  <1>10. ASSUME NamesPath(a) PROVE Quiet(a) \/ Forwarded(a)
    <2>1. ASSUME handle_rename(a) PROVE Quiet(a)
      BY <1>4, <2>1 DEF handle_rename
    <2>2. ASSUME AtCall(a) PROVE Quiet(a) \/ Forwarded(a)
      BY <1>2, <1>7, <1>8, <2>2 DEF AtCall
    <2>3. ASSUME Reads(a) PROVE Quiet(a)
      BY <1>4, <1>5, <2>3 DEF Reads
    <2>4. ASSUME ReadsAt(a) PROVE Quiet(a)
      BY <1>1, <2>3, <2>4 DEF ReadsAt, Untranslated
    <2>5. ASSUME MakeSymlink(a) PROVE Quiet(a)
      BY <1>4, <1>5, <1>6, <2>5 DEF MakeSymlink
    <2>6. ASSUME handle_linkat(a) PROVE Quiet(a)
      BY <1>4, <1>5, <1>6, <2>6 DEF handle_linkat
    <2> QED BY <1>7, <1>10, <2>1, <2>2, <2>3, <2>4, <2>5, <2>6
            DEF NamesPath, handle_access, handle_unlink, handle_chdir, handle_rmdir, handle_chmod, handle_statfs,
                handle_llistxattr, handle_lgetxattr, handle_faccessat, handle_faccessat2, handle_fchownat,
                handle_statx, handle_newfstatat, handle_readlink, handle_readlinkat, handle_symlink, handle_symlinkat
  <1> QED BY <1>9, <1>10

\* What a handler keeps, call by call.
LEMMA QuietEffect ==
    ASSUME NEW a \in Threads, Quiet(a) \/ Forwarded(a)
    PROVE  Effect(a)
PROOF
  <1>1. CASE Quiet(a)
    BY <1>1, IdleSound DEF Quiet, Effect, Continues, World
  <1>2. CASE Forwarded(a)
    <2>1. PICK v \in Fds : /\ Begin(a, [Idle EXCEPT !.pc = "fwd", !.fd = v, !.e = Entry(a, v)], {v}, {})
                           /\ UNCHANGED <<World, tables, files>>
      BY <1>2 DEF Forwarded
    <2>2. LET c == [Idle EXCEPT !.pc = "fwd", !.fd = v, !.e = Entry(a, v)] IN Sound(c) /\ c.t = 0
      BY DEF Sound, ShapedCall, Installs, Idle
    <2> QED BY <2>1, <2>2 DEF Begin, Start, Effect, Continues, World
  <1> QED BY <1>1, <1>2

LEMMA MakesEffect ==
    ASSUME NEW a \in Threads, LowestInv, MakesDescriptors(a)
    PROVE  Effect(a)
PROOF
  <1> DEFINE t == Table(a)
  <1>0. Good(t)
    BY TableIn
  <1>a. ASSUME NEW c, Sound(c), c.t = 0, Start(a, c), UNCHANGED <<World, tables>> PROVE Effect(a)
    BY <1>a DEF Start, Effect, Continues, World
  <1>b. ASSUME NEW c, Sound(c), c.t = 0, NEW S, NEW v, NEW u, Good(u), Retable(a, c, S, v, u), UNCHANGED World
        PROVE  Effect(a)
    BY <1>b DEF Retable, Start, Effect, Continues, Retabled, World
  <1>1. ASSUME handle_openat(a) PROVE Effect(a)
    <2>1. ASSUME NEW used, AtOnce(a, used), UNCHANGED <<World, tables>> PROVE Effect(a)
      BY <1>a, <2>1, IdleSound DEF AtOnce, Begin
    <2>2. ASSUME NEW used, NEW v, NEW e, CanAllocate(t), Retable(a, Idle, used, v, allocate(t, e)), UNCHANGED World
          PROVE  Effect(a)
      <3>1. Good(allocate(t, e))
        BY <1>0, <2>2, AllocateGood
      <3> QED BY <1>b, <2>2, <3>1, IdleSound
    <2>3. ASSUME NEW fd, NEW dir, NEW target,
                 Start(a, [Idle EXCEPT !.pc = "open", !.fd = fd, !.e = dir, !.desc = target]),
                 UNCHANGED <<World, tables>>
          PROVE  Effect(a)
      <3>1. LET c == [Idle EXCEPT !.pc = "open", !.fd = fd, !.e = dir, !.desc = target] IN Sound(c) /\ c.t = 0
        BY DEF Sound, ShapedCall, Installs, Idle
      <3> QED BY <1>a, <2>3, <3>1
    <2> QED BY <1>1, <2>1, <2>2, <2>3 DEF handle_openat
  <1>2. ASSUME handle_socket(a) \/ handle_pipe2(a) PROVE Effect(a)
    <2>1. ASSUME NEW e, NEW k, Begin(a, [Idle EXCEPT !.pc = "alloc", !.e = e, !.k = k], {}, {}), UNCHANGED <<World, tables>>
          PROVE  Effect(a)
      <3>1. LET c == [Idle EXCEPT !.pc = "alloc", !.e = e, !.k = k] IN Sound(c) /\ c.t = 0
        BY DEF Sound, ShapedCall, Installs, Idle
      <3> QED BY <1>a, <2>1, <3>1 DEF Begin
    <2>2. ASSUME NEW e, NEW f, Begin(a, [Idle EXCEPT !.pc = "pipe", !.e = e, !.old = f], {}, {}), UNCHANGED <<World, tables>>
          PROVE  Effect(a)
      <3>1. LET c == [Idle EXCEPT !.pc = "pipe", !.e = e, !.old = f] IN Sound(c) /\ c.t = 0
        BY DEF Sound, ShapedCall, Installs, Idle
      <3> QED BY <1>a, <2>2, <3>1 DEF Begin
    <2> QED BY <1>2, <2>1, <2>2 DEF handle_socket, handle_pipe2
  <1>3. ASSUME NEW v, NEW min, DupUnknown(a, v, min) PROVE Effect(a)
    BY <1>3, <1>a, IdleSound DEF DupUnknown, AtOnce, Begin
  <1>4. ASSUME handle_dup(a) PROVE Effect(a)
    <2>1. PICK v \in Fds :
             \/ /\ Begin(a, [Idle EXCEPT !.pc = "dup", !.fd = v, !.e = Entry(a, v), !.next = "alloc"], {v}, {})
                /\ UNCHANGED <<World, tables>>
             \/ /\ CanAllocate(t) /\ Retable(a, Idle, {v}, allocated(t), allocate(t, Entry(a, v)))
                /\ UNCHANGED World
             \/ DupUnknown(a, v, 0)
      BY <1>4 DEF handle_dup
    <2>2. LET c == [Idle EXCEPT !.pc = "dup", !.fd = v, !.e = Entry(a, v), !.next = "alloc"] IN Sound(c) /\ c.t = 0
      BY DEF Sound, ShapedCall, Installs, Idle
    <2>3. CanAllocate(t) => Good(allocate(t, Entry(a, v)))
      BY <1>0, AllocateGood
    <2>4. ASSUME Begin(a, [Idle EXCEPT !.pc = "dup", !.fd = v, !.e = Entry(a, v), !.next = "alloc"], {v}, {}),
                 UNCHANGED <<World, tables>>
          PROVE  Effect(a)
      BY <1>a, <2>2, <2>4 DEF Begin
    <2> QED BY <1>3, <1>b, <2>1, <2>3, <2>4, IdleSound
  <1>5. ASSUME handle_fcntl(a) PROVE Effect(a)
    <2>1. CASE Translate(a)
      BY <2>1, QuietEffect, Calls DEF UsesDescriptor, handle_ioctl
    <2>2. ASSUME NEW v \in Fds, NEW min \in Fds,
             Begin(a, [Idle EXCEPT !.pc = "dup", !.fd = v, !.to = min, !.e = Entry(a, v), !.next = "allocmin"], {v}, {}),
             UNCHANGED <<World, tables, files, ops, db>>
          PROVE Effect(a)
      <3>1. LET c == [Idle EXCEPT !.pc = "dup", !.fd = v, !.to = min, !.e = Entry(a, v), !.next = "allocmin"]
            IN Sound(c) /\ c.t = 0
        BY DEF Sound, ShapedCall, Installs, Idle
      <3> QED BY <1>a, <2>2, <3>1 DEF Begin
    <2> QED BY <1>3, <1>5, <2>1, <2>2 DEF handle_fcntl
  <1>6. ASSUME DupTo(a) PROVE Effect(a)
    <2>1. PICK v \in Fds, w \in Fds :
             /\ \/ Start(a, [Idle EXCEPT !.pc = IF Entry(a, v).kind = "pass" THEN "dup" ELSE "closeold", !.fd = v, !.to = w,
                                         !.e = Entry(a, v), !.old = Entry(a, w), !.next = "closeold"])
                \/ Start(a, Idle)
             /\ UNCHANGED <<World, tables>>
      BY <1>6 DEF DupTo, Begin
    <2>2. LET c == [Idle EXCEPT !.pc = IF Entry(a, v).kind = "pass" THEN "dup" ELSE "closeold", !.fd = v, !.to = w,
                                !.e = Entry(a, v), !.old = Entry(a, w), !.next = "closeold"]
          IN Sound(c) /\ c.t = 0
      BY DEF Sound, ShapedCall, Installs, Idle
    <2> QED BY <1>a, <2>1, <2>2, IdleSound
  <1>7. ASSUME handle_close(a) PROVE Effect(a)
    <2>1. PICK v \in Fds :
             /\ \/ Entry(a, v).kind # "none" /\ Retable(a, Closing(Entry(a, v)), {}, v, deallocate(t, v))
                \/ Start(a, Idle) /\ UNCHANGED tables
             /\ UNCHANGED World
      BY <1>7 DEF handle_close, AtOnce, Begin
    <2>2. Sound(Closing(Entry(a, v))) /\ Closing(Entry(a, v)).t = 0
      BY DEF Closing, Sound, ShapedCall, Installs, Idle
    <2>3. Entry(a, v).kind # "none" => Good(deallocate(t, v))
      BY <1>0, DeallocateGood DEF Entry, NoEntry
    <2> QED BY <1>a, <1>b, <2>1, <2>2, <2>3, IdleSound
  <1> QED BY <1>1, <1>2, <1>4, <1>5, <1>6, <1>7 DEF MakesDescriptors, handle_dup2, handle_dup3

LEMMA SpawnEffect ==
    ASSUME NEW a \in Threads, MakesProcess(a)
    PROVE  Effect(a)
PROOF
  <1>1. PICK fs \in BOOLEAN, then \in {"share", "copy", "wait"} : Spawn(a, fs, then)
    BY DEF MakesProcess, handle_fork, handle_vfork, handle_clone, handle_clone3
  <1>2. LET c == [Idle EXCEPT !.pc = "inherit", !.next = then] IN Sound(c) /\ c.t = 0
    BY DEF Sound, ShapedCall, Installs, Idle
  <1> QED BY <1>1, <1>2 DEF Spawn, Start, Effect, Continues

LEMMA ResumeEffect ==
    ASSUME NEW a \in Threads, LowestInv, Resume(a)
    PROVE  Effect(a)
PROOF
  <1> DEFINE t == Table(a)
             c == call[a]
  <1>0. Good(t) /\ Sound(c)
    BY TableIn DEF LowestInv, CallsInv
  <1>1. ASSUME NEW d, Sound(d), d.t \in {0, c.t}, Goto(a, d), UNCHANGED <<World, tables>> PROVE Effect(a)
    BY <1>1 DEF Goto, Effect, Continues, World
  <1>2. ASSUME NEW u, Good(u), Give(a, u), UNCHANGED World PROVE Effect(a)
    BY <1>2, IdleSound DEF Give, Effect, Continues, Retabled, World
  <1>3. ASSUME NEW d, NEW desc, NEW pc, KernelOpen(a, d, desc, pc), UNCHANGED <<World, tables>>,
               \A k : Sound([d EXCEPT !.pc = pc, !.k = k]) /\ [d EXCEPT !.pc = pc, !.k = k].t \in {0, c.t}
        PROVE  Effect(a)
    BY <1>1, <1>3, IdleSound DEF KernelOpen
  <1>4. ASSUME open_result(a) PROVE Effect(a)
    <2>1. \A k : LET d == [[Idle EXCEPT !.e = Pass(None, c.desc), !.t = c.t] EXCEPT !.pc = "alloc", !.k = k]
                 IN Sound(d) /\ d.t = c.t
      BY DEF Sound, ShapedCall, Installs, Idle
    <2> QED BY <1>1, <1>3, <1>4, <2>1, IdleSound DEF open_result
  <1>5. ASSUME allocate_fd(a) PROVE Effect(a)
    BY <1>0, <1>2, <1>5, AllocateGood DEF allocate_fd
  <1>6. ASSUME pipe_result(a) PROVE Effect(a)
    <2>1. CanAllocate(t) => Good(allocate(t, c.e))
      BY <1>0, AllocateGood
    <2>2. CanAllocate(t) /\ CanAllocate(allocate(t, c.e)) => Good(allocate(allocate(t, c.e), c.old))
      BY <2>1, AllocateGood
    <2> QED BY <1>2, <1>6, <2>2 DEF pipe_result
  <1>7. ASSUME Duplicate(a) PROVE Effect(a)
    <2>1. \A k : LET d == [c EXCEPT !.pc = c.next, !.k = k] IN Sound(d) /\ d.t = c.t
      BY <1>0 DEF Sound, ShapedCall, Installs
    <2> QED BY <1>1, <1>3, <1>7, <2>1, IdleSound DEF Duplicate
  <1>8. ASSUME allocate_min_fd(a) PROVE Effect(a)
    BY <1>0, <1>2, <1>8, AllocateMinGood DEF allocate_min_fd
  <1>9. ASSUME close_old(a) PROVE Effect(a)
    <2>1. c.pc = "closeold"
      BY <1>9 DEF close_old, At
    <2>2. /\ LET d == [c EXCEPT !.pc = "install"] IN Sound(d) /\ d.t = c.t
          /\ LET d == [c EXCEPT !.pc = "flush", !.o = c.old.o, !.next = "install"] IN Sound(d) /\ d.t = c.t
      BY <1>0, <2>1 DEF Sound, ShapedCall, Installs
    <2> QED BY <1>1, <1>9, <2>2, IdleSound DEF close_old
  <1>10. ASSUME install(a) PROVE Effect(a)
    <2>1. c.to \in Fds
      BY <1>0, <1>10 DEF install, At, Sound, Installs
    <2>2. PICK e : SetTable(a, allocate_at(t, c.to, e))
      BY <1>10 DEF install
    <2>3. Good(allocate_at(t, c.to, e))
      BY <1>0, <2>1, AllocateAtGood
    <2> QED BY <1>10, <2>2, <2>3, IdleSound DEF install, Effect, Continues, Retabled, World
  <1>11. ASSUME close_kernel_fd(a) \/ inject(a) PROVE Effect(a)
    BY <1>1, <1>11, IdleSound DEF close_kernel_fd, inject
  <1>12. ASSUME insert_fd_table(a) PROVE Effect(a)
    <2>1. PICK S : tables \in Seq(S)
      BY DEF LowestInv, TablesInv, IsSeq
    <2>2. t \in S
      BY <2>1, TableIn
    <2>3. Len(Append(tables, t)) = Len(tables) + 1 /\ Len(tables) \in Nat
      BY <2>1, <2>2
    <2>4. tableOf[First] \in 1 .. Len(tables)
      BY SandboxAssumption DEF LowestInv, TablesInv
    <2>5. call' = [b \in Threads |-> Detached(a, b)]
      BY <1>12 DEF insert_fd_table, Detached
    <2>6. CASE c.next = "share"
      BY <1>12, <2>4, <2>5, <2>6 DEF insert_fd_table, Copied, Effect
    <2>7. CASE c.next # "share"
      <3>1. tables' = Append(tables, t) /\ tableOf' = [tableOf EXCEPT ![Child] = Len(tables')]
        BY <1>12, <2>7 DEF insert_fd_table
      <3>2. Len(tables') \in 1 .. Len(tables')
        BY <2>3, <3>1
      <3> QED BY <2>5, <3>1, <3>2 DEF Copied, Effect
    <2> QED BY <2>6, <2>7
  <1>13. ASSUME fsync(a) \/ fsync_pwrite(a) \/ fsync_truncate(a) PROVE Effect(a)
    <2>1. /\ LET d == [c EXCEPT !.pc = c.next, !.o = 0, !.ino = 0, !.data = <<>>] IN Sound(d) /\ d.t = c.t
          /\ \A x, i : LET d == [c EXCEPT !.pc = "pwrite", !.data = x, !.ino = i] IN Sound(d) /\ d.t = c.t
          /\ LET d == [c EXCEPT !.pc = "truncate"] IN Sound(d) /\ d.t = c.t
      BY <1>0 DEF Sound, ShapedCall, Installs
    <2>2. ASSUME Abandon(a), UNCHANGED <<World, tables>> PROVE Effect(a)
      BY <1>1, <2>1, <2>2 DEF Abandon
    <2>3. ASSUME Fail(a), UNCHANGED <<World, tables>> PROVE Effect(a)
      BY <2>2, <2>3 DEF Fail
    <2>4. ASSUME fsync(a) PROVE Effect(a)
      BY <1>1, <2>1, <2>2, <2>3, <2>4 DEF fsync
    <2>5. ASSUME fsync_pwrite(a) PROVE Effect(a)
      BY <1>1, <2>1, <2>3, <2>5 DEF fsync_pwrite
    <2>6. ASSUME fsync_truncate(a) PROVE Effect(a)
      BY <2>2, <2>3, <2>6 DEF fsync_truncate
    <2> QED BY <1>13, <2>4, <2>5, <2>6
  <1> QED BY <1>4, <1>5, <1>6, <1>7, <1>8, <1>9, <1>10, <1>11, <1>12, <1>13 DEF Resume

\* exec and exit.
LEMMA LeavesSame ==
    ASSUME NEW a, Exec(a) \/ Exit(a)
    PROVE  UNCHANGED <<known, tableOf, tables, ops, db, call>> /\ asked' = {}
BY DEF Exec, Exit, Leaves

LEMMA LeavesEffect ==
    ASSUME NEW a, Exec(a) \/ Exit(a)
    PROVE  Effect(a)
BY LeavesSame DEF Effect

LEMMA LowestStep == LowestInv /\ [Next]_vars => LowestInv'
PROOF
  <1> SUFFICES ASSUME LowestInv, [Next]_vars PROVE LowestInv'
    OBVIOUS
  <1>1. ASSUME NEW a \in Threads, dispatch_syscall(a) PROVE LowestInv'
    BY <1>1, Calls, QuietEffect, MakesEffect, SpawnEffect, LeavesEffect, EffectKeeps DEF dispatch_syscall
  <1>2. ASSUME NEW a \in Threads, Resume(a) PROVE LowestInv'
    BY <1>2, ResumeEffect, EffectKeeps
  <1>3. ASSUME NEW a \in Threads, get_fd_table(a) PROVE LowestInv'
    BY <1>3, EffectKeeps DEF get_fd_table, Added_Std, Effect
  <1>4. CASE UNCHANGED vars
    BY <1>4 DEF vars, LowestInv, CallsInv, TablesInv
  <1> QED BY <1>1, <1>2, <1>3, <1>4 DEF Next

\* What lies below next_vfd is in use or waits in the heap, never neither and
\* never both, but for the standard descriptors: the next one is the lowest.
LEMMA GoodIsLowest ==
    ASSUME NEW t, Good(t), Unused(t) # {}
    PROVE  CanAllocate(t) /\ allocated(t) = Min(Unused(t))
PROOF
  <1>1. /\ FIRST_USER_FD \in Nat /\ MaxFd \in Nat /\ t.next_vfd \in FIRST_USER_FD .. MaxFd
        /\ t.free_fds = (FIRST_USER_FD .. (t.next_vfd - 1)) \ DOMAIN t.entries
        /\ \A v \in DOMAIN t.entries : v \in 0 .. (t.next_vfd - 1)
    BY FdAssumption DEF Good, TableOK
  <1>2. Unused(t) = (FIRST_USER_FD .. (MaxFd - 1)) \ DOMAIN t.entries
    BY <1>1 DEF Unused, Fds, StdFds, Has
  <1>3. t.free_fds \in SUBSET Nat /\ Unused(t) \in SUBSET Nat
    BY <1>1, <1>2
  <1>4. CanAllocate(t)
    BY <1>1, <1>2 DEF CanAllocate
  <1>5. allocated(t) \in Unused(t) /\ \A x \in Unused(t) : allocated(t) <= x
    <2>1. CASE t.free_fds # {}
      <3>1. allocated(t) \in t.free_fds /\ \A x \in t.free_fds : allocated(t) <= x
        BY <1>3, <2>1, MinInSet DEF allocated
      <3> QED BY <1>1, <1>2, <3>1
    <2>2. CASE t.free_fds = {}
      <3>1. allocated(t) = t.next_vfd /\ t.next_vfd < MaxFd
        BY <1>4, <2>2, <1>1 DEF allocated, CanAllocate
      <3> QED BY <1>1, <1>2, <2>2, <3>1
    <2> QED BY <2>1, <2>2
  <1>6. Min(Unused(t)) \in Unused(t) /\ \A x \in Unused(t) : Min(Unused(t)) <= x
    BY <1>3, MinInSet
  <1>7. allocated(t) <= Min(Unused(t)) /\ Min(Unused(t)) <= allocated(t) /\ allocated(t) \in Nat /\ Min(Unused(t)) \in Nat
    BY <1>3, <1>5, <1>6
  <1> QED BY <1>4, <1>7

\* In every table, in every process and at every await of a handler, and after
\* any sequence of open, pipe2, dup2 and dup3 beyond the end, F_DUPFD from a
\* minimum, close and fork, `allocate` gives the lowest descriptor from 3 on that
\* is not in use (fdtable.rs); it never gives a standard one.
THEOREM DescriptorsLowest == Spec => []LowestDescriptor
PROOF
  <1>1. LowestInv => LowestDescriptor
    BY GoodIsLowest DEF LowestInv, TablesInv, LowestDescriptor
  <1> QED BY <1>1, LowestInit, LowestStep, PTL DEF Spec

(***************************************************************************)
(* Type correctness.  D is the database and P the virtual files opened so  *)
(* far: both only grow, and what a table or a handler knows of them stays. *)
(***************************************************************************)
Contents == {s \in Seq(Nat) : Len(s) <= MaxLen}

DbOK(D) ==
    /\ D = [names |-> D.names, data |-> D.data]
    /\ D.names \in [DOMAIN D.names -> 1 .. Len(D.data)]
    /\ D.data \in Seq(Contents)
FileOK(f, D) ==
    /\ f \in [kind : {"file", "dir"}, name : {f.name}, ino : 0 .. Len(D.data), data : Contents, off : Nat,
              dirty : BOOLEAN, append : BOOLEAN, listed : BOOLEAN, overlapped : BOOLEAN, failed : BOOLEAN]
    /\ f.kind = "dir" => ~f.dirty
OpsOK(P, D) == IsSeq(P) /\ \A o \in 1 .. Len(P) : FileOK(P[o], D)
DataOK(P, D) == DbOK(D) /\ OpsOK(P, D)

EntryOK(e, P) == /\ ShapedEntry(e)
                 /\ IF e.kind = "pass" THEN e.k \in Fds ELSE e.kind = "virt" /\ e.o \in 1 .. Len(P)

\* The inodes of file o.
Inos(P, D, o) == IF P[o].ino # 0 THEN {P[o].ino} ELSE {D.names[n] : n \in {P[o].name} \cap DOMAIN D.names}

\* The call is past the duplication of dup2 or dup3.
Installing(c) == c.pc \in {"closeold", "install"} \/ (c.pc \in {"flush", "pwrite", "truncate"} /\ c.next = "install")
\* ... or has made a kernel descriptor that no entry has yet.
Makes(c) == c.pc \in {"alloc", "allocmin"} \/ Installing(c)
Flushes(c) == c.pc \in {"flush", "pwrite", "truncate"}
Writes(c) == c.pc \in {"pwrite", "truncate"}

CallTyped(c, P, D) ==
    /\ Makes(c) => ShapedEntry(c.e) /\ IF c.e.kind = "pass" THEN c.k \in Fds ELSE EntryOK(c.e, P)
    /\ c.pc \in {"alloc", "allocmin"} => c.e.kind = "pass"
    /\ c.pc = "dup" => EntryOK(c.e, P) /\ c.e.kind = "pass" /\ c.next \in {"alloc", "allocmin", "closeold"}
    /\ c.pc = "pipe" => EntryOK(c.e, P) /\ EntryOK(c.old, P)
    /\ c.pc = "closeold" \/ (c.pc = "dup" /\ c.next = "closeold") => c.old = NoEntry \/ EntryOK(c.old, P)
    /\ Flushes(c) => c.o \in 1 .. Len(P) /\ P[c.o].kind = "file" /\ c.next \in {"idle", "install"}
    /\ Flushes(c) /\ c.next = "install" => c.old.kind = "virt" /\ c.old.o = c.o
    /\ Writes(c) => c.ino \in Inos(P, D, c.o) /\ c.data \in Contents

TypeInv ==
    /\ DataOK(ops, db)
    /\ \A a \in Threads : CallTyped(call[a], ops, db)
    /\ \A n \in 1 .. Len(tables) : \A v \in DOMAIN tables[n].entries : EntryOK(tables[n].entries[v], ops)

\* Files and names are only added, and keep their inodes.
Grows(P, D, Q, E) ==
    /\ Len(P) \in Nat /\ Len(Q) \in Nat /\ Len(P) <= Len(Q)
    /\ \A o \in 1 .. Len(P) : Q[o].kind = P[o].kind /\ Q[o].name = P[o].name /\ Q[o].ino = P[o].ino
    /\ \A n \in DOMAIN D.names : n \in DOMAIN E.names /\ E.names[n] = D.names[n]

LEMMA GrowsEntry ==
    ASSUME NEW e, NEW P, NEW D, NEW Q, NEW E, EntryOK(e, P), Grows(P, D, Q, E)
    PROVE  EntryOK(e, Q)
PROOF
  <1>1. 1 .. Len(P) \subseteq 1 .. Len(Q)
    BY DEF Grows
  <1> QED BY <1>1 DEF EntryOK

LEMMA GrowsInos ==
    ASSUME NEW P, NEW D, NEW Q, NEW E, NEW o \in 1 .. Len(P), Grows(P, D, Q, E)
    PROVE  Inos(P, D, o) \subseteq Inos(Q, E, o)
PROOF
  <1>1. Q[o].ino = P[o].ino /\ Q[o].name = P[o].name
    BY DEF Grows
  <1>2. \A n \in DOMAIN D.names : n \in DOMAIN E.names /\ E.names[n] = D.names[n]
    BY DEF Grows
  <1> QED BY <1>1, <1>2 DEF Inos

LEMMA GrowsCall ==
    ASSUME NEW c, NEW P, NEW D, NEW Q, NEW E, CallTyped(c, P, D), Grows(P, D, Q, E)
    PROVE  CallTyped(c, Q, E)
PROOF
  <1>1. \A e : EntryOK(e, P) => EntryOK(e, Q)
    BY GrowsEntry
  <1>2. Flushes(c) => c.o \in 1 .. Len(Q) /\ Q[c.o].kind = "file"
    BY DEF CallTyped, Grows
  <1>3. Writes(c) => c.ino \in Inos(Q, E, c.o)
    <2>1. Writes(c) => Flushes(c)
      BY DEF Writes, Flushes
    <2> QED BY <2>1, GrowsInos DEF CallTyped
  <1> QED BY <1>1, <1>2, <1>3 DEF CallTyped

LEMMA NothingGrows ==
    ASSUME NEW P, NEW D, DataOK(P, D)
    PROVE  Grows(P, D, P, D)
BY DEF Grows, DataOK, OpsOK, IsSeq

\* A step: thread a's call becomes c.
Becomes(a, c) == call' = [call EXCEPT ![a] = c]

\* What has to be shown of a step: its calls, its data, and the table that is new.
LEMMA TypedKept ==
    ASSUME LowestInv, TypeInv, NEW a \in Threads, DataOK(ops', db'), Grows(ops, db, ops', db'),
           \A b \in Threads : CallTyped(call'[b], ops', db') \/ call'[b] = call[b],
           \/ tables' = tables
           \/ \E t : /\ SetTable(a, t) \/ tables' = Append(tables, t)
                     /\ \A v \in DOMAIN t.entries : EntryOK(t.entries[v], ops')
    PROVE  TypeInv'
PROOF
  <1>1. PICK S : tables \in Seq(S)
    BY DEF LowestInv, TablesInv, IsSeq
  <1>2. Ix(a) \in 1 .. Len(tables) /\ Len(tables) \in Nat
    BY <1>1, TableIn
  <1>3. \A e : EntryOK(e, ops) => EntryOK(e, ops')
    BY GrowsEntry
  <1>4. ASSUME NEW b \in Threads PROVE CallTyped(call'[b], ops', db')
    <2>1. CallTyped(call[b], ops', db')
      BY GrowsCall DEF TypeInv
    <2> QED BY <2>1
  <1>5. \A n \in 1 .. Len(tables) : \A v \in DOMAIN tables[n].entries : EntryOK(tables[n].entries[v], ops')
    BY <1>3 DEF TypeInv
  <1>6. ASSUME NEW n \in 1 .. Len(tables'), NEW v \in DOMAIN tables'[n].entries
        PROVE  EntryOK(tables'[n].entries[v], ops')
    <2>1. CASE tables' = tables
      BY <1>5, <1>6, <2>1
    <2>2. ASSUME NEW t, SetTable(a, t) \/ tables' = Append(tables, t), \A x \in DOMAIN t.entries : EntryOK(t.entries[x], ops')
          PROVE  EntryOK(tables'[n].entries[v], ops')
      <3>1. tables \in Seq(S \cup {t})
        BY <1>1
      <3>2. tables'[n] = t \/ (n \in 1 .. Len(tables) /\ tables'[n] = tables[n])
        <4>1. CASE SetTable(a, t)
          BY <1>2, <1>6, <3>1, <4>1 DEF SetTable
        <4>2. CASE tables' = Append(tables, t)
          BY <1>2, <1>6, <3>1, <4>2
        <4> QED BY <2>2, <4>1, <4>2
      <3> QED BY <1>5, <1>6, <2>2, <3>2
    <2> QED BY <2>1, <2>2
  <1> QED BY <1>4, <1>6 DEF TypeInv

LEMMA TypeKept ==
    ASSUME LowestInv, TypeInv, NEW a \in Threads, NEW c, Becomes(a, c),
           CallTyped(c, ops', db'), DataOK(ops', db'), Grows(ops, db, ops', db'),
           tables' = tables \/ \E t : SetTable(a, t) /\ \A v \in DOMAIN t.entries : EntryOK(t.entries[v], ops')
    PROVE  TypeInv'
PROOF
  <1>1. \A b \in Threads : CallTyped(call'[b], ops', db') \/ call'[b] = call[b]
    BY DEF LowestInv, CallsInv, Becomes
  <1> QED BY <1>1, TypedKept

-----------------------------------------------------------------------------
(* The steps of the data.                                                  *)

LEMMA ChangedOK ==
    ASSUME NEW P, NEW D, DataOK(P, D), NEW o \in 1 .. Len(P), NEW f, FileOK(f, D),
           f.kind = P[o].kind, f.name = P[o].name, f.ino = P[o].ino, NEW Q, Q = [P EXCEPT ![o] = f]
    PROVE  DataOK(Q, D) /\ Grows(P, D, Q, D)
PROOF
  <1>1. PICK S : P \in Seq(S)
    BY DEF DataOK, OpsOK, IsSeq
  <1>2. P \in Seq(S \cup {f})
    BY <1>1
  <1>3. Q \in Seq(S \cup {f}) /\ Len(Q) = Len(P) /\ Len(P) \in Nat
    BY <1>2
  <1>4. \A u \in 1 .. Len(P) : Q[u] = IF u = o THEN f ELSE P[u]
    BY <1>1
  <1>5. \A u \in 1 .. Len(Q) : FileOK(Q[u], D)
    BY <1>3, <1>4 DEF DataOK, OpsOK
  <1>6. DataOK(Q, D)
    BY <1>3, <1>5 DEF DataOK, OpsOK, IsSeq
  <1> QED BY <1>3, <1>4, <1>6 DEF Grows

LEMMA OpenedOK ==
    ASSUME NEW P, NEW D, DataOK(P, D), NEW f, FileOK(f, D), NEW Q, Q = Append(P, f)
    PROVE  /\ DataOK(Q, D) /\ Grows(P, D, Q, D) /\ Len(Q) = Len(P) + 1 /\ Len(P) \in Nat
           /\ \A u \in 1 .. Len(P) : Q[u] = P[u]
           /\ Q[Len(Q)] = f
PROOF
  <1>1. PICK S : P \in Seq(S)
    BY DEF DataOK, OpsOK, IsSeq
  <1>2. P \in Seq(S \cup {f})
    BY <1>1
  <1>3. Q \in Seq(S \cup {f}) /\ Len(Q) = Len(P) + 1 /\ Len(P) \in Nat
    BY <1>2
  <1>4. \A u \in 1 .. Len(P) + 1 : Q[u] = IF u = Len(P) + 1 THEN f ELSE P[u]
    BY <1>1
  <1>5. \A u \in 1 .. Len(P) : Q[u] = P[u]
    BY <1>3, <1>4
  <1>6. \A u \in 1 .. Len(Q) : FileOK(Q[u], D)
    <2>1. \A u \in 1 .. Len(P) + 1 : u = Len(P) + 1 \/ u \in 1 .. Len(P)
      BY <1>3
    <2> QED BY <1>3, <1>4, <2>1 DEF DataOK, OpsOK
  <1>7. DataOK(Q, D)
    BY <1>3, <1>6 DEF DataOK, OpsOK, IsSeq
  <1>8. Q[Len(Q)] = f
    BY <1>3, <1>4
  <1> QED BY <1>3, <1>5, <1>7, <1>8 DEF Grows

\* A name is added, for an inode there is or a new and empty one.
Named(D, E, n, i) ==
    /\ n \notin DOMAIN D.names /\ i \in 1 .. Len(E.data) /\ E.data \in {D.data, Append(D.data, <<>>)}
    /\ E = [names |-> [m \in DOMAIN D.names \cup {n} |-> IF m = n THEN i ELSE D.names[m]], data |-> E.data]

LEMMA NoContent == <<>> \in Contents
BY SandboxAssumption DEF Contents

LEMMA NamedOK ==
    ASSUME NEW P, NEW D, DataOK(P, D), NEW E, NEW n, NEW i, Named(D, E, n, i)
    PROVE  /\ DataOK(P, E) /\ Grows(P, D, P, E) /\ n \in DOMAIN E.names /\ E.names[n] = i
           /\ Len(D.data) \in Nat /\ Len(D.data) <= Len(E.data)
           /\ \A j \in 1 .. Len(D.data) : E.data[j] = D.data[j]
PROOF
  <1>1. D.data \in Seq(Contents) /\ E.data \in Seq(Contents)
    BY NoContent DEF DataOK, DbOK, Named
  <1>2. Len(D.data) \in Nat /\ Len(E.data) \in Nat /\ Len(D.data) <= Len(E.data)
    BY <1>1, NoContent DEF Named
  <1>3. \A j \in 1 .. Len(D.data) : E.data[j] = D.data[j]
    <2>1. ASSUME E.data = Append(D.data, <<>>), NEW j \in 1 .. Len(D.data) PROVE E.data[j] = D.data[j]
      BY <1>1, <2>1, NoContent
    <2> QED BY <2>1 DEF Named
  <1>4. E.names = [m \in DOMAIN D.names \cup {n} |-> IF m = n THEN i ELSE D.names[m]]
    BY DEF Named
  <1>5. E = [names |-> E.names, data |-> E.data]
    BY <1>4 DEF Named
  <1>6. DbOK(E)
    <2>1. \A m \in DOMAIN D.names : D.names[m] \in 1 .. Len(E.data)
      BY <1>2 DEF DataOK, DbOK
    <2>2. E.names \in [DOMAIN E.names -> 1 .. Len(E.data)]
      BY <1>4, <2>1 DEF Named
    <2> QED BY <1>1, <1>5, <2>2 DEF DbOK
  <1>7. ASSUME NEW o \in 1 .. Len(P) PROVE FileOK(P[o], E)
    <2>1. FileOK(P[o], D)
      BY DEF DataOK, OpsOK
    <2>2. 0 .. Len(D.data) \subseteq 0 .. Len(E.data)
      BY <1>2
    <2> QED BY <2>1, <2>2 DEF FileOK
  <1>8. \A m \in DOMAIN D.names : m \in DOMAIN E.names /\ E.names[m] = D.names[m]
    BY <1>4 DEF Named
  <1>9. Len(P) \in Nat
    BY DEF DataOK, OpsOK, IsSeq
  <1>10. n \in DOMAIN E.names /\ E.names[n] = i
    BY <1>4
  <1>11. DataOK(P, E)
    BY <1>6, <1>7 DEF DataOK, OpsOK
  <1>12. Grows(P, D, P, E)
    BY <1>8, <1>9 DEF Grows
  <1> QED BY <1>2, <1>3, <1>10, <1>11, <1>12

\* The content of an inode is replaced.
LEMMA OverwrittenOK ==
    ASSUME NEW P, NEW D, DataOK(P, D), NEW i \in 1 .. Len(D.data), NEW s \in Contents,
           NEW E, E = [D EXCEPT !.data[i] = s]
    PROVE  /\ DataOK(P, E) /\ Grows(P, D, P, E) /\ Len(E.data) = Len(D.data) /\ E.names = D.names
           /\ \A j \in 1 .. Len(D.data) : E.data[j] = IF j = i THEN s ELSE D.data[j]
PROOF
  <1>1. D = [names |-> D.names, data |-> D.data] /\ D.data \in Seq(Contents)
    BY DEF DataOK, DbOK
  <1>2. E = [names |-> D.names, data |-> [D.data EXCEPT ![i] = s]]
    BY <1>1
  <1>3. E.names = D.names /\ E.data = [D.data EXCEPT ![i] = s] /\ E = [names |-> E.names, data |-> E.data]
    BY <1>2
  <1>4. E.data \in Seq(Contents) /\ Len(E.data) = Len(D.data)
    BY <1>1, <1>3
  <1>5. \A j \in 1 .. Len(D.data) : E.data[j] = IF j = i THEN s ELSE D.data[j]
    BY <1>1, <1>3
  <1>6. DbOK(E)
    BY <1>3, <1>4 DEF DbOK, DataOK
  <1>7. OpsOK(P, E)
    BY <1>4 DEF DataOK, OpsOK, FileOK
  <1>8. Len(P) \in Nat
    BY DEF DataOK, OpsOK, IsSeq
  <1> QED BY <1>3, <1>4, <1>5, <1>6, <1>7, <1>8 DEF DataOK, Grows

\* get_or_create_ino of a file without an inode takes the next one.
LEMMA Creates ==
    ASSUME DataOK(ops, db), NEW n, n \notin DOMAIN db.names
    PROVE  Named(db, CreateName(n, <<>>), n, Len(db.data) + 1)
PROOF
  <1>1. db.data \in Seq(Contents)
    BY DEF DataOK, DbOK
  <1>2. Len(db.data) \in Nat /\ DOMAIN db.data = 1 .. Len(db.data)
    BY <1>1
  <1>3. Cardinality(DOMAIN db.data) = Len(db.data)
    BY <1>2, FS_Interval
  <1>4. CreateName(n, <<>>).data = Append(db.data, <<>>) /\ Len(Append(db.data, <<>>)) = Len(db.data) + 1
    BY <1>1, NoContent DEF CreateName
  <1>5. CreateName(n, <<>>) = [names |-> [m \in DOMAIN db.names \cup {n} |-> IF m = n THEN Len(db.data) + 1 ELSE db.names[m]],
                               data |-> Append(db.data, <<>>)]
    BY <1>3 DEF CreateName
  <1>6. Len(db.data) + 1 \in 1 .. Len(db.data) + 1
    BY <1>2
  <1> QED BY <1>4, <1>5, <1>6 DEF Named

\* A file's content s while d is written over it: pwrite, then truncate.
Over(s, d) == d \o SubSeq(s, Len(d) + 1, Len(s))
Cut(s, d) == [k \in 1 .. Len(d) |-> IF k <= Len(s) THEN s[k] ELSE 0]
StartsWith(s, d) == Len(d) <= Len(s) /\ \A k \in 1 .. Len(d) : s[k] = d[k]

LEMMA OverOK ==
    ASSUME NEW s \in Contents, NEW d \in Contents
    PROVE  Over(s, d) \in Contents /\ StartsWith(Over(s, d), d) /\ (s = d => Over(s, d) = d)
PROOF
  <1>1. /\ s \in Seq(Nat) /\ Len(s) \in Nat /\ Len(s) <= MaxLen
        /\ d \in Seq(Nat) /\ Len(d) \in Nat /\ Len(d) <= MaxLen
    BY DEF Contents
  <1> DEFINE r == SubSeq(s, Len(d) + 1, Len(s))
  <1>2. r \in Seq(Nat) /\ Len(r) = IF Len(d) + 1 <= Len(s) THEN Len(s) - Len(d) ELSE 0
    <2>1. \A i \in Len(d) + 1 .. Len(s) : s[i] \in Nat
      BY <1>1, ElementOfSeq
    <2>2. r \in Seq(Nat) /\ Len(r) = IF Len(d) + 1 <= Len(s) THEN Len(s) - (Len(d) + 1) + 1 ELSE 0
      BY <1>1, <2>1, SubSeqProperties
    <2> QED BY <1>1, <2>2
  <1> HIDE DEF r
  <1>3. Over(s, d) = d \o r
    BY DEF Over, r
  <1>4. d \o r \in Seq(Nat) /\ Len(d \o r) = Len(d) + Len(r) /\ \A k \in 1 .. Len(d) : (d \o r)[k] = d[k]
    <2>1. /\ d \o r \in Seq(Nat) /\ Len(d \o r) = Len(d) + Len(r)
          /\ \A k \in 1 .. Len(d) + Len(r) : (d \o r)[k] = IF k <= Len(d) THEN d[k] ELSE r[k - Len(d)]
      BY <1>1, <1>2, ConcatProperties
    <2>2. Len(r) \in Nat
      BY <1>2
    <2> QED BY <1>1, <2>1, <2>2
  <1>5. Len(d \o r) <= MaxLen /\ Len(d) <= Len(d \o r)
    BY <1>1, <1>2, <1>4
  <1>6. ASSUME s = d PROVE d \o r = d
    <2>1. Len(r) = 0
      BY <1>1, <1>2, <1>6
    <2>2. r = <<>>
      BY <1>2, <2>1
    <2> QED BY <1>1, <2>2
  <1> QED BY <1>3, <1>4, <1>5, <1>6 DEF Contents, StartsWith

LEMMA StartsWithItself == ASSUME NEW d \in Contents PROVE StartsWith(d, d)
BY DEF StartsWith, Contents

\* A beginning of what is being written anyway.
LEMMA OverStarts ==
    ASSUME NEW s \in Contents, NEW d \in Contents, StartsWith(s, d), NEW n \in 0 .. Len(d)
    PROVE  StartsWith(Over(s, SubSeq(d, 1, n)), d)
PROOF
  <1>1. /\ s \in Seq(Nat) /\ Len(s) \in Nat /\ d \in Seq(Nat) /\ Len(d) \in Nat /\ n \in Nat /\ n <= Len(d)
        /\ Len(d) <= Len(s)
    BY DEF Contents, StartsWith
  <1> DEFINE p == SubSeq(d, 1, n)
             r == SubSeq(s, n + 1, Len(s))
  <1>2. p \in Seq(Nat) /\ Len(p) = n /\ \A k \in 1 .. n : p[k] = d[k]
    <2>1. \A i \in 1 .. n : d[i] \in Nat
      BY <1>1, ElementOfSeq
    <2>2. /\ p \in Seq(Nat) /\ Len(p) = (IF 1 <= n THEN n - 1 + 1 ELSE 0)
          /\ \A k \in 1 .. n - 1 + 1 : p[k] = d[1 + k - 1]
      BY <1>1, <2>1, SubSeqProperties
    <2> HIDE DEF p
    <2> QED BY <1>1, <2>2
  <1>3. r \in Seq(Nat) /\ Len(r) = Len(s) - n /\ \A k \in 1 .. Len(s) - n : r[k] = s[n + k]
    <2>1. \A i \in n + 1 .. Len(s) : s[i] \in Nat
      BY <1>1, ElementOfSeq
    <2>2. /\ r \in Seq(Nat) /\ Len(r) = (IF n + 1 <= Len(s) THEN Len(s) - (n + 1) + 1 ELSE 0)
          /\ \A k \in 1 .. Len(s) - (n + 1) + 1 : r[k] = s[n + 1 + k - 1]
      BY <1>1, <2>1, SubSeqProperties
    <2> HIDE DEF r
    <2> QED BY <1>1, <2>2
  <1>4. Over(s, p) = p \o r
    BY <1>2 DEF Over
  <1> HIDE DEF p, r
  <1>5. /\ Len(p \o r) = Len(p) + Len(r)
        /\ \A k \in 1 .. Len(p) + Len(r) : (p \o r)[k] = IF k <= Len(p) THEN p[k] ELSE r[k - Len(p)]
    BY <1>2, <1>3, ConcatProperties
  <1>6. Len(p \o r) = Len(s)
    BY <1>1, <1>2, <1>3, <1>5
  <1>7. ASSUME NEW k \in 1 .. Len(d) PROVE (p \o r)[k] = d[k]
    <2>1. s[k] = d[k] /\ k \in 1 .. Len(s) /\ k \in Nat
      BY <1>1 DEF StartsWith
    <2>2. k \in 1 .. Len(p) + Len(r)
      BY <1>1, <1>2, <1>3, <2>1
    <2>3. CASE k <= n
      BY <1>2, <1>5, <2>2, <2>3
    <2>4. CASE ~(k <= n)
      <3>1. k - n \in 1 .. Len(s) - n /\ n + (k - n) = k
        BY <1>1, <2>1, <2>4
      <3>2. r[k - n] = s[k]
        BY <1>3, <3>1
      <3> QED BY <1>2, <1>5, <2>1, <2>2, <2>4, <3>2
    <2> QED BY <2>3, <2>4
  <1>8. StartsWith(p \o r, d)
    BY <1>1, <1>6, <1>7 DEF StartsWith
  <1> QED BY <1>4, <1>8 DEF p

LEMMA CutOK ==
    ASSUME NEW s \in Contents, NEW d \in Contents
    PROVE  Cut(s, d) \in Contents /\ (StartsWith(s, d) => Cut(s, d) = d)
PROOF
  <1>1. /\ s \in Seq(Nat) /\ Len(s) \in Nat /\ d \in Seq(Nat) /\ Len(d) \in Nat /\ Len(d) <= MaxLen
    BY DEF Contents
  <1>2. \A k \in 1 .. Len(d) : Cut(s, d)[k] = (IF k <= Len(s) THEN s[k] ELSE 0) /\ Cut(s, d)[k] \in Nat
    BY <1>1 DEF Cut
  <1>3. Cut(s, d) \in Seq(Nat) /\ Len(Cut(s, d)) = Len(d)
    BY <1>1, <1>2 DEF Cut
  <1>4. ASSUME StartsWith(s, d) PROVE Cut(s, d) = d
    <2>1. \A k \in 1 .. Len(d) : Cut(s, d)[k] = d[k]
      BY <1>1, <1>2, <1>4 DEF StartsWith
    <2> QED BY <1>1, <1>3, <2>1, SeqEqual
  <1> QED BY <1>1, <1>3, <1>4 DEF Contents

\* write(2) of one byte.
Wrote(f, x) == [Written(f, 1) EXCEPT !.overlapped = x]

LEMMA WrittenOK ==
    ASSUME NEW D, NEW f, FileOK(f, D), f.kind = "file", Len(Written(f, 1).data) <= MaxLen, NEW x \in BOOLEAN,
           NEW g, g = Wrote(f, x)
    PROVE  /\ FileOK(g, D) /\ g.kind = f.kind /\ g.name = f.name /\ g.ino = f.ino
           /\ g.dirty /\ g.overlapped = x
PROOF
  <1> DEFINE at == IF f.append THEN Len(f.data) ELSE f.off
             n == IF at + 1 > Len(f.data) THEN at + 1 ELSE Len(f.data)
             s == [k \in 1 .. n |-> IF k = at + 1 THEN 1 ELSE IF k <= Len(f.data) THEN f.data[k] ELSE 0]
  <1>1. f.data \in Seq(Nat) /\ Len(f.data) \in Nat /\ f.off \in Nat /\ f.overlapped \in BOOLEAN
    BY DEF FileOK, Contents
  <1>2. at \in Nat /\ n \in Nat
    BY <1>1
  <1>3. \A k \in 1 .. n : s[k] \in Nat
    BY <1>1, <1>2
  <1>4. s \in Seq(Nat)
    <2>1. s \in [1 .. n -> Nat]
      BY <1>3
    <2> HIDE DEF s, n
    <2> QED BY <1>2, <2>1
  <1>5. Written(f, 1) = [f EXCEPT !.data = s, !.off = at + 1, !.dirty = TRUE]
    BY DEF Written, FileOK
  <1> HIDE DEF s, at, n
  <1>6. Written(f, 1).data = s
    BY <1>5 DEF FileOK
  <1>7. s \in Contents
    BY <1>4, <1>6 DEF Contents
  <1>8. g = [f EXCEPT !.data = s, !.off = at + 1, !.dirty = TRUE, !.overlapped = x]
    BY <1>5 DEF FileOK, Wrote
  <1>9. at + 1 \in Nat
    BY <1>1, <1>2
  <1> QED BY <1>7, <1>8, <1>9 DEF FileOK

\* A call on a virtual file leaves it alone, or moves its offset, or writes.
Touch(a, v, f) ==
    /\ VirtualFd(a, v) /\ OnVirtual(a, v, f)
    /\ FileOK(f, db) /\ f.kind = Ops(a, v).kind /\ f.name = Ops(a, v).name /\ f.ino = Ops(a, v).ino
    /\ \/ /\ f.data = Ops(a, v).data /\ f.dirty = Ops(a, v).dirty
          /\ f.overlapped = Ops(a, v).overlapped /\ f.failed = Ops(a, v).failed
       \/ f.dirty /\ f.kind = "file" /\ f.overlapped = (Ops(a, v).overlapped \/ Flushing(Entry(a, v).o))
NamesOne == ops' = ops /\ \E n, i : Named(db, db', n, i)

LEMMA VirtualFile ==
    ASSUME TypeInv, LowestInv, NEW a \in Threads, NEW v, VirtualFd(a, v)
    PROVE  Entry(a, v).o \in 1 .. Len(ops) /\ FileOK(Ops(a, v), db) /\ Has(Table(a), v)
PROOF
  <1>1. Has(Table(a), v) /\ Entry(a, v) = Table(a).entries[v]
    BY DEF VirtualFd, Entry, NoEntry
  <1>2. EntryOK(Entry(a, v), ops)
    BY <1>1, TableIn DEF TypeInv, Has
  <1>3. Entry(a, v).o \in 1 .. Len(ops)
    BY <1>2 DEF EntryOK, VirtualFd
  <1> QED BY <1>1, <1>3 DEF TypeInv, DataOK, OpsOK, Ops

LEMMA CallsData ==
    ASSUME TypeInv, LowestInv, NEW a \in Threads, UsesDescriptor(a) \/ NamesPath(a)
    PROVE  UNCHANGED <<ops, db>> \/ (\E v \in Fds : \E f : Touch(a, v, f)) \/ NamesOne
PROOF
  <1> DEFINE Goal == UNCHANGED <<ops, db>> \/ (\E v \in Fds : \E f : Touch(a, v, f)) \/ NamesOne
  <1>1. ASSUME NEW v \in Fds, VirtualFd(a, v), OnVirtual(a, v, Ops(a, v)) PROVE Goal
    BY <1>1, VirtualFile DEF Touch
  <1>2. ASSUME NEW v, Forward(a, v) PROVE Goal
    BY <1>2 DEF Forward, Untranslated
  <1>3. ASSUME NEW S, PathCall(a, S) PROVE Goal
    BY <1>3 DEF PathCall
  <1>4. ASSUME OnePath(a) PROVE Goal
    BY <1>3, <1>4 DEF OnePath
  <1>5. ASSUME Answer(a) PROVE Goal
    BY <1>5 DEF Answer
  <1>6. DataOK(ops, db)
    BY DEF TypeInv
  <1>7. ASSUME handle_read(a) PROVE Goal
    <2>1. PICK v \in Fds :
             IF ~VirtualFd(a, v) THEN Forward(a, v)
             ELSE OnVirtual(a, v, IF Ops(a, v).off < Len(Ops(a, v).data) THEN [Ops(a, v) EXCEPT !.off = @ + 1] ELSE Ops(a, v))
      BY <1>7 DEF handle_read
    <2>2. ASSUME VirtualFd(a, v), NEW f, f = [Ops(a, v) EXCEPT !.off = @ + 1], OnVirtual(a, v, f) PROVE Goal
      <3>1. FileOK(Ops(a, v), db)
        BY <2>2, VirtualFile
      <3>2. f = [Ops(a, v) EXCEPT !.off = Ops(a, v).off + 1] /\ Ops(a, v).off + 1 \in Nat
        BY <2>2, <3>1 DEF FileOK
      <3>3. Touch(a, v, f)
        BY <2>2, <3>1, <3>2 DEF Touch, FileOK
      <3> QED BY <3>3
    <2> QED BY <1>1, <1>2, <2>1, <2>2
  <1>8. ASSUME handle_write(a) PROVE Goal
    <2>1. PICK v \in Fds :
             IF ~VirtualFd(a, v) THEN Forward(a, v)
             ELSE IF ~IsFile(Entry(a, v).o) THEN OnVirtual(a, v, Ops(a, v))
             ELSE LET f == Written(Ops(a, v), 1)
                  IN Len(f.data) <= MaxLen /\ OnVirtual(a, v, [f EXCEPT !.overlapped = @ \/ Flushing(Entry(a, v).o)])
      BY <1>8 DEF handle_write
    <2>2. ASSUME VirtualFd(a, v), IsFile(Entry(a, v).o) PROVE Goal
      <3> DEFINE w == Written(Ops(a, v), 1)
      <3>1. FileOK(Ops(a, v), db) /\ Ops(a, v).kind = "file"
        BY <2>2, VirtualFile DEF IsFile, Ops
      <3>2. w.overlapped = Ops(a, v).overlapped
        BY <3>1 DEF FileOK, Written
      <3>3. Len(w.data) <= MaxLen /\ OnVirtual(a, v, [w EXCEPT !.overlapped = @ \/ Flushing(Entry(a, v).o)])
        BY <2>1, <2>2
      <3>4. PICK x \in BOOLEAN : x = (Ops(a, v).overlapped \/ Flushing(Entry(a, v).o))
        BY DEF Flushing
      <3>5. PICK g : g = Wrote(Ops(a, v), x)
        OBVIOUS
      <3>6. [w EXCEPT !.overlapped = @ \/ Flushing(Entry(a, v).o)] = g
        BY <3>2, <3>4, <3>5 DEF Wrote
      <3>7. /\ FileOK(g, db) /\ g.kind = Ops(a, v).kind /\ g.name = Ops(a, v).name /\ g.ino = Ops(a, v).ino
            /\ g.dirty /\ g.overlapped = x
        BY <3>1, <3>3, <3>5, WrittenOK
      <3>8. Touch(a, v, g)
        BY <2>2, <3>1, <3>3, <3>4, <3>6, <3>7 DEF Touch
      <3> QED BY <3>8
    <2> QED BY <1>1, <1>2, <2>1, <2>2
  <1>9. ASSUME handle_lseek(a) PROVE Goal
    <2>1. PICK v \in Fds :
             IF ~VirtualFd(a, v) THEN Forward(a, v)
             ELSE IF ~IsFile(Entry(a, v).o) THEN OnVirtual(a, v, Ops(a, v))
             ELSE \E to \in 0 .. MaxLen : OnVirtual(a, v, [Ops(a, v) EXCEPT !.off = to])
      BY <1>9 DEF handle_lseek
    <2>2. ASSUME VirtualFd(a, v), NEW to \in 0 .. MaxLen, OnVirtual(a, v, [Ops(a, v) EXCEPT !.off = to]) PROVE Goal
      <3>1. FileOK(Ops(a, v), db)
        BY <2>2, VirtualFile
      <3>2. to \in Nat
        OBVIOUS
      <3>3. Touch(a, v, [Ops(a, v) EXCEPT !.off = to])
        BY <2>2, <3>1, <3>2 DEF Touch, FileOK
      <3> QED BY <3>3
    <2> QED BY <1>1, <1>2, <2>1, <2>2
  <1>10. ASSUME handle_fstat(a) PROVE Goal
    <2>1. PICK v \in Fds :
             IF VirtualFd(a, v) /\ IsFile(Entry(a, v).o) /\ CanCreate(Entry(a, v).o)
             THEN get_or_create_ino(Entry(a, v).o) /\ ops' = ops
             ELSE IF VirtualFd(a, v) THEN OnVirtual(a, v, Ops(a, v)) ELSE Forward(a, v)
      BY <1>10 DEF handle_fstat
    <2>2. ASSUME CanCreate(Entry(a, v).o), get_or_create_ino(Entry(a, v).o), ops' = ops PROVE Goal
      <3>1. CASE ops[Entry(a, v).o].ino # 0
        BY <2>2, <3>1 DEF get_or_create_ino
      <3>2. CASE ops[Entry(a, v).o].ino = 0
        BY <1>6, <2>2, <3>2, Creates DEF get_or_create_ino, CanCreate, NamesOne
      <3> QED BY <3>1, <3>2
    <2> QED BY <1>1, <1>2, <2>1, <2>2
  <1>11. ASSUME handle_getdents64(a) PROVE Goal
    <2>1. PICK v \in Fds :
             IF ~VirtualFd(a, v) THEN Forward(a, v)
             ELSE OnVirtual(a, v, IF IsFile(Entry(a, v).o) THEN Ops(a, v) ELSE [Ops(a, v) EXCEPT !.listed = TRUE])
      BY <1>11 DEF handle_getdents64
    <2>2. ASSUME VirtualFd(a, v), OnVirtual(a, v, [Ops(a, v) EXCEPT !.listed = TRUE]) PROVE Goal
      <3>1. FileOK(Ops(a, v), db)
        BY <2>2, VirtualFile
      <3>2. Touch(a, v, [Ops(a, v) EXCEPT !.listed = TRUE])
        BY <2>2, <3>1 DEF Touch, FileOK
      <3> QED BY <3>2
    <2> QED BY <1>1, <1>2, <2>1, <2>2
  <1>12. ASSUME MakeSymlink(a) PROVE Goal
    <2>1. PICK p \in Paths : IF NewName(p) THEN StoredName(a, CreateName(translate_to_relative(p)[1], <<>>))
                             ELSE IF Virtual(p) THEN Answer(a) ELSE PathCall(a, {p})
      BY <1>12 DEF MakeSymlink
    <2>2. ASSUME NewName(p), StoredName(a, CreateName(translate_to_relative(p)[1], <<>>)) PROVE Goal
      <3>1. translate_to_relative(p)[1] \notin DOMAIN db.names
        BY <2>2 DEF NewName
      <3> QED BY <1>6, <2>2, <3>1, Creates DEF StoredName, NamesOne
    <2> QED BY <1>3, <1>5, <2>1, <2>2
  <1>13. ASSUME handle_linkat(a) PROVE Goal
    <2>1. PICK p \in Paths, q \in Paths :
             \/ PathCall(a, {p, q}) \/ Answer(a)
             \/ LET n == translate_to_relative(q)[1]
                    i == db.names[translate_to_relative(p)[1]]
                IN /\ NewName(q) /\ translate_to_relative(p)[1] \in DOMAIN db.names
                   /\ StoredName(a, [db EXCEPT !.names = [m \in DOMAIN @ \cup {n} |-> IF m = n THEN i ELSE @[m]]])
      BY <1>13 DEF handle_linkat
    <2>2. ASSUME NEW n, NEW m0, n \notin DOMAIN db.names, m0 \in DOMAIN db.names,
                 StoredName(a, [db EXCEPT !.names = [m \in DOMAIN @ \cup {n} |-> IF m = n THEN db.names[m0] ELSE @[m]]])
          PROVE  Goal
      <3>1. db = [names |-> db.names, data |-> db.data] /\ db.names[m0] \in 1 .. Len(db.data)
        BY <1>6, <2>2 DEF DataOK, DbOK
      <3>2. db' = [names |-> [m \in DOMAIN db.names \cup {n} |-> IF m = n THEN db.names[m0] ELSE db.names[m]], data |-> db.data]
        BY <2>2, <3>1 DEF StoredName
      <3>3. db'.data = db.data
        BY <3>2
      <3>4. Named(db, db', n, db.names[m0])
        BY <2>2, <3>1, <3>2, <3>3 DEF Named
      <3> QED BY <2>2, <3>4 DEF StoredName, NamesOne
    <2> QED BY <1>3, <1>5, <2>1, <2>2 DEF NewName
  <1>14. ASSUME UsesDescriptor(a) PROVE Goal
    <2>1. Translate(a) => Goal
      BY <1>2 DEF Translate
    <2> HIDE DEF Goal
    <2> QED BY <1>7, <1>8, <1>9, <1>10, <1>11, <1>14, <2>1
            DEF UsesDescriptor, handle_ioctl, handle_pread64, handle_pwrite64, handle_mmap, handle_readv,
                handle_writev, handle_sendto, handle_connect, handle_getpeername, handle_pselect6, handle_poll
  <1>15. ASSUME NamesPath(a) PROVE Goal
    <2>1. handle_rename(a) => Goal
      BY <1>3 DEF handle_rename
    <2>2. AtCall(a) => Goal
      BY <1>2, <1>4 DEF AtCall
    <2>3. Reads(a) => Goal
      BY <1>3, <1>5 DEF Reads
    <2>4. ReadsAt(a) => Goal
      BY <2>3 DEF ReadsAt, Untranslated
    <2> HIDE DEF Goal
    <2> QED BY <1>4, <1>12, <1>13, <1>15, <2>1, <2>2, <2>3, <2>4
            DEF NamesPath, handle_access, handle_unlink, handle_chdir, handle_rmdir, handle_chmod, handle_statfs,
                handle_llistxattr, handle_lgetxattr, handle_faccessat, handle_faccessat2, handle_fchownat,
                handle_statx, handle_newfstatat, handle_readlink, handle_readlinkat, handle_symlink, handle_symlinkat
  <1> QED BY <1>14, <1>15

-----------------------------------------------------------------------------
(* The steps of the calls.                                                 *)

EntriesOK(T, P) == \A v \in DOMAIN T : EntryOK(T[v], P)
Entered(U, T, v, e) == U = [x \in DOMAIN T \cup {v} |-> IF x = v THEN e ELSE T[x]]

LEMMA TypedTable ==
    ASSUME LowestInv, TypeInv, NEW a \in Threads
    PROVE  /\ EntriesOK(Table(a).entries, ops) /\ Good(Table(a)) /\ Sound(call[a]) /\ CallTyped(call[a], ops, db)
           /\ \A v : Entry(a, v) = NoEntry \/ (Has(Table(a), v) /\ EntryOK(Entry(a, v), ops))
PROOF
  <1>2. EntriesOK(Table(a).entries, ops) /\ Good(Table(a))
    BY TableIn DEF TypeInv, EntriesOK
  <1> QED BY <1>2 DEF LowestInv, CallsInv, TypeInv, EntriesOK, Entry, Has

\* A step that leaves the data alone.
LEMMA TypeSame ==
    ASSUME LowestInv, TypeInv, NEW a \in Threads, NEW c, Becomes(a, c),
           CallTyped(c, ops, db), UNCHANGED <<ops, db>>,
           tables' = tables \/ \E t : SetTable(a, t) /\ EntriesOK(t.entries, ops)
    PROVE  TypeInv'
PROOF
  <1>1. DataOK(ops', db') /\ Grows(ops, db, ops', db') /\ CallTyped(c, ops', db')
    BY NothingGrows DEF TypeInv
  <1>2. (\E t : SetTable(a, t) /\ EntriesOK(t.entries, ops))
           => \E t : SetTable(a, t) /\ \A v \in DOMAIN t.entries : EntryOK(t.entries[v], ops')
    BY DEF EntriesOK
  <1> QED BY <1>1, <1>2, TypeKept

\* A call that goes on with another table.
LEMMA MovedTyped ==
    ASSUME NEW c, Sound(c), NEW P, NEW D, CallTyped(c, P, D), NEW n
    PROVE  CallTyped([c EXCEPT !.t = n], P, D)
PROOF
  <1> DEFINE d == [c EXCEPT !.t = n]
  <1>1. /\ d.pc = c.pc /\ d.e = c.e /\ d.old = c.old /\ d.k = c.k /\ d.o = c.o /\ d.ino = c.ino
        /\ d.data = c.data /\ d.next = c.next
    BY DEF Sound, ShapedCall
  <1> HIDE DEF d
  <1>2. (Makes(d) <=> Makes(c)) /\ (Flushes(d) <=> Flushes(c)) /\ (Writes(d) <=> Writes(c))
    BY <1>1 DEF Makes, Installing, Flushes, Writes
  <1>3. CallTyped(d, P, D)
    BY <1>1, <1>2 DEF CallTyped
  <1> QED BY <1>3 DEF d

\* Calls that keep nothing of the files.
LEMMA PlainCall ==
    ASSUME NEW c, c.pc \in {"idle", "fwd", "open", "kclose", "inherit"}, NEW P, NEW D
    PROVE  CallTyped(c, P, D)
BY DEF CallTyped, Makes, Installing, Flushes, Writes

LEMMA Entering ==
    ASSUME NEW T, NEW P, EntriesOK(T, P), NEW v, NEW e, EntryOK(e, P), NEW U, Entered(U, T, v, e)
    PROVE  EntriesOK(U, P)
BY DEF EntriesOK, Entered

LEMMA Allocating ==
    ASSUME NEW t, Good(t), CanAllocate(t), NEW e, NEW P, EntriesOK(t.entries, P), EntryOK(e, P)
    PROVE  EntriesOK(allocate(t, e).entries, P)
PROOF
  <1>1. Entered(allocate(t, e).entries, t.entries, allocated(t), e)
    BY AllocateGood DEF Entered
  <1> QED BY <1>1, Entering

LEMMA AllocatingAt ==
    ASSUME NEW t, Good(t), NEW v \in Fds, NEW e, NEW P, EntriesOK(t.entries, P), EntryOK(e, P)
    PROVE  EntriesOK(allocate_at(t, v, e).entries, P)
PROOF
  <1>1. Entered(allocate_at(t, v, e).entries, t.entries, v, e)
    BY AllocateAtGood DEF Entered
  <1> QED BY <1>1, Entering

LEMMA FreeKfd ==
    ASSUME NEW a, NEW F, F \subseteq FreeKfds(a), F # {}
    PROVE  Min(F) \in F /\ Min(F) \in Fds
PROOF
  <1>1. F \in SUBSET Nat
    BY FdAssumption DEF FreeKfds, Fds
  <1>2. Min(F) \in F
    BY <1>1, MinInSet
  <1> QED BY <1>2 DEF FreeKfds

\* SqliteVfs::open: a clean file has the content the database has.
Fresh(f, D) == /\ FileOK(f, D) /\ (f.ino # 0 /\ ~f.dirty => f.data = D.data[f.ino])
               /\ f.kind = "dir" => f.ino = 0

LEMMA OnlyOne ==
    ASSUME NEW f
    PROVE  SetToSeq({f}) = <<f>>
PROOF
  <1>1. Cardinality({f}) = 1
    BY FS_Singleton
  <1>2. [1 .. 1 -> {f}] = {<<f>>}
    <2>1. <<f>> \in [1 .. 1 -> {f}]
      OBVIOUS
    <2>2. ASSUME NEW g \in [1 .. 1 -> {f}] PROVE g = <<f>>
      <3>1. DOMAIN g = 1 .. 1 /\ g[1] = f /\ g = [i \in 1 .. 1 |-> f]
        OBVIOUS
      <3>2. <<f>> = [i \in 1 .. 1 |-> f]
        OBVIOUS
      <3> QED BY <3>1, <3>2
    <2> QED BY <2>1, <2>2
  <1>3. IsInjective(<<f>>)
    BY DEF IsInjective
  <1>4. SetToSeq({f}) = CHOOSE g \in {<<f>>} : IsInjective(g)
    BY <1>1, <1>2 DEF SetToSeq
  <1> QED BY <1>3, <1>4

LEMMA OpenVirtualOK ==
    ASSUME TypeInv, NEW rel, NEW flags, OpenVirtual(rel, flags) # {}
    PROVE  \E f : Fresh(f, db) /\ OpenVirtual(rel, flags) = {f}
PROOF
  <1>1. DbOK(db)
    BY DEF TypeInv, DataOK
  <1>2. db.data \in Seq(Contents) /\ Len(db.data) \in Nat
    BY <1>1 DEF DbOK
  <1>3. ASSUME NEW kind \in {"file", "dir"}, NEW n, NEW i \in 0 .. Len(db.data), NEW s \in Contents,
               kind = "dir" => i = 0, i # 0 /\ "trunc" \notin flags => s = db.data[i]
        PROVE  Fresh(NewOps(kind, n, i, s, flags), db)
    <2>1. PICK x \in BOOLEAN : x = (kind = "file" /\ (i = 0 \/ "trunc" \in flags))
      OBVIOUS
    <2>0. ("append" \in flags) \in BOOLEAN
      OBVIOUS
    <2>2. PICK y \in BOOLEAN : y = ("append" \in flags)
      BY <2>0
    <2>3. NewOps(kind, n, i, s, flags) =
             [kind |-> kind, name |-> n, ino |-> i, data |-> s, off |-> 0, dirty |-> x, append |-> y,
              listed |-> FALSE, overlapped |-> FALSE, failed |-> FALSE]
      BY <2>1, <2>2 DEF NewOps
    <2>4. PICK f : f = NewOps(kind, n, i, s, flags)
      OBVIOUS
    <2>5. /\ f \in [kind : {"file", "dir"}, name : {f.name}, ino : 0 .. Len(db.data), data : Contents, off : Nat,
                    dirty : BOOLEAN, append : BOOLEAN, listed : BOOLEAN, overlapped : BOOLEAN, failed : BOOLEAN]
          /\ f.ino = i /\ f.data = s /\ f.kind = kind /\ f.dirty = x
      BY <2>3, <2>4
    <2> QED BY <1>3, <2>1, <2>4, <2>5 DEF Fresh, FileOK
  <1>4. CASE rel = <<>>
    <2>1. OpenVirtual(rel, flags) = {NewOps("dir", "", 0, <<>>, flags)}
      BY <1>4 DEF OpenVirtual
    <2>2. 0 \in 0 .. Len(db.data)
      BY <1>2
    <2>3. Fresh(NewOps("dir", "", 0, <<>>, flags), db)
      <3>1. "dir" \in {"file", "dir"}
        OBVIOUS
      <3> QED BY <1>3, <2>2, <3>1, NoContent
    <2> QED BY <2>1, <2>3
  <1>5. CASE rel # <<>>
    <2>1. Len(rel) <= 1
      BY <1>5 DEF OpenVirtual
    <2>2. CASE rel[1] \in DOMAIN db.names
      <3> DEFINE i == db.names[rel[1]]
                 s == IF "trunc" \in flags THEN <<>> ELSE db.data[i]
      <3>1. i \in 1 .. Len(db.data) /\ i # 0 /\ i \in 0 .. Len(db.data)
        BY <1>1, <1>2, <2>2 DEF DbOK
      <3>2. s \in Contents
        BY <1>2, <3>1, NoContent
      <3>3. Fresh(NewOps("file", rel[1], i, s, flags), db)
        BY <1>3, <3>1, <3>2
      <3>4. OpenVirtual(rel, flags) = {NewOps("file", rel[1], i, s, flags)}
        BY <1>5, <2>1, <2>2 DEF OpenVirtual
      <3> QED BY <3>3, <3>4
    <2>3. CASE rel[1] \notin DOMAIN db.names
      <3>1. OpenVirtual(rel, flags) = {NewOps("file", rel[1], 0, <<>>, flags)}
        BY <1>5, <2>1, <2>3 DEF OpenVirtual
      <3>2. Fresh(NewOps("file", rel[1], 0, <<>>, flags), db)
        BY <1>2, <1>3, NoContent
      <3> QED BY <3>1, <3>2
    <2> QED BY <2>2, <2>3
  <1> QED BY <1>4, <1>5

LEMMA CallsType ==
    ASSUME LowestInv, TypeInv, NEW a \in Threads, UsesDescriptor(a) \/ NamesPath(a)
    PROVE  TypeInv'
PROOF
  <1>1. \E c : c.pc \in {"idle", "fwd"} /\ Becomes(a, c)
    <2>1. CASE Quiet(a)
      <3>1. Becomes(a, Idle)
        BY <2>1 DEF Quiet, Becomes
      <3> QED BY <3>1, IdleSound
    <2>2. CASE Forwarded(a)
      <3>1. PICK v \in Fds : Begin(a, [Idle EXCEPT !.pc = "fwd", !.fd = v, !.e = Entry(a, v)], {v}, {})
        BY <2>2 DEF Forwarded
      <3> DEFINE c == [Idle EXCEPT !.pc = "fwd", !.fd = v, !.e = Entry(a, v)]
      <3>2. c.pc = "fwd" /\ Becomes(a, c)
        BY <3>1 DEF Begin, Start, Becomes, Idle
      <3> HIDE DEF c
      <3> QED BY <3>2
    <2> QED BY <2>1, <2>2, Calls
  <1>2. PICK c : c.pc \in {"idle", "fwd"} /\ Becomes(a, c)
    BY <1>1
  <1>3. tables' = tables
    BY Calls DEF Quiet, Forwarded
  <1>4. \A P, D : CallTyped(c, P, D)
    BY <1>2, PlainCall
  <1>5. DataOK(ops, db)
    BY DEF TypeInv
  <1>6. CASE UNCHANGED <<ops, db>>
    BY <1>2, <1>3, <1>4, <1>6, TypeSame
  <1>7. CASE \E v \in Fds : \E f : Touch(a, v, f)
    <2>0. PICK v \in Fds : \E f : Touch(a, v, f)
      BY <1>7
    <2>1. PICK f : Touch(a, v, f)
      BY <2>0
    <2>2. Entry(a, v).o \in 1 .. Len(ops) /\ ops' = [ops EXCEPT ![Entry(a, v).o] = f] /\ db' = db
      BY <2>1, VirtualFile DEF Touch, OnVirtual
    <2>3. DataOK(ops', db) /\ Grows(ops, db, ops', db)
      BY <1>5, <2>1, <2>2, ChangedOK DEF Touch, Ops
    <2> QED BY <1>2, <1>3, <1>4, <2>2, <2>3, TypeKept
  <1>8. CASE NamesOne
    <2>1. PICK n, i : Named(db, db', n, i) /\ ops' = ops
      BY <1>8 DEF NamesOne
    <2>2. DataOK(ops, db') /\ Grows(ops, db, ops, db')
      BY <1>5, <2>1, NamedOK
    <2> QED BY <1>2, <1>3, <1>4, <2>1, <2>2, TypeKept
  <1> QED BY <1>6, <1>7, <1>8, CallsData

\* openat of a virtual file.
OpensOne(a, f, used, path) ==
    /\ CanAllocate(Table(a)) /\ UNCHANGED <<World, files, db>>
    /\ ops' = Append(ops, f) /\ Fresh(f, db)
    /\ Retable(a, Idle, used, allocated(Table(a)), allocate(Table(a), Virt(Len(ops'), path)))

LEMMA RetableBecomes ==
    ASSUME NEW a, NEW c, NEW used, NEW v, NEW t, Retable(a, c, used, v, t)
    PROVE  Becomes(a, c) /\ SetTable(a, t)
BY DEF Retable, Start, Becomes

LEMMA OpenatCases ==
    ASSUME TypeInv, NEW a \in Threads, handle_openat(a)
    PROVE  \/ \E f, used, path : OpensOne(a, f, used, path)
           \/ /\ UNCHANGED <<World, tables, files, ops, db>>
              /\ \/ \E used : AtOnce(a, used)
                 \/ \E fd, dir, target :
                       /\ Start(a, [Idle EXCEPT !.pc = "open", !.fd = fd, !.e = dir, !.desc = target])
                       /\ rude' = (rude \/ Clash(a, {fd}, {}))
PROOF
  <1>1. ASSUME NEW rel, NEW flags, OpenVirtual(rel, flags) # {}, ops' = ops \o SetToSeq(OpenVirtual(rel, flags))
        PROVE  \E f : ops' = Append(ops, f) /\ Fresh(f, db)
    <2>1. PICK f : Fresh(f, db) /\ OpenVirtual(rel, flags) = {f}
      BY <1>1, OpenVirtualOK
    <2>2. PICK S : ops \in Seq(S)
      BY DEF TypeInv, DataOK, OpsOK, IsSeq
    <2>3. ops' = ops \o <<f>>
      BY <1>1, <2>1, OnlyOne
    <2>4. ops \in Seq(S \cup {f})
      BY <2>2
    <2>5. ops \o <<f>> = Append(ops, f)
      BY <2>4
    <2> QED BY <2>1, <2>3, <2>5
  <1>2. ASSUME NEW vp, NEW flags, NEW path, NEW new, new = IF Inside(path) THEN OpenVirtual(translate_to_relative(path), flags) ELSE {},
               CanAllocate(Table(a)), new # {}, ops' = ops \o SetToSeq(new), UNCHANGED <<World, files, db>>,
               Retable(a, Idle, {vp[1]} \ {AT_FDCWD}, allocated(Table(a)), allocate(Table(a), Virt(Len(ops'), path)))
        PROVE  \E f, used : OpensOne(a, f, used, path)
    <2>1. PICK f : ops' = Append(ops, f) /\ Fresh(f, db)
      BY <1>1, <1>2
    <2> QED BY <1>2, <2>1 DEF OpensOne
  <1>3. ASSUME NEW vp, NEW flags, NEW path, NEW new, new = IF Inside(path) THEN OpenVirtual(translate_to_relative(path), flags) ELSE {},
               CanAllocate(Table(a)), UNCHANGED <<World, files, db>>,
               IF new = {} THEN AtOnce(a, {vp[1]} \ {AT_FDCWD}) /\ UNCHANGED <<ops, tables>>
               ELSE /\ ops' = ops \o SetToSeq(new)
                    /\ Retable(a, Idle, {vp[1]} \ {AT_FDCWD}, allocated(Table(a)), allocate(Table(a), Virt(Len(ops'), path)))
        PROVE  \/ \E f, used : OpensOne(a, f, used, path)
               \/ UNCHANGED <<World, tables, files, ops, db>> /\ \E used : AtOnce(a, used)
    <2>1. CASE new = {}
      BY <1>3, <2>1
    <2>2. CASE new # {}
      BY <1>2, <1>3, <2>2
    <2> QED BY <2>1, <2>2
  <1>4. CASE \E vp \in OpenedAs(a), flags \in OpenFlags :
                LET dir == Entry(a, vp[1])
                    path == FullPath(dir, vp[2])
                    new == IF Inside(path) THEN OpenVirtual(translate_to_relative(path), flags) ELSE {}
                IN /\ IsVirtual(dir, vp[2]) /\ Len(ops) < MaxOps /\ CanAllocate(Table(a))
                   /\ IF new = {} THEN AtOnce(a, {vp[1]} \ {AT_FDCWD}) /\ UNCHANGED <<ops, tables>>
                      ELSE /\ ops' = ops \o SetToSeq(new)
                           /\ Retable(a, Idle, {vp[1]} \ {AT_FDCWD}, allocated(Table(a)),
                                      allocate(Table(a), Virt(Len(ops'), path)))
                   /\ UNCHANGED <<World, files, db>>
    <2>1. PICK vp \in OpenedAs(a), flags \in OpenFlags :
                LET dir == Entry(a, vp[1])
                    path == FullPath(dir, vp[2])
                    new == IF Inside(path) THEN OpenVirtual(translate_to_relative(path), flags) ELSE {}
                IN /\ CanAllocate(Table(a))
                   /\ IF new = {} THEN AtOnce(a, {vp[1]} \ {AT_FDCWD}) /\ UNCHANGED <<ops, tables>>
                      ELSE /\ ops' = ops \o SetToSeq(new)
                           /\ Retable(a, Idle, {vp[1]} \ {AT_FDCWD}, allocated(Table(a)),
                                      allocate(Table(a), Virt(Len(ops'), path)))
                   /\ UNCHANGED <<World, files, db>>
      BY <1>4
    <2> DEFINE path == FullPath(Entry(a, vp[1]), vp[2])
               new == IF Inside(path) THEN OpenVirtual(translate_to_relative(path), flags) ELSE {}
    <2>2. /\ CanAllocate(Table(a)) /\ UNCHANGED <<World, files, db>>
          /\ IF new = {} THEN AtOnce(a, {vp[1]} \ {AT_FDCWD}) /\ UNCHANGED <<ops, tables>>
             ELSE /\ ops' = ops \o SetToSeq(new)
                  /\ Retable(a, Idle, {vp[1]} \ {AT_FDCWD}, allocated(Table(a)), allocate(Table(a), Virt(Len(ops'), path)))
      BY <2>1
    <2>3. new = IF Inside(path) THEN OpenVirtual(translate_to_relative(path), flags) ELSE {}
      OBVIOUS
    <2> HIDE DEF new, path
    <2>4. \/ \E f, used : OpensOne(a, f, used, path)
          \/ UNCHANGED <<World, tables, files, ops, db>> /\ \E used : AtOnce(a, used)
      BY <1>3, <2>2, <2>3
    <2> QED BY <2>4
  <1>5. CASE \E vp \in OpenedAs(a) :
                LET dir == Entry(a, vp[1])
                    path == FullPath(dir, vp[2])
                    target == HostTarget(dir, vp[2])
                IN /\ ~IsVirtual(dir, vp[2])
                   /\ Start(a, [Idle EXCEPT !.pc = "open", !.fd = vp[1], !.e = dir, !.desc = target])
                   /\ rude' = (rude \/ Clash(a, {vp[1]}, {}))
                   /\ asked' = IF dir.kind = "pass" THEN {} ELSE {<<path, target>>}
                   /\ UNCHANGED <<World, tables, files, ops, db>>
    BY <1>5
  <1> QED BY <1>4, <1>5 DEF handle_openat

LEMMA OpenatType ==
    ASSUME LowestInv, TypeInv, NEW a \in Threads, handle_openat(a)
    PROVE  TypeInv'
PROOF
  <1>1. ASSUME NEW f, NEW used, NEW path, OpensOne(a, f, used, path) PROVE TypeInv'
    <2>1. /\ DataOK(ops', db) /\ Grows(ops, db, ops', db) /\ Len(ops') = Len(ops) + 1 /\ Len(ops) \in Nat
      BY <1>1, OpenedOK DEF OpensOne, Fresh, TypeInv
    <2>2. EntryOK(Virt(Len(ops'), path), ops')
      BY <2>1 DEF EntryOK, Virt, ShapedEntry
    <2>3. EntriesOK(Table(a).entries, ops')
      BY <2>1, TypedTable, GrowsEntry DEF EntriesOK
    <2>4. EntriesOK(allocate(Table(a), Virt(Len(ops'), path)).entries, ops')
      BY <1>1, <2>2, <2>3, TypedTable, Allocating DEF OpensOne
    <2>5. CallTyped(Idle, ops', db') /\ db' = db
      BY <1>1, PlainCall, IdleSound DEF OpensOne
    <2>6. Becomes(a, Idle) /\ SetTable(a, allocate(Table(a), Virt(Len(ops'), path)))
      BY <1>1, RetableBecomes DEF OpensOne
    <2> QED BY <2>1, <2>4, <2>5, <2>6, TypeKept DEF EntriesOK
  <1>2. ASSUME NEW used, AtOnce(a, used), UNCHANGED <<tables, ops, db>> PROVE TypeInv'
    <2>1. Becomes(a, Idle) /\ CallTyped(Idle, ops, db)
      BY <1>2, PlainCall, IdleSound DEF AtOnce, Begin, Start, Becomes
    <2> QED BY <1>2, <2>1, TypeSame
  <1>3. ASSUME NEW fd, NEW dir, NEW target, UNCHANGED <<tables, ops, db>>,
               Start(a, [Idle EXCEPT !.pc = "open", !.fd = fd, !.e = dir, !.desc = target])
        PROVE  TypeInv'
    <2> DEFINE c == [Idle EXCEPT !.pc = "open", !.fd = fd, !.e = dir, !.desc = target]
    <2>1. c.pc = "open" /\ Becomes(a, c)
      BY <1>3 DEF Idle, Start, Becomes
    <2> HIDE DEF c
    <2> QED BY <1>3, <2>1, PlainCall, TypeSame
  <1> QED BY <1>1, <1>2, <1>3, OpenatCases

LEMMA BeginBecomes ==
    ASSUME NEW a, NEW c, NEW used, NEW made, Begin(a, c, used, made)
    PROVE  Becomes(a, c)
BY DEF Begin, Start, Becomes

LEMMA MakesType ==
    ASSUME LowestInv, TypeInv, NEW a \in Threads, MakesDescriptors(a)
    PROVE  TypeInv'
PROOF
  <1>1. /\ EntriesOK(Table(a).entries, ops) /\ Good(Table(a))
        /\ \A v : Entry(a, v) = NoEntry \/ (Has(Table(a), v) /\ EntryOK(Entry(a, v), ops))
    BY TypedTable
  <1>2. NoEntry.kind = "none"
    BY DEF NoEntry
  <1>3. ASSUME NEW c, Becomes(a, c), CallTyped(c, ops, db), UNCHANGED <<tables, ops, db>> PROVE TypeInv'
    BY <1>3, TypeSame
  <1>4. ASSUME NEW used, NEW made, Begin(a, Idle, used, made), UNCHANGED <<tables, ops, db>> PROVE TypeInv'
    BY <1>3, <1>4, BeginBecomes, PlainCall, IdleSound
  <1>5. ASSUME NEW v, NEW min, DupUnknown(a, v, min) PROVE TypeInv'
    BY <1>4, <1>5 DEF DupUnknown, AtOnce
  <1>6. ASSUME handle_socket(a) PROVE TypeInv'
    <2> DEFINE k == Min(FreeKfds(a))
               c == [Idle EXCEPT !.pc = "alloc", !.e = Pass(None, <<"socket">>), !.k = k]
    <2>1. k \in Fds
      BY <1>6, FreeKfd DEF handle_socket
    <2>2. Becomes(a, c) /\ UNCHANGED <<tables, ops, db>>
      BY <1>6, BeginBecomes DEF handle_socket
    <2> HIDE DEF k
    <2>3. c.pc = "alloc" /\ c.e = Pass(None, <<"socket">>) /\ c.k = k
      BY DEF Idle
    <2>4. ShapedEntry(Pass(None, <<"socket">>)) /\ Pass(None, <<"socket">>).kind = "pass"
      BY DEF ShapedEntry, Pass
    <2> HIDE DEF c
    <2>5. CallTyped(c, ops, db)
      BY <2>1, <2>3, <2>4 DEF CallTyped, Makes, Installing, Flushes, Writes
    <2> QED BY <1>3, <2>2, <2>5
  <1>7. ASSUME handle_pipe2(a) PROVE TypeInv'
    <2> DEFINE k == Min(FreeKfds(a))
               l == Min(FreeKfds(a) \ {k})
               c == [Idle EXCEPT !.pc = "pipe", !.e = Pass(k, <<"reader">>), !.old = Pass(l, <<"writer">>)]
    <2>1. Cardinality(FreeKfds(a)) > 1
      BY <1>7 DEF handle_pipe2
    <2>2. FreeKfds(a) # {} /\ FreeKfds(a) # {k}
      <3>1. Cardinality({}) = 0 /\ Cardinality({k}) = 1
        BY FS_EmptySet, FS_Singleton
      <3> HIDE DEF k
      <3> QED BY <2>1, <3>1
    <2>3. FreeKfds(a) \ {k} # {}
      BY <2>2
    <2>4. k \in Fds /\ l \in Fds
      BY <2>2, <2>3, FreeKfd
    <2>5. Becomes(a, c) /\ UNCHANGED <<tables, ops, db>>
      BY <1>7, BeginBecomes DEF handle_pipe2
    <2> HIDE DEF k, l
    <2>6. c.pc = "pipe" /\ c.e = Pass(k, <<"reader">>) /\ c.old = Pass(l, <<"writer">>)
      BY DEF Idle
    <2>7. \A x \in Fds : \A d : EntryOK(Pass(x, d), ops)
      BY DEF EntryOK, ShapedEntry, Pass
    <2> HIDE DEF c
    <2>8. CallTyped(c, ops, db)
      BY <2>4, <2>6, <2>7 DEF CallTyped, Makes, Installing, Flushes, Writes
    <2> QED BY <1>3, <2>5, <2>8
  <1>8. ASSUME NEW c, Becomes(a, c), UNCHANGED <<tables, ops, db>>, c.pc = "dup", c.next \in {"alloc", "allocmin", "closeold"},
               NEW v, c.e = Entry(a, v), Entry(a, v).kind = "pass",
               c.next = "closeold" => \E w : c.old = Entry(a, w)
        PROVE  TypeInv'
    <2>1. EntryOK(c.e, ops) /\ (c.next = "closeold" => c.old = NoEntry \/ EntryOK(c.old, ops))
      BY <1>1, <1>2, <1>8
    <2>2. CallTyped(c, ops, db)
      BY <1>8, <2>1 DEF CallTyped, Makes, Installing, Flushes, Writes
    <2> QED BY <1>3, <1>8, <2>2
  <1>9. ASSUME handle_dup(a) PROVE TypeInv'
    <2>1. PICK v \in Fds :
             \/ /\ Entry(a, v).kind = "pass"
                /\ Begin(a, [Idle EXCEPT !.pc = "dup", !.fd = v, !.e = Entry(a, v), !.next = "alloc"], {v}, {})
                /\ UNCHANGED <<tables, ops, db>>
             \/ /\ Entry(a, v).kind = "virt" /\ CanAllocate(Table(a)) /\ UNCHANGED <<ops, db>>
                /\ Retable(a, Idle, {v}, allocated(Table(a)), allocate(Table(a), Entry(a, v)))
             \/ DupUnknown(a, v, 0)
      BY <1>9 DEF handle_dup
    <2>2. ASSUME Entry(a, v).kind = "pass", UNCHANGED <<tables, ops, db>>,
                 Begin(a, [Idle EXCEPT !.pc = "dup", !.fd = v, !.e = Entry(a, v), !.next = "alloc"], {v}, {})
          PROVE  TypeInv'
      <3> DEFINE c == [Idle EXCEPT !.pc = "dup", !.fd = v, !.e = Entry(a, v), !.next = "alloc"]
      <3>1. c.pc = "dup" /\ c.e = Entry(a, v) /\ c.next = "alloc"
        BY DEF Idle
      <3>2. Becomes(a, c)
        BY <2>2, BeginBecomes
      <3> HIDE DEF c
      <3> QED BY <1>8, <2>2, <3>1, <3>2
    <2>3. ASSUME Entry(a, v).kind = "virt", CanAllocate(Table(a)), UNCHANGED <<ops, db>>,
                 Retable(a, Idle, {v}, allocated(Table(a)), allocate(Table(a), Entry(a, v)))
          PROVE  TypeInv'
      <3>1. EntriesOK(allocate(Table(a), Entry(a, v)).entries, ops)
        BY <1>1, <1>2, <2>3, Allocating
      <3>2. Becomes(a, Idle) /\ SetTable(a, allocate(Table(a), Entry(a, v))) /\ CallTyped(Idle, ops, db)
        BY <2>3, RetableBecomes, PlainCall, IdleSound
      <3> QED BY <2>3, <3>1, <3>2, TypeSame
    <2> QED BY <1>5, <2>1, <2>2, <2>3
  <1>10. ASSUME handle_fcntl(a) PROVE TypeInv'
    <2>1. CASE Translate(a)
      BY <2>1, CallsType DEF UsesDescriptor, handle_ioctl
    <2>2. ASSUME NEW v \in Fds, NEW min \in Fds, Entry(a, v).kind = "pass",
             Begin(a, [Idle EXCEPT !.pc = "dup", !.fd = v, !.to = min, !.e = Entry(a, v), !.next = "allocmin"], {v}, {}),
             UNCHANGED <<World, tables, files, ops, db>>
          PROVE TypeInv'
      <3> DEFINE c == [Idle EXCEPT !.pc = "dup", !.fd = v, !.to = min, !.e = Entry(a, v), !.next = "allocmin"]
      <3>1. c.pc = "dup" /\ c.e = Entry(a, v) /\ c.next = "allocmin"
        BY DEF Idle
      <3>2. Becomes(a, c)
        BY <2>2, BeginBecomes
      <3> HIDE DEF c
      <3> QED BY <1>8, <2>2, <3>1, <3>2
    <2> QED BY <1>5, <1>10, <2>1, <2>2 DEF handle_fcntl
  <1>11. ASSUME DupTo(a) PROVE TypeInv'
    <2>1. PICK v \in Fds, w \in Fds :
             /\ \/ /\ Has(Table(a), v)
                   /\ Begin(a, [Idle EXCEPT !.pc = IF Entry(a, v).kind = "pass" THEN "dup" ELSE "closeold", !.fd = v, !.to = w,
                                            !.e = Entry(a, v), !.old = Entry(a, w), !.next = "closeold"], {v}, {w})
                \/ Begin(a, Idle, {v}, {w})
             /\ UNCHANGED <<tables, ops, db>>
      BY <1>11 DEF DupTo
    <2>2. ASSUME Has(Table(a), v), Begin(a, [Idle EXCEPT !.pc = IF Entry(a, v).kind = "pass" THEN "dup" ELSE "closeold", !.fd = v, !.to = w,
                                            !.e = Entry(a, v), !.old = Entry(a, w), !.next = "closeold"], {v}, {w})
          PROVE  TypeInv'
      <3> DEFINE c == [Idle EXCEPT !.pc = IF Entry(a, v).kind = "pass" THEN "dup" ELSE "closeold", !.fd = v, !.to = w,
                                   !.e = Entry(a, v), !.old = Entry(a, w), !.next = "closeold"]
      <3>1. /\ c.pc = (IF Entry(a, v).kind = "pass" THEN "dup" ELSE "closeold")
            /\ c.e = Entry(a, v) /\ c.old = Entry(a, w) /\ c.next = "closeold"
        BY DEF Idle
      <3>2. Becomes(a, c)
        BY <2>2, BeginBecomes
      <3> HIDE DEF c
      <3>3. CASE Entry(a, v).kind = "pass"
        BY <1>8, <2>1, <3>1, <3>2, <3>3
      <3>4. CASE Entry(a, v).kind # "pass"
        <4>1. EntryOK(c.e, ops) /\ ShapedEntry(c.e) /\ c.pc = "closeold" /\ c.e.kind # "pass"
          <5>1. Entry(a, v) = Table(a).entries[v] /\ v \in DOMAIN Table(a).entries
            BY <2>2 DEF Entry, Has
          <5> QED BY <1>1, <3>1, <3>4, <5>1 DEF EntriesOK, EntryOK
        <4>2. c.old = NoEntry \/ EntryOK(c.old, ops)
          BY <1>1, <3>1
        <4>3. CallTyped(c, ops, db)
          BY <4>1, <4>2 DEF CallTyped, Makes, Installing, Flushes, Writes
        <4> QED BY <1>3, <2>1, <3>2, <4>3
      <3> QED BY <3>3, <3>4
    <2> QED BY <1>4, <2>1, <2>2
  <1>12. ASSUME handle_close(a) PROVE TypeInv'
    <2>1. PICK v \in Fds :
             /\ \/ Entry(a, v).kind # "none" /\ Retable(a, Closing(Entry(a, v)), {}, v, deallocate(Table(a), v))
                \/ AtOnce(a, {v}) /\ UNCHANGED tables
             /\ UNCHANGED <<ops, db>>
      BY <1>12 DEF handle_close
    <2>2. ASSUME Entry(a, v).kind # "none", Retable(a, Closing(Entry(a, v)), {}, v, deallocate(Table(a), v))
          PROVE  TypeInv'
      <3> DEFINE e == Entry(a, v)
      <3>1. EntryOK(e, ops) /\ Has(Table(a), v)
        BY <1>1, <1>2, <2>2
      <3>2. EntriesOK(deallocate(Table(a), v).entries, ops)
        <4>1. deallocate(Table(a), v).entries = [x \in DOMAIN Table(a).entries \ {v} |-> Table(a).entries[x]]
          BY <1>1, <3>1, DeallocateGood
        <4> QED BY <1>1, <4>1 DEF EntriesOK
      <3>3. CallTyped(Closing(e), ops, db)
        <4> HIDE DEF e
        <4>1. CASE e.kind = "pass"
          <5>1. Closing(e).pc = "kclose"
            BY <4>1 DEF Closing, Idle
          <5> QED BY <5>1, PlainCall
        <4>2. CASE e.kind # "pass" /\ IsFile(e.o)
          <5>1. Closing(e).pc = "flush" /\ Closing(e).o = e.o /\ Closing(e).next = "idle"
            BY <4>2 DEF Closing, Idle
          <5>2. e.o \in 1 .. Len(ops) /\ ops[e.o].kind = "file"
            BY <3>1, <4>2 DEF EntryOK, IsFile
          <5> QED BY <5>1, <5>2 DEF CallTyped, Makes, Installing, Flushes, Writes
        <4>3. CASE e.kind # "pass" /\ ~IsFile(e.o)
          <5>1. Closing(e) = Idle
            BY <4>3 DEF Closing
          <5> QED BY <5>1, PlainCall, IdleSound
        <4> QED BY <4>1, <4>2, <4>3
      <3>4. Becomes(a, Closing(e)) /\ SetTable(a, deallocate(Table(a), v))
        BY <2>2, RetableBecomes
      <3> HIDE DEF e
      <3> QED BY <2>1, <3>2, <3>3, <3>4, TypeSame
    <2> QED BY <1>4, <2>1, <2>2 DEF AtOnce
  <1> QED BY <1>6, <1>7, <1>9, <1>10, <1>11, <1>12, OpenatType DEF MakesDescriptors, handle_dup2, handle_dup3

LEMMA SpawnType ==
    ASSUME LowestInv, TypeInv, NEW a \in Threads, MakesProcess(a)
    PROVE  TypeInv'
PROOF
  <1>1. PICK fs \in BOOLEAN, then \in {"share", "copy", "wait"} : Spawn(a, fs, then)
    BY DEF MakesProcess, handle_fork, handle_vfork, handle_clone, handle_clone3
  <1> DEFINE c == [Idle EXCEPT !.pc = "inherit", !.next = then]
  <1>2. c.pc = "inherit" /\ Becomes(a, c) /\ UNCHANGED <<tables, ops, db>>
    BY <1>1 DEF Spawn, Start, Becomes, Idle
  <1> HIDE DEF c
  <1> QED BY <1>2, PlainCall, TypeSame

LEMMA GotoBecomes ==
    ASSUME NEW a, NEW c, Goto(a, c)
    PROVE  Becomes(a, c)
BY DEF Goto, Becomes

\* The kernel's answer to a call that makes a descriptor.
LEMMA KernelOpens ==
    ASSUME NEW a, NEW c, NEW desc, NEW pc, KernelOpen(a, c, desc, pc)
    PROVE  Becomes(a, Idle) \/ \E k \in Fds : Becomes(a, [c EXCEPT !.pc = pc, !.k = k])
PROOF
  <1>1. CASE FreeKfds(a) = {}
    BY <1>1, GotoBecomes DEF KernelOpen
  <1>2. CASE FreeKfds(a) # {}
    <2>1. Min(FreeKfds(a)) \in Fds
      BY <1>2, FreeKfd
    <2>2. Goto(a, [c EXCEPT !.pc = pc, !.k = Min(FreeKfds(a))])
      BY <1>2 DEF KernelOpen
    <2> QED BY <2>1, <2>2, GotoBecomes
  <1> QED BY <1>1, <1>2

\* The entry a finished call puts into the table.
NewEntry(c) == IF c.e.kind = "pass" THEN [c.e EXCEPT !.k = c.k] ELSE c.e

LEMMA NewEntryOK ==
    ASSUME NEW c, NEW P, NEW D, CallTyped(c, P, D), Makes(c)
    PROVE  EntryOK(NewEntry(c), P)
PROOF
  <1>1. CASE c.e.kind = "pass"
    <2>1. ShapedEntry(c.e) /\ c.k \in Fds
      BY <1>1 DEF CallTyped
    <2> DEFINE e == [c.e EXCEPT !.k = c.k]
    <2>2. e.kind = c.e.kind /\ e.k = c.k /\ ShapedEntry(e)
      BY <2>1 DEF ShapedEntry
    <2> HIDE DEF e
    <2>3. NewEntry(c) = e
      BY <1>1 DEF NewEntry, e
    <2> QED BY <1>1, <2>1, <2>2, <2>3 DEF EntryOK
  <1>2. CASE c.e.kind # "pass"
    BY <1>2 DEF CallTyped, NewEntry
  <1> QED BY <1>1, <1>2

LEMMA ResumeType ==
    ASSUME LowestInv, TypeInv, NEW a \in Threads,
           \/ open_result(a) \/ allocate_fd(a) \/ pipe_result(a) \/ Duplicate(a) \/ allocate_min_fd(a)
           \/ close_old(a) \/ install(a) \/ close_kernel_fd(a) \/ inject(a) \/ insert_fd_table(a)
    PROVE  TypeInv'
PROOF
  <1> DEFINE t == Table(a)
             c == call[a]
  <1>0. EntriesOK(t.entries, ops) /\ Good(t) /\ Sound(c) /\ CallTyped(c, ops, db)
    BY TypedTable
  <1>1. ASSUME NEW d, CallTyped(d, ops, db), Becomes(a, d), UNCHANGED <<tables, ops, db>> PROVE TypeInv'
    BY <1>1, TypeSame
  <1>2. CallTyped(Idle, ops, db)
    BY PlainCall, IdleSound
  <1>3. ASSUME Goto(a, Idle), UNCHANGED <<tables, ops, db>> PROVE TypeInv'
    BY <1>1, <1>2, <1>3, GotoBecomes
  <1>4. ASSUME NEW u, EntriesOK(u.entries, ops), Becomes(a, Idle), SetTable(a, u), UNCHANGED <<ops, db>> PROVE TypeInv'
    BY <1>2, <1>4, TypeSame
  <1>5. ASSUME NEW u, EntriesOK(u.entries, ops), Give(a, u), UNCHANGED <<ops, db>> PROVE TypeInv'
    BY <1>4, <1>5 DEF Give, Becomes
  <1>6. ASSUME open_result(a) PROVE TypeInv'
    <2> DEFINE d0 == [Idle EXCEPT !.e = Pass(None, c.desc), !.t = c.t]
               d(k) == [d0 EXCEPT !.pc = "alloc", !.k = k]
    <2>1. ASSUME NEW k \in Fds PROVE CallTyped(d(k), ops, db)
      <3>1. d(k).pc = "alloc" /\ d(k).k = k /\ d(k).e = Pass(None, c.desc)
        BY DEF Idle
      <3>2. Pass(None, c.desc).kind = "pass" /\ ShapedEntry(Pass(None, c.desc))
        BY DEF Pass, ShapedEntry
      <3> HIDE DEF d
      <3> QED BY <3>1, <3>2 DEF CallTyped, Makes, Installing, Flushes, Writes
    <2>2. KernelOpen(a, d0, c.desc, "alloc") \/ Goto(a, Idle)
      BY <1>6 DEF open_result
    <2>3. KernelOpen(a, d0, c.desc, "alloc") => Becomes(a, Idle) \/ \E k \in Fds : Becomes(a, d(k))
      <3> HIDE DEF d0
      <3> QED BY KernelOpens
    <2>4. UNCHANGED <<tables, ops, db>>
      BY <1>6 DEF open_result
    <2> HIDE DEF d, d0
    <2> QED BY <1>1, <1>2, <1>3, <2>1, <2>2, <2>3, <2>4
  <1>7. ASSUME allocate_fd(a) \/ allocate_min_fd(a) PROVE TypeInv'
    <2>1. c.pc \in {"alloc", "allocmin"} /\ Makes(c) /\ c.e.kind = "pass"
      BY <1>0, <1>7 DEF allocate_fd, allocate_min_fd, At, Makes, CallTyped
    <2>2. EntryOK(NewEntry(c), ops) /\ NewEntry(c) = [c.e EXCEPT !.k = c.k]
      BY <1>0, <2>1, NewEntryOK DEF NewEntry
    <2>3. CASE allocate_fd(a)
      <3>1. CanAllocate(t) /\ Give(a, allocate(t, NewEntry(c))) /\ UNCHANGED <<ops, db>>
        BY <2>2, <2>3 DEF allocate_fd
      <3> QED BY <1>0, <1>5, <2>2, <3>1, Allocating
    <2>4. CASE allocate_min_fd(a)
      <3>1. /\ \E v \in Fds : v >= c.to /\ ~Has(t, v)
            /\ Give(a, allocate_min(t, c.to, NewEntry(c))) /\ UNCHANGED <<ops, db>>
        BY <2>2, <2>4 DEF allocate_min_fd
      <3>2. /\ allocated_min(t, c.to) \in Fds
            /\ allocate_min(t, c.to, NewEntry(c)) = allocate_at(t, allocated_min(t, c.to), NewEntry(c))
        BY <1>0, <3>1, AllocateMinGood
      <3>3. EntriesOK(allocate_min(t, c.to, NewEntry(c)).entries, ops)
        BY <1>0, <2>2, <3>2, AllocatingAt
      <3> QED BY <1>5, <3>1, <3>3
    <2> QED BY <1>7, <2>3, <2>4
  <1>8. ASSUME pipe_result(a) PROVE TypeInv'
    <2>1. c.pc = "pipe" /\ CanAllocate(t) /\ CanAllocate(allocate(t, c.e)) /\ UNCHANGED <<ops, db>>
      BY <1>8 DEF pipe_result, At
    <2>2. EntryOK(c.e, ops) /\ EntryOK(c.old, ops)
      BY <1>0, <2>1 DEF CallTyped
    <2>3. EntriesOK(allocate(t, c.e).entries, ops) /\ Good(allocate(t, c.e))
      BY <1>0, <2>1, <2>2, Allocating, AllocateGood
    <2>4. EntriesOK(allocate(allocate(t, c.e), c.old).entries, ops)
      BY <2>1, <2>2, <2>3, Allocating
    <2> QED BY <1>5, <1>8, <2>1, <2>4 DEF pipe_result
  <1>9. ASSUME Duplicate(a) PROVE TypeInv'
    <2> DEFINE d(k) == [c EXCEPT !.pc = c.next, !.k = k]
    <2>1. c.pc = "dup" /\ UNCHANGED <<tables, ops, db>>
      BY <1>9 DEF Duplicate, At
    <2>2. ASSUME NEW k \in Fds PROVE CallTyped(d(k), ops, db)
      <3>1. d(k).pc = c.next /\ d(k).k = k /\ d(k).e = c.e /\ d(k).old = c.old /\ d(k).next = c.next
        BY <1>0 DEF Sound, ShapedCall
      <3>2. /\ EntryOK(c.e, ops) /\ c.e.kind = "pass" /\ c.next \in {"alloc", "allocmin", "closeold"}
            /\ c.next = "closeold" => c.old = NoEntry \/ EntryOK(c.old, ops)
        BY <1>0, <2>1 DEF CallTyped
      <3>3. ShapedEntry(c.e)
        BY <3>2 DEF EntryOK
      <3> HIDE DEF d, c
      <3> QED BY <3>1, <3>2, <3>3 DEF CallTyped, Makes, Installing, Flushes, Writes
    <2>3. Goto(a, Idle) \/ \E desc : KernelOpen(a, c, desc, c.next)
      BY <1>9 DEF Duplicate
    <2>4. ASSUME NEW desc, KernelOpen(a, c, desc, c.next) PROVE Becomes(a, Idle) \/ \E k \in Fds : Becomes(a, d(k))
      <3> HIDE DEF c
      <3> QED BY <2>4, KernelOpens
    <2> HIDE DEF d
    <2> QED BY <1>1, <1>2, <1>3, <2>1, <2>2, <2>3, <2>4
  <1>10. ASSUME close_old(a) PROVE TypeInv'
    <2> DEFINE go == [c EXCEPT !.pc = "install"]
               fl == [c EXCEPT !.pc = "flush", !.o = c.old.o, !.next = "install"]
    <2>1. c.pc = "closeold" /\ UNCHANGED <<tables, ops, db>> /\ Makes(c)
      BY <1>10 DEF close_old, At, Makes, Installing
    <2>2. /\ ShapedEntry(c.e) /\ (IF c.e.kind = "pass" THEN c.k \in Fds ELSE EntryOK(c.e, ops))
          /\ c.old = NoEntry \/ EntryOK(c.old, ops)
      BY <1>0, <2>1 DEF CallTyped
    <2>3. /\ go.pc = "install" /\ go.e = c.e /\ go.k = c.k
          /\ fl.pc = "flush" /\ fl.o = c.old.o /\ fl.next = "install" /\ fl.e = c.e /\ fl.old = c.old /\ fl.k = c.k
      BY <1>0 DEF Sound, ShapedCall
    <2>4. Goto(a, Idle) \/ Goto(a, go) \/ (Goto(a, fl) /\ c.old.kind = "virt" /\ IsFile(c.old.o))
      BY <1>10 DEF close_old
    <2> HIDE DEF go, fl, c
    <2>5. CallTyped(go, ops, db)
      BY <2>2, <2>3 DEF CallTyped, Makes, Installing, Flushes, Writes
    <2>6. ASSUME c.old.kind = "virt", IsFile(c.old.o) PROVE CallTyped(fl, ops, db)
      <3>1. c.old.o \in 1 .. Len(ops) /\ ops[c.old.o].kind = "file"
        BY <2>2, <2>6 DEF EntryOK, NoEntry, IsFile
      <3> QED BY <2>2, <2>3, <2>6, <3>1 DEF CallTyped, Makes, Installing, Flushes, Writes
    <2> QED BY <1>1, <1>3, <2>1, <2>4, <2>5, <2>6, GotoBecomes
  <1>11. ASSUME install(a) PROVE TypeInv'
    <2>1. c.pc = "install" /\ c.to \in Fds /\ Makes(c)
      BY <1>0, <1>11 DEF install, At, Sound, Installs, Makes, Installing
    <2>2. EntryOK(NewEntry(c), ops)
      BY <1>0, <2>1, NewEntryOK
    <2>3. SetTable(a, allocate_at(t, c.to, NewEntry(c))) /\ Becomes(a, Idle) /\ UNCHANGED <<ops, db>>
      BY <1>11 DEF install, NewEntry, Becomes
    <2>4. EntriesOK(allocate_at(t, c.to, NewEntry(c)).entries, ops)
      BY <1>0, <2>1, <2>2, AllocatingAt
    <2> QED BY <1>4, <2>3, <2>4
  <1>12. ASSUME close_kernel_fd(a) \/ inject(a) PROVE TypeInv'
    BY <1>3, <1>12 DEF close_kernel_fd, inject
  <1>13. ASSUME insert_fd_table(a) PROVE TypeInv'
    <2>1. (tables' = tables \/ tables' = Append(tables, t)) /\ UNCHANGED <<ops, db>>
      BY <1>13 DEF insert_fd_table
    <2>2. ASSUME NEW b \in Threads PROVE CallTyped(call'[b], ops', db') \/ call'[b] = call[b]
      <3>1. call'[b] = Detached(a, b)
        BY <1>13 DEF insert_fd_table, Detached
      <3>2. CallTyped([call[b] EXCEPT !.t = Ix(b)], ops, db)
        BY TypedTable, MovedTyped
      <3> QED BY <1>2, <2>1, <3>1, <3>2 DEF Detached
    <2>3. DataOK(ops', db') /\ Grows(ops, db, ops', db') /\ EntriesOK(t.entries, ops')
      BY <1>0, <2>1, NothingGrows DEF TypeInv
    <2> QED BY <2>1, <2>2, <2>3, TypedKept DEF EntriesOK
  <1> QED BY <1>6, <1>7, <1>8, <1>9, <1>10, <1>11, <1>12, <1>13

\* A call that has done with its file, one that is about to write it and one
\* that has written it; a file that was stored, and one that could not be.
Settled(c) == [c EXCEPT !.pc = c.next, !.o = 0, !.ino = 0, !.data = <<>>]
WritingOut(c, s, i) == [c EXCEPT !.pc = "pwrite", !.data = s, !.ino = i]
Overwriting(c) == [c EXCEPT !.pc = "truncate"]
Clean(f) == [f EXCEPT !.dirty = FALSE, !.failed = FALSE]
Failing(f) == [f EXCEPT !.failed = TRUE]

LEMMA FlushFields ==
    ASSUME NEW c, Sound(c), NEW s, NEW i
    PROVE  /\ WritingOut(c, s, i).pc = "pwrite" /\ WritingOut(c, s, i).e = c.e /\ WritingOut(c, s, i).k = c.k
           /\ WritingOut(c, s, i).next = c.next /\ WritingOut(c, s, i).o = c.o /\ WritingOut(c, s, i).data = s /\ WritingOut(c, s, i).ino = i
           /\ Overwriting(c).pc = "truncate" /\ Overwriting(c).e = c.e /\ Overwriting(c).k = c.k
           /\ Overwriting(c).next = c.next /\ Overwriting(c).o = c.o /\ Overwriting(c).data = c.data /\ Overwriting(c).ino = c.ino
           /\ Settled(c).pc = c.next /\ Settled(c).e = c.e /\ Settled(c).k = c.k /\ Settled(c).next = c.next /\ Settled(c).to = c.to /\ Settled(c).old = c.old
           /\ WritingOut(c, s, i).to = c.to /\ Overwriting(c).to = c.to
           /\ WritingOut(c, s, i).old = c.old /\ Overwriting(c).old = c.old
           /\ WritingOut(c, s, i).t = c.t /\ Overwriting(c).t = c.t /\ Settled(c).t = c.t
BY DEF Sound, ShapedCall, WritingOut, Overwriting, Settled

LEMMA FailBecomes ==
    ASSUME NEW a, Fail(a)
    PROVE  Becomes(a, Settled(call[a])) /\ ops' = [ops EXCEPT ![call[a].o] = Failing(ops[call[a].o])]
PROOF
  <1>1. ops' = [ops EXCEPT ![call[a].o].failed = TRUE] /\ Becomes(a, Settled(call[a]))
    BY DEF Fail, Abandon, Goto, Becomes, Settled
  <1> QED BY <1>1 DEF Failing

\* fsync finds the file clean, or cannot create it; or it copies the content; or
\* it fails.
LEMMA FsyncCases ==
    ASSUME LowestInv, TypeInv, NEW a \in Threads, fsync(a)
    PROVE  /\ call[a].pc = "flush" /\ UNCHANGED <<World, tables, files>>
           /\ \/ /\ ~ops[call[a].o].dirty \/ ops[call[a].o].ino = 0
                 /\ Becomes(a, Settled(call[a])) /\ UNCHANGED <<ops, db>>
              \/ \E i : /\ Becomes(a, WritingOut(call[a], ops[call[a].o].data, i)) /\ ops' = ops
                        /\ \/ UNCHANGED db /\ i = ops[call[a].o].ino /\ i # 0
                           \/ ops[call[a].o].ino = 0 /\ Named(db, db', ops[call[a].o].name, i)
              \/ /\ Becomes(a, Settled(call[a])) /\ ops' = [ops EXCEPT ![call[a].o] = Failing(ops[call[a].o])]
                 /\ UNCHANGED db \/ \E i : ops[call[a].o].ino = 0 /\ Named(db, db', ops[call[a].o].name, i)
PROOF
  <1> DEFINE c == call[a]
             f == ops[call[a].o]
  <1>1. c.pc = "flush" /\ UNCHANGED <<World, tables, files>>
    BY DEF fsync, At
  <1>2. ASSUME CanCreate(c.o), get_or_create_ino(c.o)
        PROVE  \/ db' = db /\ InoOf(c.o) = f.ino /\ f.ino # 0
               \/ f.ino = 0 /\ Named(db, db', f.name, InoOf(c.o))
    <2>1. CASE f.ino # 0
      BY <1>2, <2>1 DEF InoOf, get_or_create_ino
    <2>2. CASE f.ino = 0
      <3>1. db' = CreateName(f.name, <<>>) /\ f.name \notin DOMAIN db.names /\ InoOf(c.o) = db'.names[f.name]
        BY <1>2, <2>2 DEF get_or_create_ino, CanCreate, InoOf
      <3>2. Named(db, db', f.name, Len(db.data) + 1)
        BY <3>1, Creates DEF TypeInv
      <3>3. InoOf(c.o) = Len(db.data) + 1
        BY <3>1, <3>2, NamedOK DEF TypeInv
      <3> QED BY <2>2, <3>2, <3>3
    <2> QED BY <2>1, <2>2
  <1>3. CASE ~(f.dirty /\ CanCreate(c.o)) /\ Abandon(a) /\ UNCHANGED <<ops, db>>
    <2>1. Becomes(a, Settled(c))
      BY <1>3 DEF Abandon, Goto, Becomes, Settled
    <2> QED BY <1>1, <1>3, <2>1 DEF CanCreate
  <1>4. CASE /\ f.dirty /\ CanCreate(c.o) /\ get_or_create_ino(c.o)
             /\ Goto(a, WritingOut(c, f.data, InoOf(c.o))) /\ UNCHANGED ops
    <2>1. Becomes(a, WritingOut(c, f.data, InoOf(c.o)))
      BY <1>4 DEF Goto, Becomes
    <2> QED BY <1>1, <1>2, <1>4, <2>1
  <1>5. CASE f.dirty /\ CanCreate(c.o) /\ (get_or_create_ino(c.o) \/ UNCHANGED db) /\ Fail(a)
    BY <1>1, <1>2, <1>5, FailBecomes
  <1> QED BY <1>3, <1>4, <1>5 DEF fsync, WritingOut

\* The two steps that store it, each of which may fail.
LEMMA StoreCases ==
    ASSUME LowestInv, TypeInv, NEW a \in Threads, fsync_pwrite(a) \/ fsync_truncate(a)
    PROVE  LET c == call[a]
               s == db.data[c.ino]
           IN /\ Writes(c) /\ c.ino \in 1 .. Len(db.data) /\ s \in Contents /\ c.data \in Contents
              /\ UNCHANGED <<World, tables, files>>
              /\ \/ /\ c.pc = "pwrite" /\ Becomes(a, Overwriting(c)) /\ ops' = ops
                    /\ db' = [db EXCEPT !.data[c.ino] = Over(s, c.data)]
                 \/ /\ c.pc = "truncate" /\ Becomes(a, Settled(c)) /\ ops' = [ops EXCEPT ![c.o] = Clean(ops[c.o])]
                    /\ db' = [db EXCEPT !.data[c.ino] = Cut(s, c.data)]
                 \/ /\ Becomes(a, Settled(c)) /\ ops' = [ops EXCEPT ![c.o] = Failing(ops[c.o])]
                    /\ \/ db' = db
                       \/ \E x \in Contents : /\ db' = [db EXCEPT !.data[c.ino] = x]
                                              /\ StartsWith(s, c.data) => StartsWith(x, c.data)
PROOF
  <1> DEFINE c == call[a]
  <1>1. Writes(c) /\ Flushes(c) /\ CallTyped(c, ops, db) /\ DataOK(ops, db)
    BY TypedTable DEF fsync_pwrite, fsync_truncate, At, Writes, Flushes, TypeInv
  <1>2. c.o \in 1 .. Len(ops) /\ c.ino \in Inos(ops, db, c.o) /\ c.data \in Contents
    BY <1>1 DEF CallTyped
  <1>3. db.data \in Seq(Contents) /\ Len(db.data) \in Nat /\ ops[c.o].ino \in 0 .. Len(db.data)
    BY <1>1, <1>2 DEF DataOK, DbOK, OpsOK, FileOK
  <1>4. c.ino \in 1 .. Len(db.data)
    <2>1. CASE ops[c.o].ino # 0
      BY <1>2, <1>3, <2>1 DEF Inos
    <2>2. CASE ops[c.o].ino = 0
      BY <1>1, <1>2, <2>2 DEF Inos, DataOK, DbOK
    <2> QED BY <2>1, <2>2
  <1>5. db.data[c.ino] \in Contents
    BY <1>3, <1>4
  <1>6. db = [names |-> db.names, data |-> db.data]
    BY <1>1 DEF DataOK, DbOK
  <1>7. /\ Cut(db.data[c.ino], c.data) \in Contents
        /\ StartsWith(db.data[c.ino], c.data) => StartsWith(Cut(db.data[c.ino], c.data), c.data)
    BY <1>2, <1>5, CutOK, StartsWithItself
  <1>8. CASE fsync_pwrite(a)
    <2>1. c.pc = "pwrite" /\ UNCHANGED <<World, tables, files>>
      BY <1>8 DEF fsync_pwrite, At
    <2>2. ASSUME Goto(a, Overwriting(c)), UNCHANGED ops, db' = [db EXCEPT !.data[c.ino] = Over(@, c.data)]
          PROVE  Becomes(a, Overwriting(c)) /\ ops' = ops /\ db' = [db EXCEPT !.data[c.ino] = Over(db.data[c.ino], c.data)]
      BY <1>6, <2>2 DEF Goto, Becomes
    <2>3. ASSUME NEW n \in 0 .. Len(c.data)
          PROVE  /\ Over(db.data[c.ino], SubSeq(c.data, 1, n)) \in Contents
                 /\ StartsWith(db.data[c.ino], c.data) => StartsWith(Over(db.data[c.ino], SubSeq(c.data, 1, n)), c.data)
      <3>1. SubSeq(c.data, 1, n) \in Contents
        <4>1. c.data \in Seq(Nat) /\ Len(c.data) \in Nat /\ Len(c.data) <= MaxLen /\ MaxLen \in Nat /\ n \in Nat
          BY <1>2, SandboxAssumption DEF Contents
        <4>2. \A i \in 1 .. n : c.data[i] \in Nat
          BY <4>1, ElementOfSeq
        <4>3. SubSeq(c.data, 1, n) \in Seq(Nat) /\ Len(SubSeq(c.data, 1, n)) = IF 1 <= n THEN n - 1 + 1 ELSE 0
          BY <4>1, <4>2, SubSeqProperties
        <4>4. Len(SubSeq(c.data, 1, n)) <= MaxLen
          BY <4>1, <4>3
        <4> QED BY <4>3, <4>4 DEF Contents
      <3> QED BY <1>2, <1>5, <3>1, OverOK, OverStarts
    <2>4. \/ db' = [db EXCEPT !.data[c.ino] = Over(@, c.data)] /\ Goto(a, Overwriting(c)) /\ UNCHANGED ops
          \/ \E n \in 0 .. Len(c.data) : db' = [db EXCEPT !.data[c.ino] = Over(@, SubSeq(c.data, 1, n))] /\ Fail(a)
      BY <1>8 DEF fsync_pwrite, Overwritten, Over, Overwriting
    <2>5. CASE db' = [db EXCEPT !.data[c.ino] = Over(@, c.data)] /\ Goto(a, Overwriting(c)) /\ UNCHANGED ops
      BY <1>1, <1>2, <1>4, <1>5, <2>1, <2>2, <2>5
    <2>6. CASE \E n \in 0 .. Len(c.data) : db' = [db EXCEPT !.data[c.ino] = Over(@, SubSeq(c.data, 1, n))] /\ Fail(a)
      <3>1. Becomes(a, Settled(c)) /\ ops' = [ops EXCEPT ![c.o] = Failing(ops[c.o])]
        BY <2>6, FailBecomes
      <3>2. \E x \in Contents : /\ db' = [db EXCEPT !.data[c.ino] = x]
                                /\ StartsWith(db.data[c.ino], c.data) => StartsWith(x, c.data)
        <4>1. PICK n \in 0 .. Len(c.data) : db' = [db EXCEPT !.data[c.ino] = Over(@, SubSeq(c.data, 1, n))]
          BY <2>6
        <4>2. db' = [db EXCEPT !.data[c.ino] = Over(db.data[c.ino], SubSeq(c.data, 1, n))]
          BY <1>6, <4>1
        <4> DEFINE x == Over(db.data[c.ino], SubSeq(c.data, 1, n))
        <4>3. x \in Contents /\ (StartsWith(db.data[c.ino], c.data) => StartsWith(x, c.data))
          BY <2>3
        <4> HIDE DEF x
        <4> QED BY <4>2, <4>3 DEF x
      <3> HIDE DEF c
      <3>3. /\ Writes(c) /\ c.ino \in 1 .. Len(db.data) /\ db.data[c.ino] \in Contents /\ c.data \in Contents
            /\ UNCHANGED <<World, tables, files>>
        BY <1>1, <1>2, <1>4, <1>5, <2>1
      <3> QED BY <3>1, <3>2, <3>3 DEF c
    <2> QED BY <2>4, <2>5, <2>6
  <1>9. CASE fsync_truncate(a)
    <2> DEFINE cut == [db EXCEPT !.data[c.ino] = Cut(db.data[c.ino], c.data)]
    <2>1. /\ c.pc = "truncate" /\ UNCHANGED <<World, tables, files>>
          /\ \/ db' = cut /\ Abandon(a) /\ ops' = [ops EXCEPT ![c.o].dirty = FALSE, ![c.o].failed = FALSE]
             \/ db' \in {db, cut} /\ Fail(a)
      BY <1>6, <1>9 DEF fsync_truncate, At, Cut
    <2>2. Abandon(a) => Becomes(a, Settled(c))
      BY DEF Abandon, Goto, Becomes, Settled
    <2>3. [ops EXCEPT ![c.o].dirty = FALSE, ![c.o].failed = FALSE] = [ops EXCEPT ![c.o] = Clean(ops[c.o])]
      BY <1>1, <1>2 DEF Clean, DataOK, OpsOK, IsSeq
    <2> QED BY <1>1, <1>2, <1>4, <1>5, <1>7, <2>1, <2>2, <2>3, FailBecomes
  <1> QED BY <1>8, <1>9

\* What is left of a call after its flush is still well formed.
LEMMA AfterFlush ==
    ASSUME NEW c, NEW P, NEW D, CallTyped(c, P, D), Flushes(c), NEW d, d.e = c.e, d.k = c.k, d.next = c.next, d.pc = c.next
    PROVE  CallTyped(d, P, D)
PROOF
  <1>1. c.next \in {"idle", "install"}
    BY DEF CallTyped
  <1>2. CASE c.next = "idle"
    BY <1>2, PlainCall
  <1>3. CASE c.next = "install"
    <2>1. Makes(c)
      BY <1>3 DEF Makes, Installing, Flushes
    <2>2. ShapedEntry(c.e) /\ (IF c.e.kind = "pass" THEN c.k \in Fds ELSE EntryOK(c.e, P))
      BY <2>1 DEF CallTyped
    <2> QED BY <1>3, <2>2 DEF CallTyped, Makes, Installing, Flushes, Writes
  <1> QED BY <1>1, <1>2, <1>3

LEMMA FlushType ==
    ASSUME LowestInv, TypeInv, NEW a \in Threads, fsync(a) \/ fsync_pwrite(a) \/ fsync_truncate(a)
    PROVE  TypeInv'
PROOF
  <1> DEFINE c == call[a]
  <1>1. Flushes(c) /\ CallTyped(c, ops, db) /\ DataOK(ops, db) /\ Sound(c)
    BY TypedTable DEF fsync, fsync_pwrite, fsync_truncate, At, Flushes, TypeInv
  <1>2. /\ c.o \in 1 .. Len(ops) /\ ops[c.o].kind = "file" /\ c.next \in {"idle", "install"}
        /\ FileOK(ops[c.o], db)
    BY <1>1 DEF CallTyped, DataOK, OpsOK
  <1>3. ASSUME NEW d, NEW P, NEW D, CallTyped(c, P, D), d.e = c.e, d.old = c.old, d.k = c.k, d.next = c.next, d.o = c.o, Writes(d),
               d.ino \in Inos(P, D, c.o), d.data \in Contents
        PROVE  CallTyped(d, P, D)
    <2>1. Flushes(d) /\ (Makes(d) => Makes(c))
      BY <1>1, <1>3 DEF Flushes, Writes, Makes, Installing
    <2>2. d.pc \notin {"alloc", "allocmin", "dup", "pipe", "closeold"}
      BY <1>3 DEF Writes
    <2>3. c.o \in 1 .. Len(P) /\ P[c.o].kind = "file" /\ c.next \in {"idle", "install"}
      BY <1>1, <1>3 DEF CallTyped
    <2>4. /\ Makes(c) => ShapedEntry(c.e) /\ (IF c.e.kind = "pass" THEN c.k \in Fds ELSE EntryOK(c.e, P))
          /\ c.next = "install" => c.old.kind = "virt" /\ c.old.o = c.o
      BY <1>1, <1>3 DEF CallTyped
    <2> QED BY <1>3, <2>1, <2>2, <2>3, <2>4 DEF CallTyped
  <1>a. ASSUME NEW f, FileOK(f, db'), f.kind = ops[c.o].kind, f.name = ops[c.o].name, f.ino = ops[c.o].ino,
               ops' = [ops EXCEPT ![c.o] = f], Becomes(a, Settled(c)), DataOK(ops, db'), Grows(ops, db, ops, db'), tables' = tables
        PROVE  TypeInv'
    <2>1. DataOK(ops', db') /\ Grows(ops, db', ops', db')
      BY <1>2, <1>a, ChangedOK
    <2>2. Grows(ops, db, ops', db')
      BY <1>a, <2>1 DEF Grows
    <2>3. CallTyped(c, ops', db')
      BY <1>1, <2>2, GrowsCall
    <2>4. CallTyped(Settled(c), ops', db')
      BY <1>1, <2>3, FlushFields, AfterFlush
    <2> QED BY <1>a, <2>1, <2>2, <2>4, TypeKept
  <1>b. ASSUME ops' = [ops EXCEPT ![c.o] = Failing(ops[c.o])] \/ ops' = [ops EXCEPT ![c.o] = Clean(ops[c.o])],
               Becomes(a, Settled(c)), DataOK(ops, db'), Grows(ops, db, ops, db'), tables' = tables
        PROVE  TypeInv'
    <2>1. FileOK(ops[c.o], db')
      BY <1>2, <1>b DEF DataOK, OpsOK
    <2>2. ASSUME NEW f, f = Failing(ops[c.o]) \/ f = Clean(ops[c.o])
          PROVE  FileOK(f, db') /\ f.kind = ops[c.o].kind /\ f.name = ops[c.o].name /\ f.ino = ops[c.o].ino
      BY <2>1, <2>2 DEF FileOK, Failing, Clean
    <2> QED BY <1>a, <1>b, <2>2
  <1>4. ASSUME fsync(a) PROVE TypeInv'
    <2>1. tables' = tables
      BY <1>4, FsyncCases
    <2>2. ASSUME Becomes(a, Settled(c)), UNCHANGED <<ops, db>> PROVE TypeInv'
      <3>1. CallTyped(Settled(c), ops, db)
        BY <1>1, FlushFields, AfterFlush
      <3> QED BY <2>1, <2>2, <3>1, TypeSame
    <2>3. ASSUME NEW i, Becomes(a, WritingOut(c, ops[c.o].data, i)), ops' = ops,
                 \/ UNCHANGED db /\ i = ops[c.o].ino /\ i # 0
                 \/ ops[c.o].ino = 0 /\ Named(db, db', ops[c.o].name, i)
          PROVE  TypeInv'
      <3>1. DataOK(ops, db') /\ Grows(ops, db, ops, db') /\ i \in Inos(ops, db', c.o)
        <4>1. CASE UNCHANGED db /\ i = ops[c.o].ino /\ i # 0
          BY <1>1, <4>1, NothingGrows DEF Inos
        <4>2. CASE ops[c.o].ino = 0 /\ Named(db, db', ops[c.o].name, i)
          BY <1>1, <4>2, NamedOK DEF Inos
        <4> QED BY <2>3, <4>1, <4>2
      <3>2. CallTyped(c, ops, db')
        BY <1>1, <3>1, GrowsCall
      <3>3. ops[c.o].data \in Contents
        BY <1>2 DEF FileOK
      <3> DEFINE d == WritingOut(c, ops[c.o].data, i)
      <3>4. d.e = c.e /\ d.old = c.old /\ d.k = c.k /\ d.next = c.next /\ d.o = c.o /\ d.pc = "pwrite" /\ d.ino = i /\ d.data = ops[c.o].data
        BY <1>1, FlushFields
      <3> HIDE DEF d
      <3>5. CallTyped(d, ops, db')
        BY <1>3, <3>1, <3>2, <3>3, <3>4 DEF Writes
      <3>6. Becomes(a, d)
        BY <2>3 DEF d
      <3> QED BY <2>1, <2>3, <3>1, <3>5, <3>6, TypeKept
    <2>4. ASSUME Becomes(a, Settled(c)), ops' = [ops EXCEPT ![c.o] = Failing(ops[c.o])],
                 UNCHANGED db \/ \E i : Named(db, db', ops[c.o].name, i)
          PROVE  TypeInv'
      <3>1. DataOK(ops, db') /\ Grows(ops, db, ops, db')
        BY <1>1, <2>4, NothingGrows, NamedOK
      <3> QED BY <1>b, <2>1, <2>4, <3>1
    <2> QED BY <1>4, <2>2, <2>3, <2>4, FsyncCases
  <1>5. ASSUME fsync_pwrite(a) \/ fsync_truncate(a) PROVE TypeInv'
    <2> DEFINE s == db.data[c.ino]
    <2>1. /\ Writes(c) /\ c.ino \in 1 .. Len(db.data) /\ s \in Contents /\ c.data \in Contents /\ tables' = tables
          /\ \/ /\ c.pc = "pwrite" /\ Becomes(a, Overwriting(c)) /\ ops' = ops
                /\ db' = [db EXCEPT !.data[c.ino] = Over(s, c.data)]
             \/ /\ Becomes(a, Settled(c)) /\ ops' = [ops EXCEPT ![c.o] = Clean(ops[c.o])]
                /\ db' = [db EXCEPT !.data[c.ino] = Cut(s, c.data)]
             \/ /\ Becomes(a, Settled(c)) /\ ops' = [ops EXCEPT ![c.o] = Failing(ops[c.o])]
                /\ db' = db \/ \E x \in Contents : db' = [db EXCEPT !.data[c.ino] = x]
      BY <1>5, StoreCases
    <2>2. Over(s, c.data) \in Contents /\ Cut(s, c.data) \in Contents
      BY <2>1, OverOK, CutOK
    <2>3. ASSUME NEW x \in Contents, db' = [db EXCEPT !.data[c.ino] = x] PROVE DataOK(ops, db') /\ Grows(ops, db, ops, db')
      BY <1>1, <2>1, <2>3, OverwrittenOK
    <2>4. DataOK(ops, db') /\ Grows(ops, db, ops, db')
      BY <1>1, <2>1, <2>2, <2>3, NothingGrows
    <2>5. CallTyped(c, ops, db')
      BY <1>1, <2>4, GrowsCall
    <2>6. ASSUME Becomes(a, Overwriting(c)), ops' = ops PROVE TypeInv'
      <3> DEFINE d == Overwriting(c)
      <3>1. d.e = c.e /\ d.old = c.old /\ d.k = c.k /\ d.next = c.next /\ d.o = c.o /\ d.pc = "truncate" /\ d.ino = c.ino /\ d.data = c.data
        BY <1>1, FlushFields
      <3>2. c.ino \in Inos(ops, db', c.o)
        BY <2>1, <2>5 DEF CallTyped
      <3> HIDE DEF d
      <3>3. CallTyped(d, ops, db')
        BY <1>3, <2>1, <2>5, <3>1, <3>2 DEF Writes
      <3>4. Becomes(a, d)
        BY <2>6 DEF d
      <3> QED BY <2>1, <2>4, <2>6, <3>3, <3>4, TypeKept
    <2> QED BY <1>b, <2>1, <2>4, <2>6
  <1> QED BY <1>4, <1>5

LEMMA StdOK ==
    ASSUME NEW P
    PROVE  \A v \in DOMAIN Std : EntryOK(Std[v], P)
PROOF
  <1>1. StdFds \subseteq Fds
    BY FdAssumption DEF StdFds, Fds
  <1> QED BY <1>1 DEF Std, Pass, EntryOK, ShapedEntry

LEMMA TypeInit == Init => TypeInv
PROOF
  <1> SUFFICES ASSUME Init PROVE TypeInv
    OBVIOUS
  <1>1. tables = <<new_table(Std)>> /\ call = [a \in Threads |-> Idle] /\ ops = <<>> /\ db = Stored
    BY DEF Init
  <1>2. DbOK(db)
    <2>1. /\ Stored = [names |-> Stored.names, data |-> Stored.data]
          /\ Stored.names \in [DOMAIN Stored.names -> 1 .. Len(Stored.data)]
          /\ Stored.data \in Seq(Seq(Nat)) /\ \A i \in 1 .. Len(Stored.data) : Len(Stored.data[i]) <= MaxLen
      BY StoredAssumption
    <2>2. Stored.data \in Seq(Contents)
      <3> DEFINE s == Stored.data
      <3>1. s \in [1 .. Len(s) -> Seq(Nat)] /\ Len(s) \in Nat
        BY <2>1
      <3>2. \A i \in 1 .. Len(s) : s[i] \in Contents
        BY <2>1, <3>1 DEF Contents
      <3>3. s \in [1 .. Len(s) -> Contents]
        BY <3>1, <3>2
      <3> HIDE DEF s
      <3>4. s \in Seq(Contents)
        BY <3>1, <3>3, SeqDef, Zenon
      <3> QED BY <3>4 DEF s
    <2> QED BY <1>1, <2>1, <2>2 DEF DbOK
  <1>3. DataOK(ops, db)
    BY <1>1, <1>2 DEF DataOK, OpsOK, IsSeq
  <1>4. \A a \in Threads : CallTyped(call[a], ops, db)
    BY <1>1, IdleSound, PlainCall
  <1>5. Len(tables) = 1 /\ tables[1].entries = Std
    BY <1>1 DEF new_table
  <1>6. \A v \in DOMAIN Std : EntryOK(Std[v], ops)
    BY StdOK
  <1> QED BY <1>3, <1>4, <1>5, <1>6 DEF TypeInv

LEMMA TypeStep == LowestInv /\ TypeInv /\ [Next]_vars => TypeInv'
PROOF
  <1> SUFFICES ASSUME LowestInv, TypeInv, [Next]_vars PROVE TypeInv'
    OBVIOUS
  <1>1. ASSUME NEW a \in Threads, dispatch_syscall(a) PROVE TypeInv'
    <2>1. Exec(a) \/ Exit(a) => TypeInv'
      BY LeavesSame DEF TypeInv
    <2> QED BY <1>1, <2>1, CallsType, MakesType, SpawnType DEF dispatch_syscall
  <1>2. ASSUME NEW a \in Threads, Resume(a) PROVE TypeInv'
    BY <1>2, ResumeType, FlushType DEF Resume
  <1>3. ASSUME NEW a \in Threads, get_fd_table(a) PROVE TypeInv'
    <2>1. tables' = Append(tables, new_table(Std)) /\ UNCHANGED <<ops, db, call>>
      BY <1>3 DEF get_fd_table
    <2>2. DataOK(ops', db') /\ Grows(ops, db, ops', db')
      BY <2>1, NothingGrows DEF TypeInv
    <2>3. \A v \in DOMAIN new_table(Std).entries : EntryOK(new_table(Std).entries[v], ops')
      BY StdOK DEF new_table
    <2> QED BY <2>1, <2>2, <2>3, TypedKept
  <1>4. CASE UNCHANGED vars
    BY <1>4 DEF vars, TypeInv
  <1> QED BY <1>1, <1>2, <1>3, <1>4 DEF Next

-----------------------------------------------------------------------------
(* The database and the files.  A file that nobody else opened and no      *)
(* write met a flush of is backed by the database: clean, it is stored,    *)
(* unless its last flush failed; being flushed, every copy under way is    *)
(* its content, and what a truncate is about to cut begins with it.        *)

Apart(P, D, o) == \A u \in 1 .. Len(P) : u # o => P[u].name # P[o].name /\ Inos(P, D, o) \cap Inos(P, D, u) = {}
Own(P, D, o) == P[o].kind = "file" /\ P[o].ino # 0 /\ ~P[o].overlapped /\ Apart(P, D, o)
Backed(P, D, C, o) ==
    Own(P, D, o) =>
    /\ ~P[o].dirty /\ ~P[o].failed => D.data[P[o].ino] = P[o].data
    /\ \A b \in Threads : Writes(C[b]) /\ C[b].o = o =>
          /\ C[b].data = P[o].data
          /\ C[b].pc = "truncate" => StartsWith(D.data[P[o].ino], P[o].data)

FlushInv == \A o \in 1 .. Len(ops) : Backed(ops, db, call, o)

LEMMA GrowsApart ==
    ASSUME NEW P, NEW D, NEW Q, NEW E, Grows(P, D, Q, E), NEW o \in 1 .. Len(P), Apart(Q, E, o)
    PROVE  Apart(P, D, o)
PROOF
  <1>1. 1 .. Len(P) \subseteq 1 .. Len(Q)
    BY DEF Grows
  <1>2. \A u \in 1 .. Len(P) : Q[u].name = P[u].name /\ Inos(P, D, u) \subseteq Inos(Q, E, u)
    BY GrowsInos DEF Grows
  <1> QED BY <1>1, <1>2 DEF Apart

\* A file that a step leaves as it is stays backed, if its content stays.
LEMMA BackedStep ==
    ASSUME LowestInv, FlushInv, NEW a \in Threads, NEW c, Becomes(a, c),
           Grows(ops, db, ops', db'), NEW o \in 1 .. Len(ops),
           ops'[o].data = ops[o].data, ops'[o].dirty = ops[o].dirty, ops'[o].overlapped = ops[o].overlapped,
           ops[o].failed => ops'[o].failed,
           Own(ops, db, o) => db'.data[ops[o].ino] = db.data[ops[o].ino],
           Writes(c) /\ c.o = o => c.pc = "pwrite" /\ c.data = ops[o].data
    PROVE  Backed(ops', db', call', o)
PROOF
  <1> SUFFICES ASSUME Own(ops', db', o)
               PROVE  /\ ~ops'[o].dirty /\ ~ops'[o].failed => db'.data[ops'[o].ino] = ops'[o].data
                      /\ \A b \in Threads : Writes(call'[b]) /\ call'[b].o = o =>
                            /\ call'[b].data = ops'[o].data
                            /\ call'[b].pc = "truncate" => StartsWith(db'.data[ops'[o].ino], ops'[o].data)
    BY DEF Backed
  <1>1. ops'[o].kind = ops[o].kind /\ ops'[o].ino = ops[o].ino
    BY DEF Grows
  <1>2. Own(ops, db, o)
    BY <1>1, GrowsApart DEF Own
  <1>3. /\ ~ops[o].dirty /\ ~ops[o].failed => db.data[ops[o].ino] = ops[o].data
        /\ \A b \in Threads : Writes(call[b]) /\ call[b].o = o =>
              /\ call[b].data = ops[o].data
              /\ call[b].pc = "truncate" => StartsWith(db.data[ops[o].ino], ops[o].data)
    BY <1>2 DEF FlushInv, Backed
  <1>4. \A b \in Threads : call'[b] = IF b = a THEN c ELSE call[b]
    BY DEF LowestInv, CallsInv, Becomes
  <1> QED BY <1>1, <1>2, <1>3, <1>4

LEMMA FlushSame ==
    ASSUME LowestInv, TypeInv, FlushInv, NEW a \in Threads, NEW c, Becomes(a, c), UNCHANGED <<ops, db>>, ~Writes(c)
    PROVE  FlushInv'
PROOF
  <1>1. Grows(ops, db, ops', db')
    BY NothingGrows DEF TypeInv
  <1> QED BY <1>1, BackedStep DEF FlushInv

LEMMA CallsFlush ==
    ASSUME LowestInv, TypeInv, FlushInv, NEW a \in Threads, UsesDescriptor(a) \/ NamesPath(a)
    PROVE  FlushInv'
PROOF
  <1>1. \E c : c.pc \in {"idle", "fwd"} /\ Becomes(a, c)
    <2>1. CASE Quiet(a)
      <3>1. Becomes(a, Idle)
        BY <2>1 DEF Quiet, Becomes
      <3> QED BY <3>1, IdleSound
    <2>2. CASE Forwarded(a)
      <3>1. PICK v \in Fds : Begin(a, [Idle EXCEPT !.pc = "fwd", !.fd = v, !.e = Entry(a, v)], {v}, {})
        BY <2>2 DEF Forwarded
      <3> DEFINE c == [Idle EXCEPT !.pc = "fwd", !.fd = v, !.e = Entry(a, v)]
      <3>2. c.pc = "fwd" /\ Becomes(a, c)
        BY <3>1 DEF Begin, Start, Becomes, Idle
      <3> HIDE DEF c
      <3> QED BY <3>2
    <2> QED BY <2>1, <2>2, Calls
  <1>2. PICK c : c.pc \in {"idle", "fwd"} /\ Becomes(a, c)
    BY <1>1
  <1>3. ~Writes(c) /\ \A b \in Threads : call'[b] = IF b = a THEN c ELSE call[b]
    BY <1>2 DEF Writes, LowestInv, CallsInv, Becomes
  <1>4. DataOK(ops, db)
    BY DEF TypeInv
  <1>5. CASE UNCHANGED <<ops, db>>
    BY <1>2, <1>3, <1>5, FlushSame
  <1>6. ASSUME NEW v \in Fds, NEW f, Touch(a, v, f) PROVE FlushInv'
    <2> DEFINE o == Entry(a, v).o
    <2>1. o \in 1 .. Len(ops) /\ ops' = [ops EXCEPT ![o] = f] /\ db' = db /\ Ops(a, v) = ops[o]
      BY <1>6, VirtualFile DEF Touch, OnVirtual, Ops
    <2> HIDE DEF o
    <2>2. DataOK(ops', db) /\ Grows(ops, db, ops', db)
      BY <1>4, <1>6, <2>1, ChangedOK DEF Touch
    <2>3. /\ Len(ops') = Len(ops) /\ ops'[o] = f
          /\ \A u \in 1 .. Len(ops) : u # o => ops'[u] = ops[u]
      <3>1. PICK S : ops \in Seq(S)
        BY <1>4 DEF DataOK, OpsOK, IsSeq
      <3>2. ops \in [1 .. Len(ops) -> S] /\ Len(ops) \in Nat
        BY <3>1
      <3> QED BY <2>1, <3>1, <3>2
    <2>4. ASSUME NEW u \in 1 .. Len(ops), u # o PROVE Backed(ops', db', call', u)
      BY <1>2, <1>3, <2>1, <2>2, <2>3, <2>4, BackedStep
    <2>5. Backed(ops', db', call', o)
      <3>1. CASE f.data = ops[o].data /\ f.dirty = ops[o].dirty /\ f.overlapped = ops[o].overlapped /\ f.failed = ops[o].failed
        BY <1>2, <1>3, <2>1, <2>2, <2>3, <3>1, BackedStep
      <3>2. CASE f.dirty /\ f.overlapped = (ops[o].overlapped \/ Flushing(o))
        <4>1. ~f.overlapped => \A b \in Threads : Writes(call[b]) => call[b].o # o
          BY <3>2 DEF Flushing, Writes
        <4> QED BY <1>3, <2>3, <3>2, <4>1 DEF Backed, Own
      <3> QED BY <1>6, <2>1, <3>1, <3>2 DEF Touch, o
    <2> QED BY <2>3, <2>4, <2>5 DEF FlushInv
  <1>7. CASE NamesOne
    <2>1. PICK n, i : Named(db, db', n, i) /\ ops' = ops
      BY <1>7 DEF NamesOne
    <2>2. Grows(ops, db, ops, db') /\ Len(db.data) \in Nat /\ \A j \in 1 .. Len(db.data) : db'.data[j] = db.data[j]
      BY <1>4, <2>1, NamedOK
    <2>3. ASSUME NEW o \in 1 .. Len(ops), Own(ops, db, o) PROVE db'.data[ops[o].ino] = db.data[ops[o].ino]
      BY <1>4, <2>2, <2>3 DEF Own, DataOK, OpsOK, FileOK
    <2> QED BY <1>2, <1>3, <2>1, <2>2, <2>3, BackedStep DEF FlushInv
  <1> QED BY <1>5, <1>6, <1>7, CallsData

LEMMA OpenatFlush ==
    ASSUME LowestInv, TypeInv, FlushInv, NEW a \in Threads, handle_openat(a)
    PROVE  FlushInv'
PROOF
  <1>0. ~Writes(Idle)
    BY IdleSound DEF Writes
  <1>1. ASSUME NEW f, NEW used, NEW path, OpensOne(a, f, used, path) PROVE FlushInv'
    <2>1. /\ DataOK(ops', db) /\ Grows(ops, db, ops', db) /\ Len(ops') = Len(ops) + 1 /\ Len(ops) \in Nat
      BY <1>1, OpenedOK DEF OpensOne, Fresh, TypeInv
    <2>2. Becomes(a, Idle) /\ db' = db /\ Fresh(f, db)
      BY <1>1, RetableBecomes DEF OpensOne
    <2>3. ops'[Len(ops) + 1] = f /\ \A o \in 1 .. Len(ops) : ops'[o] = ops[o]
      <3>1. PICK S : ops \in Seq(S)
        BY DEF TypeInv, DataOK, OpsOK, IsSeq
      <3>2. ops \in Seq(S \cup {f}) /\ ops' = Append(ops, f)
        BY <1>1, <3>1 DEF OpensOne
      <3> QED BY <3>2
    <2>4. ASSUME NEW o \in 1 .. Len(ops) PROVE Backed(ops', db', call', o)
      BY <1>0, <2>1, <2>2, <2>3, BackedStep
    <2>5. Backed(ops', db', call', Len(ops) + 1)
      <3>1. \A b \in Threads : Writes(call'[b]) => call'[b].o \in 1 .. Len(ops)
        <4>1. \A b \in Threads : call'[b] = IF b = a THEN Idle ELSE call[b]
          BY <2>2 DEF LowestInv, CallsInv, Becomes
        <4>2. \A b \in Threads : Writes(call[b]) => call[b].o \in 1 .. Len(ops)
          BY DEF TypeInv, CallTyped, Writes, Flushes
        <4> QED BY <1>0, <4>1, <4>2
      <3>2. Len(ops) + 1 \notin 1 .. Len(ops)
        BY <2>1
      <3> QED BY <2>2, <2>3, <3>1, <3>2 DEF Backed, Own, Fresh
    <2>6. \A o \in 1 .. Len(ops') : o \in 1 .. Len(ops) \/ o = Len(ops) + 1
      BY <2>1
    <2> QED BY <2>4, <2>5, <2>6 DEF FlushInv
  <1>2. ASSUME NEW used, AtOnce(a, used), UNCHANGED <<ops, db>> PROVE FlushInv'
    BY <1>0, <1>2, BeginBecomes, FlushSame DEF AtOnce
  <1>3. ASSUME NEW fd, NEW dir, NEW target, UNCHANGED <<ops, db>>,
               Start(a, [Idle EXCEPT !.pc = "open", !.fd = fd, !.e = dir, !.desc = target])
        PROVE  FlushInv'
    <2> DEFINE c == [Idle EXCEPT !.pc = "open", !.fd = fd, !.e = dir, !.desc = target]
    <2>1. ~Writes(c) /\ Becomes(a, c)
      BY <1>3 DEF Idle, Start, Becomes, Writes
    <2> HIDE DEF c
    <2> QED BY <1>3, <2>1, FlushSame
  <1> QED BY <1>1, <1>2, <1>3, OpenatCases

\* Calls that neither read nor write a virtual file, and their answers.
LEMMA LeavesData ==
    ASSUME LowestInv, TypeInv, NEW a \in Threads,
           \/ handle_socket(a) \/ handle_pipe2(a) \/ handle_dup(a) \/ handle_fcntl(a)
           \/ handle_dup2(a) \/ handle_dup3(a) \/ handle_close(a) \/ MakesProcess(a)
           \/ open_result(a) \/ allocate_fd(a) \/ pipe_result(a) \/ Duplicate(a) \/ allocate_min_fd(a)
           \/ close_old(a) \/ install(a) \/ close_kernel_fd(a) \/ inject(a)
    PROVE  UNCHANGED <<ops, db>> /\ \E c : Becomes(a, c) /\ ~Writes(c) /\ (c.pc = "install" => At(a, "closeold"))
PROOF
  <1> DEFINE Goal == \E c : Becomes(a, c) /\ ~Writes(c) /\ (c.pc = "install" => At(a, "closeold"))
  <1>1. ASSUME NEW c, Becomes(a, c), c.pc \notin {"pwrite", "truncate", "install"} PROVE Goal
    BY <1>1 DEF Writes
  <1>2. ASSUME NEW c, NEW used, NEW made, Begin(a, c, used, made), c.pc \notin {"pwrite", "truncate", "install"} PROVE Goal
    BY <1>1, <1>2, BeginBecomes
  <1>3. ASSUME NEW c, Goto(a, c), c.pc \notin {"pwrite", "truncate", "install"} PROVE Goal
    BY <1>1, <1>3, GotoBecomes
  <1>4. ASSUME NEW used, AtOnce(a, used) PROVE Goal
    BY <1>2, <1>4, IdleSound DEF AtOnce
  <1>5. Sound(call[a]) /\ CallTyped(call[a], ops, db)
    BY TypedTable
  <1>6. ASSUME NEW v \in Fds, Forward(a, v) PROVE Goal /\ UNCHANGED <<ops, db>>
    <2>1. CASE Entry(a, v).kind = "pass"
      <3> DEFINE c == [Idle EXCEPT !.pc = "fwd", !.fd = v, !.e = Entry(a, v)]
      <3>1. c.pc = "fwd" /\ Begin(a, c, {v}, {}) /\ UNCHANGED <<ops, db>>
        BY <1>6, <2>1 DEF Forward, Idle
      <3> HIDE DEF c
      <3> QED BY <1>2, <3>1
    <2>2. CASE Entry(a, v).kind # "pass"
      BY <1>4, <1>6, <2>2 DEF Forward, Untranslated
    <2> QED BY <2>1, <2>2
  <1>7. ASSUME NEW v, NEW min, DupUnknown(a, v, min) PROVE Goal /\ UNCHANGED <<ops, db>>
    BY <1>4, <1>7 DEF DupUnknown
  <1>8. ASSUME handle_socket(a) PROVE Goal /\ UNCHANGED <<ops, db>>
    <2> DEFINE c == [Idle EXCEPT !.pc = "alloc", !.e = Pass(None, <<"socket">>), !.k = Min(FreeKfds(a))]
    <2>1. c.pc = "alloc" /\ Begin(a, c, {}, {}) /\ UNCHANGED <<ops, db>>
      BY <1>8 DEF handle_socket, Idle
    <2> HIDE DEF c
    <2> QED BY <1>2, <2>1
  <1>9. ASSUME handle_pipe2(a) PROVE Goal /\ UNCHANGED <<ops, db>>
    <2> DEFINE k == Min(FreeKfds(a))
               l == Min(FreeKfds(a) \ {k})
               c == [Idle EXCEPT !.pc = "pipe", !.e = Pass(k, <<"reader">>), !.old = Pass(l, <<"writer">>)]
    <2>1. c.pc = "pipe" /\ Begin(a, c, {}, {}) /\ UNCHANGED <<ops, db>>
      BY <1>9 DEF handle_pipe2, Idle
    <2> HIDE DEF c
    <2> QED BY <1>2, <2>1
  <1>10. ASSUME handle_dup(a) PROVE Goal /\ UNCHANGED <<ops, db>>
    <2>1. PICK v \in Fds :
             \/ /\ Begin(a, [Idle EXCEPT !.pc = "dup", !.fd = v, !.e = Entry(a, v), !.next = "alloc"], {v}, {})
                /\ UNCHANGED <<ops, db>>
             \/ /\ Retable(a, Idle, {v}, allocated(Table(a)), allocate(Table(a), Entry(a, v)))
                /\ UNCHANGED <<ops, db>>
             \/ DupUnknown(a, v, 0)
      BY <1>10 DEF handle_dup
    <2> DEFINE c == [Idle EXCEPT !.pc = "dup", !.fd = v, !.e = Entry(a, v), !.next = "alloc"]
    <2>2. c.pc = "dup"
      BY DEF Idle
    <2>3. ASSUME Begin(a, c, {v}, {}) PROVE Goal
      <3> HIDE DEF c
      <3> QED BY <1>2, <2>2, <2>3
    <2>4. ASSUME NEW t, Retable(a, Idle, {v}, allocated(Table(a)), t) PROVE Goal
      BY <1>1, <2>4, RetableBecomes, IdleSound
    <2> QED BY <1>7, <2>1, <2>3, <2>4
  <1>11. ASSUME handle_fcntl(a) PROVE Goal /\ UNCHANGED <<ops, db>>
    <2>1. ASSUME NEW v \in Fds, NEW min \in Fds,
                 Begin(a, [Idle EXCEPT !.pc = "dup", !.fd = v, !.to = min, !.e = Entry(a, v), !.next = "allocmin"], {v}, {})
          PROVE  Goal
      <3> DEFINE c == [Idle EXCEPT !.pc = "dup", !.fd = v, !.to = min, !.e = Entry(a, v), !.next = "allocmin"]
      <3>1. c.pc = "dup" /\ Begin(a, c, {v}, {})
        BY <2>1 DEF Idle
      <3> HIDE DEF c
      <3> QED BY <1>2, <3>1
    <2> QED BY <1>6, <1>7, <1>11, <2>1 DEF handle_fcntl, Translate
  <1>12. ASSUME DupTo(a) PROVE Goal /\ UNCHANGED <<ops, db>>
    <2>1. ASSUME NEW v \in Fds, NEW w \in Fds,
                 Begin(a, [Idle EXCEPT !.pc = IF Entry(a, v).kind = "pass" THEN "dup" ELSE "closeold", !.fd = v, !.to = w,
                                       !.e = Entry(a, v), !.old = Entry(a, w), !.next = "closeold"], {v}, {w})
          PROVE  Goal
      <3> DEFINE c == [Idle EXCEPT !.pc = IF Entry(a, v).kind = "pass" THEN "dup" ELSE "closeold", !.fd = v, !.to = w,
                                   !.e = Entry(a, v), !.old = Entry(a, w), !.next = "closeold"]
      <3>1. c.pc \in {"dup", "closeold"} /\ Begin(a, c, {v}, {w})
        BY <2>1 DEF Idle
      <3> HIDE DEF c
      <3> QED BY <1>2, <3>1
    <2>2. Idle.pc \notin {"pwrite", "truncate", "install"}
      BY IdleSound
    <2> QED BY <1>2, <1>4, <1>12, <2>1, <2>2 DEF DupTo
  <1>13. ASSUME handle_close(a) PROVE Goal /\ UNCHANGED <<ops, db>>
    <2>1. ASSUME NEW e PROVE Closing(e).pc \notin {"pwrite", "truncate", "install"}
      BY DEF Closing, Idle
    <2>2. PICK v \in Fds : \/ Retable(a, Closing(Entry(a, v)), {}, v, deallocate(Table(a), v)) /\ UNCHANGED <<ops, db>>
                           \/ AtOnce(a, {v}) /\ UNCHANGED <<ops, db>>
      BY <1>13 DEF handle_close
    <2> QED BY <1>1, <1>4, <2>1, <2>2, RetableBecomes
  <1>14. ASSUME MakesProcess(a) PROVE Goal /\ UNCHANGED <<ops, db>>
    <2>1. PICK fs \in BOOLEAN, then \in {"share", "copy", "wait"} : Spawn(a, fs, then)
      BY <1>14 DEF MakesProcess, handle_fork, handle_vfork, handle_clone, handle_clone3
    <2> DEFINE c == [Idle EXCEPT !.pc = "inherit", !.next = then]
    <2>2. c.pc = "inherit" /\ Becomes(a, c) /\ UNCHANGED <<ops, db>>
      BY <2>1 DEF Spawn, Start, Becomes, Idle
    <2> HIDE DEF c
    <2> QED BY <1>1, <2>2
  <1>15. ASSUME NEW c, Sound(c), NEW desc, NEW pc, pc \notin {"pwrite", "truncate", "install"}, KernelOpen(a, c, desc, pc) PROVE Goal
    <2>1. \A k : [c EXCEPT !.pc = pc, !.k = k].pc = pc
      BY <1>15 DEF Sound, ShapedCall
    <2>2. Becomes(a, Idle) \/ \E k : Becomes(a, [c EXCEPT !.pc = pc, !.k = k])
      BY <1>15, KernelOpens
    <2>3. ASSUME NEW k, Becomes(a, [c EXCEPT !.pc = pc, !.k = k]) PROVE Goal
      <3> DEFINE d == [c EXCEPT !.pc = pc, !.k = k]
      <3>1. d.pc = pc /\ Becomes(a, d)
        BY <2>1, <2>3
      <3> HIDE DEF d
      <3> QED BY <1>1, <1>15, <3>1
    <2> QED BY <1>1, <2>2, <2>3, IdleSound
  <1>16. Idle.pc \notin {"pwrite", "truncate", "install"}
    BY IdleSound
  <1>17. ASSUME open_result(a) PROVE Goal /\ UNCHANGED <<ops, db>>
    <2> DEFINE c == [Idle EXCEPT !.e = Pass(None, call[a].desc), !.t = call[a].t]
    <2>1. Sound(c)
      BY DEF Sound, ShapedCall, Installs, Idle
    <2>2. KernelOpen(a, c, call[a].desc, "alloc") \/ Goto(a, Idle)
      BY <1>17 DEF open_result
    <2> HIDE DEF c
    <2> QED BY <1>3, <1>15, <1>16, <1>17, <2>1, <2>2 DEF open_result
  <1>18. ASSUME Duplicate(a) PROVE Goal /\ UNCHANGED <<ops, db>>
    <2>1. call[a].next \notin {"pwrite", "truncate", "install"}
      BY <1>5, <1>18 DEF CallTyped, Duplicate, At
    <2> QED BY <1>3, <1>5, <1>15, <1>16, <1>18, <2>1 DEF Duplicate
  <1>19. ASSUME allocate_fd(a) \/ pipe_result(a) \/ allocate_min_fd(a) PROVE Goal /\ UNCHANGED <<ops, db>>
    <2>1. Becomes(a, Idle) /\ UNCHANGED <<ops, db>>
      BY <1>19 DEF allocate_fd, pipe_result, allocate_min_fd, Give, Becomes
    <2> QED BY <1>1, <1>16, <2>1
  <1>20. ASSUME close_old(a) PROVE Goal /\ UNCHANGED <<ops, db>>
    <2> DEFINE c == call[a]
               go == [c EXCEPT !.pc = "install"]
               fl == [c EXCEPT !.pc = "flush", !.o = c.old.o, !.next = "install"]
    <2>1. go.pc = "install" /\ fl.pc = "flush"
      BY <1>5 DEF Sound, ShapedCall
    <2>2. (Goto(a, Idle) \/ Goto(a, go) \/ Goto(a, fl)) /\ At(a, "closeold")
      BY <1>20 DEF close_old
    <2>3. UNCHANGED <<ops, db>>
      BY <1>20 DEF close_old
    <2> HIDE DEF go, fl
    <2>4. ASSUME Goto(a, go) PROVE Goal
      BY <2>1, <2>2, <2>4, GotoBecomes DEF Writes
    <2> QED BY <1>3, <1>16, <2>1, <2>2, <2>3, <2>4
  <1>21. ASSUME install(a) \/ close_kernel_fd(a) \/ inject(a) PROVE Goal /\ UNCHANGED <<ops, db>>
    BY <1>1, <1>3, <1>16, <1>21 DEF install, Becomes, close_kernel_fd, inject
  <1> QED BY <1>8, <1>9, <1>10, <1>11, <1>12, <1>13, <1>14, <1>17, <1>18, <1>19, <1>20, <1>21 DEF handle_dup2, handle_dup3

\* The content of file o's inode is replaced by call[a], which flushes o; other
\* files that are on their own have other inodes.
LEMMA OthersKept ==
    ASSUME LowestInv, TypeInv, FlushInv, NEW a \in Threads, Writes(call[a]), NEW c, Becomes(a, c),
           c.o = call[a].o \/ ~Writes(c),
           NEW x \in Contents, call[a].ino \in 1 .. Len(db.data), db' = [db EXCEPT !.data[call[a].ino] = x],
           Grows(ops, db, ops', db'), NEW o \in 1 .. Len(ops), o # call[a].o, ops'[o] = ops[o]
    PROVE  Backed(ops', db', call', o)
PROOF
  <1>1. call[a].o \in 1 .. Len(ops) /\ call[a].ino \in Inos(ops, db, call[a].o)
    BY DEF TypeInv, CallTyped, Flushes, Writes
  <1>2. /\ \A j \in 1 .. Len(db.data) : db'.data[j] = IF j = call[a].ino THEN x ELSE db.data[j]
        /\ ops[o].ino \in 0 .. Len(db.data)
    BY OverwrittenOK DEF TypeInv, DataOK, OpsOK, FileOK
  <1>3. db.data \in Seq(Contents)
    BY DEF TypeInv, DataOK, DbOK
  <1>4. ASSUME Own(ops, db, o) PROVE db'.data[ops[o].ino] = db.data[ops[o].ino]
    <2>1. ops[o].ino \in Inos(ops, db, o)
      BY <1>4 DEF Own, Inos
    <2>2. ops[o].ino # call[a].ino
      BY <1>1, <1>4, <2>1 DEF Own, Apart
    <2>3. ops[o].ino \in 1 .. Len(db.data)
      BY <1>2, <1>3, <1>4 DEF Own
    <2> QED BY <1>2, <2>2, <2>3
  <1> QED BY <1>4, BackedStep

\* A file whose flush fails.
LEMMA FileFails ==
    ASSUME DataOK(ops, db'), Grows(ops, db, ops, db'), NEW o \in 1 .. Len(ops),
           ops' = [ops EXCEPT ![o] = Failing(ops[o])]
    PROVE  /\ Grows(ops, db, ops', db') /\ Len(ops') = Len(ops) /\ ops'[o] = Failing(ops[o])
           /\ \A u \in 1 .. Len(ops) : u # o => ops'[u] = ops[u]
           /\ Failing(ops[o]).data = ops[o].data /\ Failing(ops[o]).dirty = ops[o].dirty
           /\ Failing(ops[o]).overlapped = ops[o].overlapped /\ Failing(ops[o]).failed
           /\ Failing(ops[o]).kind = ops[o].kind /\ Failing(ops[o]).ino = ops[o].ino
PROOF
  <1> DEFINE f == Failing(ops[o])
  <1>1. FileOK(ops[o], db')
    BY DEF DataOK, OpsOK
  <1>2. /\ FileOK(f, db') /\ f.kind = ops[o].kind /\ f.name = ops[o].name /\ f.ino = ops[o].ino /\ f.data = ops[o].data
        /\ f.dirty = ops[o].dirty /\ f.overlapped = ops[o].overlapped /\ f.failed
    BY <1>1 DEF FileOK, Failing
  <1> HIDE DEF f
  <1>3. ops' = [ops EXCEPT ![o] = f]
    BY DEF f
  <1>4. Grows(ops, db', ops', db')
    BY <1>2, <1>3, ChangedOK
  <1>5. Grows(ops, db, ops', db')
    BY <1>4 DEF Grows
  <1>6. PICK S : ops \in Seq(S)
    BY DEF DataOK, OpsOK, IsSeq
  <1>7. ops \in [1 .. Len(ops) -> S] /\ Len(ops) \in Nat /\ ops \in Seq(S \cup {f})
    BY <1>6
  <1>8. Len(ops') = Len(ops) /\ ops'[o] = f /\ \A u \in 1 .. Len(ops) : u # o => ops'[u] = ops[u]
    BY <1>3, <1>7
  <1> QED BY <1>2, <1>5, <1>8 DEF f

LEMMA FlushFlush ==
    ASSUME LowestInv, TypeInv, FlushInv, NEW a \in Threads, fsync(a) \/ fsync_pwrite(a) \/ fsync_truncate(a)
    PROVE  FlushInv'
PROOF
  <1> DEFINE c == call[a]
             o == call[a].o
  <1>1. Flushes(c) /\ CallTyped(c, ops, db) /\ DataOK(ops, db) /\ Sound(c)
    BY TypedTable DEF fsync, fsync_pwrite, fsync_truncate, At, Flushes, TypeInv
  <1>2. o \in 1 .. Len(ops) /\ ops[o].kind = "file" /\ c.next \in {"idle", "install"} /\ FileOK(ops[o], db)
    BY <1>1 DEF CallTyped, DataOK, OpsOK
  <1>3. ~Writes(Settled(c))
    BY <1>1, <1>2, FlushFields DEF Writes
  <1>4. ASSUME fsync(a) PROVE FlushInv'
    <2>2. ASSUME Becomes(a, Settled(c)), UNCHANGED <<ops, db>> PROVE FlushInv'
      BY <1>3, <2>2, FlushSame
    <2>0. ASSUME UNCHANGED db \/ \E i : Named(db, db', ops[o].name, i)
          PROVE  /\ Grows(ops, db, ops, db') /\ DataOK(ops, db')
                 /\ \A u \in 1 .. Len(ops) : Own(ops, db, u) => db'.data[ops[u].ino] = db.data[ops[u].ino]
      <3>1. /\ Grows(ops, db, ops, db') /\ DataOK(ops, db')
            /\ Len(db.data) \in Nat /\ \A j \in 1 .. Len(db.data) : db'.data[j] = db.data[j]
        <4>1. db.data \in Seq(Contents)
          BY <1>1 DEF DataOK, DbOK
        <4>2. CASE UNCHANGED db
          BY <1>1, <4>1, <4>2, NothingGrows
        <4>3. ASSUME NEW i, Named(db, db', ops[o].name, i)
              PROVE  /\ Grows(ops, db, ops, db') /\ DataOK(ops, db')
                     /\ Len(db.data) \in Nat /\ \A j \in 1 .. Len(db.data) : db'.data[j] = db.data[j]
          BY <1>1, <4>3, NamedOK
        <4> QED BY <2>0, <4>2, <4>3
      <3> QED BY <1>1, <3>1 DEF Own, DataOK, OpsOK, FileOK
    <2>3. ASSUME NEW i, Becomes(a, WritingOut(c, ops[o].data, i)), ops' = ops,
                 \/ UNCHANGED db /\ i = ops[o].ino /\ i # 0
                 \/ ops[o].ino = 0 /\ Named(db, db', ops[o].name, i)
          PROVE  FlushInv'
      <3>1. /\ Grows(ops, db, ops, db')
            /\ \A u \in 1 .. Len(ops) : Own(ops, db, u) => db'.data[ops[u].ino] = db.data[ops[u].ino]
        BY <2>0, <2>3
      <3> DEFINE d == WritingOut(c, ops[o].data, i)
      <3>2. d.pc = "pwrite" /\ d.o = o /\ d.data = ops[o].data
        BY <1>1, FlushFields
      <3> HIDE DEF d
      <3>3. Becomes(a, d)
        BY <2>3 DEF d
      <3> HIDE DEF o
      <3>5. ASSUME NEW u \in 1 .. Len(ops) PROVE Backed(ops', db', call', u)
        BY <2>3, <3>1, <3>2, <3>3, BackedStep
      <3> QED BY <2>3, <3>5 DEF FlushInv
    <2>4. ASSUME Becomes(a, Settled(c)), ops' = [ops EXCEPT ![o] = Failing(ops[o])],
                 UNCHANGED db \/ \E i : Named(db, db', ops[o].name, i)
          PROVE  FlushInv'
      <3>1. /\ Grows(ops, db, ops, db') /\ DataOK(ops, db')
            /\ \A u \in 1 .. Len(ops) : Own(ops, db, u) => db'.data[ops[u].ino] = db.data[ops[u].ino]
        BY <2>0, <2>4
      <3>2. /\ Grows(ops, db, ops', db') /\ Len(ops') = Len(ops) /\ ops'[o] = Failing(ops[o])
            /\ \A u \in 1 .. Len(ops) : u # o => ops'[u] = ops[u]
            /\ Failing(ops[o]).data = ops[o].data /\ Failing(ops[o]).dirty = ops[o].dirty
            /\ Failing(ops[o]).overlapped = ops[o].overlapped /\ Failing(ops[o]).failed
        BY <1>2, <2>4, <3>1, FileFails
      <3> DEFINE d == Settled(c)
      <3>3. Becomes(a, d) /\ ~Writes(d)
        BY <1>3, <2>4
      <3> HIDE DEF d, o
      <3>4. ASSUME NEW u \in 1 .. Len(ops) PROVE Backed(ops', db', call', u)
        <4>1. /\ ops'[u].data = ops[u].data /\ ops'[u].dirty = ops[u].dirty /\ ops'[u].overlapped = ops[u].overlapped
              /\ ops[u].failed => ops'[u].failed
          BY <3>2
        <4> QED BY <3>1, <3>2, <3>3, <4>1, BackedStep
      <3> QED BY <3>2, <3>4 DEF FlushInv
    <2> QED BY <1>4, <2>2, <2>3, <2>4, FsyncCases
  <1>5. ASSUME fsync_pwrite(a) \/ fsync_truncate(a) PROVE FlushInv'
    <2> DEFINE s == db.data[c.ino]
    <2>1. /\ Writes(c) /\ c.ino \in 1 .. Len(db.data) /\ s \in Contents /\ c.data \in Contents
          /\ \/ /\ c.pc = "pwrite" /\ Becomes(a, Overwriting(c)) /\ ops' = ops
                /\ db' = [db EXCEPT !.data[c.ino] = Over(s, c.data)]
             \/ /\ c.pc = "truncate" /\ Becomes(a, Settled(c)) /\ ops' = [ops EXCEPT ![c.o] = Clean(ops[c.o])]
                /\ db' = [db EXCEPT !.data[c.ino] = Cut(s, c.data)]
             \/ /\ Becomes(a, Settled(c)) /\ ops' = [ops EXCEPT ![c.o] = Failing(ops[c.o])]
                /\ \/ db' = db
                   \/ \E x \in Contents : /\ db' = [db EXCEPT !.data[c.ino] = x]
                                          /\ StartsWith(s, c.data) => StartsWith(x, c.data)
      BY <1>5, StoreCases
    <2>2. /\ Over(s, c.data) \in Contents /\ StartsWith(Over(s, c.data), c.data) /\ (s = c.data => Over(s, c.data) = c.data)
          /\ Cut(s, c.data) \in Contents /\ (StartsWith(s, c.data) => Cut(s, c.data) = c.data)
      BY <2>1, OverOK, CutOK
    <2>3. ASSUME NEW x \in Contents, db' = [db EXCEPT !.data[c.ino] = x]
          PROVE  DataOK(ops, db') /\ Grows(ops, db, ops, db') /\ db'.data[c.ino] = x
      BY <1>1, <2>1, <2>3, OverwrittenOK
    <2>4. ASSUME Own(ops, db, o)
          PROVE  /\ c.ino = ops[o].ino /\ c.data = ops[o].data
                 /\ ~ops[o].dirty /\ ~ops[o].failed => s = c.data
                 /\ c.pc = "truncate" => StartsWith(s, c.data)
                 /\ \A b \in Threads : Writes(call[b]) /\ call[b].o = o =>
                       call[b].data = c.data /\ (call[b].pc = "truncate" => StartsWith(s, c.data))
      <3>1. c.ino = ops[o].ino
        BY <1>1, <2>1, <2>4 DEF CallTyped, Own, Inos
      <3>2. /\ ~ops[o].dirty /\ ~ops[o].failed => db.data[ops[o].ino] = ops[o].data
            /\ \A b \in Threads : Writes(call[b]) /\ call[b].o = o =>
                  /\ call[b].data = ops[o].data
                  /\ call[b].pc = "truncate" => StartsWith(db.data[ops[o].ino], ops[o].data)
        BY <1>2, <2>4 DEF FlushInv, Backed
      <3> QED BY <2>1, <3>1, <3>2
    <2>5. ASSUME c.pc = "pwrite", Becomes(a, Overwriting(c)), ops' = ops, db' = [db EXCEPT !.data[c.ino] = Over(s, c.data)]
          PROVE  FlushInv'
      <3> DEFINE d == Overwriting(c)
                 x == Over(s, c.data)
      <3>1. d.pc = "truncate" /\ d.o = o /\ d.data = c.data /\ Becomes(a, d)
        BY <1>1, <2>5, FlushFields
      <3>2. x \in Contents /\ StartsWith(x, c.data) /\ (s = c.data => x = c.data)
        BY <2>2
      <3>3. db' = [db EXCEPT !.data[c.ino] = x]
        BY <2>5
      <3> HIDE DEF d, x
      <3>4. Grows(ops, db, ops', db') /\ db'.data[c.ino] = x
        BY <2>3, <2>5, <3>2, <3>3
      <3>5. ASSUME NEW u \in 1 .. Len(ops), u # o PROVE Backed(ops', db', call', u)
        BY <2>1, <2>5, <3>1, <3>2, <3>3, <3>4, <3>5, OthersKept
      <3>6. ASSUME Own(ops', db', o) PROVE Own(ops, db, o)
        BY <1>2, <2>5, <3>4, <3>6, GrowsApart DEF Own
      <3>7. \A b \in Threads : call'[b] = IF b = a THEN d ELSE call[b]
        BY <3>1 DEF LowestInv, CallsInv, Becomes
      <3>8. Backed(ops', db', call', o)
        BY <2>4, <2>5, <3>1, <3>2, <3>4, <3>6, <3>7 DEF Backed
      <3> QED BY <2>5, <3>5, <3>8 DEF FlushInv
    <2>6. ASSUME c.pc = "truncate", Becomes(a, Settled(c)), ops' = [ops EXCEPT ![c.o] = Clean(ops[c.o])],
                 db' = [db EXCEPT !.data[c.ino] = Cut(s, c.data)]
          PROVE  FlushInv'
      <3> DEFINE d == Settled(c)
                 x == Cut(s, c.data)
                 f == Clean(ops[o])
      <3>1. ~Writes(d) /\ Becomes(a, d)
        BY <1>3, <2>6
      <3>2. x \in Contents /\ (StartsWith(s, c.data) => x = c.data)
        BY <2>2
      <3>3. db' = [db EXCEPT !.data[c.ino] = x] /\ ops' = [ops EXCEPT ![o] = f]
        BY <2>6
      <3>4. FileOK(f, db) /\ f.kind = ops[o].kind /\ f.name = ops[o].name /\ f.ino = ops[o].ino /\ f.data = ops[o].data
            /\ f.overlapped = ops[o].overlapped
        BY <1>2 DEF FileOK, Clean
      <3> HIDE DEF d, x, f
      <3>5. Grows(ops, db, ops, db') /\ db'.data[c.ino] = x /\ Grows(ops, db, ops', db)
        BY <1>1, <1>2, <2>3, <3>2, <3>3, <3>4, ChangedOK
      <3>6. Grows(ops, db, ops', db')
        BY <3>5 DEF Grows
      <3>7. Len(ops') = Len(ops) /\ ops'[o] = f /\ \A u \in 1 .. Len(ops) : u # o => ops'[u] = ops[u]
        <4>1. PICK S : ops \in Seq(S)
          BY <1>1 DEF DataOK, OpsOK, IsSeq
        <4>2. ops \in [1 .. Len(ops) -> S] /\ Len(ops) \in Nat
          BY <4>1
        <4> QED BY <1>2, <3>3, <4>1, <4>2
      <3>8. ASSUME NEW u \in 1 .. Len(ops), u # o PROVE Backed(ops', db', call', u)
        BY <2>1, <3>1, <3>2, <3>3, <3>6, <3>7, <3>8, OthersKept
      <3>9. ASSUME Own(ops', db', o) PROVE Own(ops, db, o)
        BY <1>2, <3>4, <3>6, <3>7, <3>9, GrowsApart DEF Own
      <3>10. \A b \in Threads : call'[b] = IF b = a THEN d ELSE call[b]
        BY <3>1 DEF LowestInv, CallsInv, Becomes
      <3>11. StartsWith(c.data, c.data)
        BY <2>1, StartsWithItself
      <3>12. Backed(ops', db', call', o)
        <4> SUFFICES ASSUME Own(ops', db', o)
                     PROVE  /\ db'.data[f.ino] = f.data
                            /\ \A b \in Threads : Writes(call'[b]) /\ call'[b].o = o =>
                                  /\ call'[b].data = f.data
                                  /\ call'[b].pc = "truncate" => StartsWith(db'.data[f.ino], f.data)
          BY <3>7 DEF Backed
        <4>1. x = c.data /\ c.ino = f.ino /\ c.data = f.data
          BY <2>4, <2>6, <3>2, <3>4, <3>9
        <4>2. \A b \in Threads : Writes(call[b]) /\ call[b].o = o => call[b].data = c.data
          BY <2>4, <3>9
        <4> QED BY <3>1, <3>5, <3>10, <3>11, <4>1, <4>2
      <3> QED BY <3>7, <3>8, <3>12 DEF FlushInv
    <2>7. ASSUME Becomes(a, Settled(c)), ops' = [ops EXCEPT ![c.o] = Failing(ops[c.o])],
                 NEW x \in Contents, db' = db \/ db' = [db EXCEPT !.data[c.ino] = x],
                 StartsWith(s, c.data) => StartsWith(x, c.data)
          PROVE  FlushInv'
      <3> DEFINE d == Settled(c)
      <3>1. ~Writes(d) /\ Becomes(a, d)
        BY <1>3, <2>7
      <3> HIDE DEF d
      <3>2. DataOK(ops, db') /\ Grows(ops, db, ops, db') /\ (db' # db => db'.data[c.ino] = x)
        BY <1>1, <2>3, <2>7, NothingGrows
      <3>3. /\ Grows(ops, db, ops', db') /\ Len(ops') = Len(ops) /\ ops'[o] = Failing(ops[o])
            /\ \A u \in 1 .. Len(ops) : u # o => ops'[u] = ops[u]
            /\ Failing(ops[o]).data = ops[o].data /\ Failing(ops[o]).kind = ops[o].kind /\ Failing(ops[o]).ino = ops[o].ino
            /\ Failing(ops[o]).overlapped = ops[o].overlapped /\ Failing(ops[o]).failed
        BY <1>2, <2>7, <3>2, FileFails
      <3>4. ASSUME NEW u \in 1 .. Len(ops), u # o PROVE Backed(ops', db', call', u)
        <4>1. CASE db' = db
          BY <3>1, <3>3, <3>4, <4>1, BackedStep
        <4>2. CASE db' = [db EXCEPT !.data[c.ino] = x]
          BY <2>1, <3>1, <3>3, <3>4, <4>2, OthersKept
        <4> QED BY <2>7, <4>1, <4>2
      <3>5. ASSUME Own(ops', db', o) PROVE Own(ops, db, o)
        BY <1>2, <3>3, <3>5, GrowsApart DEF Own
      <3>6. \A b \in Threads : call'[b] = IF b = a THEN d ELSE call[b]
        BY <3>1 DEF LowestInv, CallsInv, Becomes
      <3>7. Backed(ops', db', call', o)
        <4> SUFFICES ASSUME Own(ops', db', o)
                     PROVE  \A b \in Threads : Writes(call'[b]) /\ call'[b].o = o =>
                               /\ call'[b].data = ops[o].data
                               /\ call'[b].pc = "truncate" => StartsWith(db'.data[ops[o].ino], ops[o].data)
          BY <3>3 DEF Backed
        <4>1. c.ino = ops[o].ino /\ c.data = ops[o].data
          BY <2>4, <3>5
        <4>2. \A b \in Threads : Writes(call[b]) /\ call[b].o = o =>
                 call[b].data = c.data /\ (call[b].pc = "truncate" => StartsWith(s, c.data))
          BY <2>4, <3>5
        <4> QED BY <2>7, <3>1, <3>2, <3>6, <4>1, <4>2
      <3> QED BY <3>3, <3>4, <3>7 DEF FlushInv
    <2> QED BY <2>1, <2>5, <2>6, <2>7
  <1> QED BY <1>4, <1>5

LEMMA FlushInit == Init => FlushInv
BY DEF Init, FlushInv

LEMMA FlushStep == LowestInv /\ TypeInv /\ FlushInv /\ [Next]_vars => FlushInv'
PROOF
  <1> SUFFICES ASSUME LowestInv, TypeInv, FlushInv, [Next]_vars PROVE FlushInv'
    OBVIOUS
  <1>1. ASSUME NEW a \in Threads, UNCHANGED <<ops, db>> /\ \E c : Becomes(a, c) /\ ~Writes(c) PROVE FlushInv'
    BY <1>1, FlushSame
  <1>2. ASSUME NEW a \in Threads, MakesDescriptors(a) PROVE FlushInv'
    BY <1>1, <1>2, OpenatFlush, LeavesData DEF MakesDescriptors
  <1>3. ASSUME NEW a \in Threads, dispatch_syscall(a) PROVE FlushInv'
    <2>1. Exec(a) \/ Exit(a) => FlushInv'
      BY LeavesSame DEF FlushInv, Backed, Own, Apart, Inos
    <2> QED BY <1>1, <1>2, <1>3, <2>1, CallsFlush, LeavesData DEF dispatch_syscall
  <1>4. ASSUME NEW a \in Threads, insert_fd_table(a) PROVE FlushInv'
    <2>1. \A b \in Threads : Sound(call[b])
      BY DEF LowestInv, CallsInv
    <2>2. \A b \in Threads : LET d == [call[b] EXCEPT !.t = Ix(b)]
                             IN d.pc = call[b].pc /\ d.o = call[b].o /\ d.data = call[b].data
      BY <2>1 DEF Sound, ShapedCall
    <2>3. UNCHANGED <<ops, db>> /\ \A b \in Threads : call'[b] = Detached(a, b)
      BY <1>4 DEF insert_fd_table, Detached
    <2>4. \A b \in Threads : ~Writes(call'[b]) \/ (call'[b].pc = call[b].pc /\ call'[b].o = call[b].o /\ call'[b].data = call[b].data)
      BY <2>2, <2>3, IdleSound DEF Detached, Writes
    <2>5. ASSUME NEW o \in 1 .. Len(ops) PROVE Backed(ops, db, call', o)
      BY <2>4 DEF FlushInv, Backed, Writes
    <2> QED BY <2>3, <2>5 DEF FlushInv
  <1>5. ASSUME NEW a \in Threads, Resume(a) PROVE FlushInv'
    BY <1>1, <1>4, <1>5, FlushFlush, LeavesData DEF Resume
  <1>6. ASSUME NEW a \in Threads, get_fd_table(a) PROVE FlushInv'
    <2>1. UNCHANGED <<ops, db, call>>
      BY <1>6 DEF get_fd_table
    <2> QED BY <2>1 DEF FlushInv
  <1>7. CASE UNCHANGED vars
    BY <1>7 DEF vars, FlushInv
  <1> QED BY <1>3, <1>5, <1>6, <1>7 DEF Next

(***************************************************************************)
(* Which mount a path is taken by.  The code keeps the mounts sorted, and  *)
(* takes the first that matches; where a mount is only matched by what     *)
(* lies below it, that is the deepest one.                                 *)
(***************************************************************************)

\* Mounts for which "the deepest" is one mount, and by names the same as by
\* characters: no two on one directory, none below a SQLite mount, and no path
\* of the guest whose name only begins with that of a SQLite mount next to it.
MountsApart ==
    /\ \A j, k \in 1 .. Len(Added) : Added[j].path = Added[k].path => j = k
    /\ \A j, k \in 1 .. Len(Added) : Added[k].kind = "sqlite" /\ IsPrefix(Added[k].path, Added[j].path) => j = k
    /\ \A k \in 1 .. Len(Added) : Added[k].kind = "sqlite" =>
          \A p \in Paths : StringPrefix(Added[k].path, p) => IsPrefix(Added[k].path, p)

Sooner(j, k) == Depth(j) > Depth(k) \/ (Depth(j) = Depth(k) /\ j < k)
Earlier(k) == {j \in 1 .. Len(Added) : Sooner(j, k)}
Place == [k \in 1 .. Len(Added) |-> Cardinality(Earlier(k))]

LEMMA AddedTypes ==
    /\ Len(Added) \in Nat
    /\ \A k \in 1 .. Len(Added) : /\ Added[k].path \in Seq(STRING) /\ Added[k].host \in Seq(STRING)
                                  /\ Added[k].kind \in {"bind", "sqlite"} /\ Depth(k) \in Nat
PROOF
  <1> DEFINE R == [path : Seq(STRING), kind : {"bind", "sqlite"}, host : Seq(STRING)]
  <1>1. Added \in Seq(R)
    BY MountAssumption
  <1>2. \A m \in R : m.path \in Seq(STRING) /\ m.host \in Seq(STRING) /\ m.kind \in {"bind", "sqlite"} /\ Len(m.path) \in Nat
    OBVIOUS
  <1> HIDE DEF R
  <1>3. Len(Added) \in Nat /\ \A k \in 1 .. Len(Added) : Added[k] \in R
    BY <1>1
  <1> QED BY <1>2, <1>3 DEF Depth

\* `Place` counts the mounts without gap.
LEMMA PlaceOnto ==
    /\ Place \in [1 .. Len(Added) -> 0 .. (Len(Added) - 1)]
    /\ \A i \in 0 .. (Len(Added) - 1) : \E k \in 1 .. Len(Added) : Place[k] = i
    /\ \A j, k \in 1 .. Len(Added) : Sooner(j, k) => Place[j] < Place[k]
    /\ \A j, k \in 1 .. Len(Added) : Place[j] = Place[k] => j = k
PROOF
  <1> DEFINE N == Len(Added)
             H == 1 .. N
             I == 0 .. (N - 1)
  <1>1. N \in Nat /\ \A k \in H : Depth(k) \in Nat /\ k \in Nat
    BY AddedTypes
  <1>2. IsFiniteSet(H) /\ Cardinality(H) = N
    <2>1. 1 \in Int /\ N \in Int
      BY <1>1
    <2>2. IsFiniteSet(1 .. N) /\ Cardinality(1 .. N) = IF 1 > N THEN 0 ELSE N - 1 + 1
      BY <2>1, FS_Interval
    <2>3. (IF 1 > N THEN 0 ELSE N - 1 + 1) = N
      BY <1>1
    <2> QED BY <2>2, <2>3
  <1>3. IsFiniteSet(I) /\ Cardinality(I) = N
    <2> HIDE DEF N
    <2>1. 0 \in Int /\ N - 1 \in Int
      BY <1>1
    <2>2. IsFiniteSet(0 .. (N - 1)) /\ Cardinality(0 .. (N - 1)) = IF 0 > N - 1 THEN 0 ELSE (N - 1) - 0 + 1
      BY <2>1, FS_Interval
    <2>3. (IF 0 > N - 1 THEN 0 ELSE (N - 1) - 0 + 1) = N
      BY <1>1
    <2> QED BY <2>2, <2>3
  <1> HIDE DEF H, I, N
  <1>4. ASSUME NEW k \in H
        PROVE  /\ IsFiniteSet(Earlier(k)) /\ Earlier(k) \in SUBSET H /\ k \notin Earlier(k)
               /\ Cardinality(Earlier(k)) \in Nat
    <2>1. Earlier(k) \in SUBSET H
      BY DEF Earlier, H, N
    <2>2. k \notin Earlier(k)
      BY <1>1 DEF Earlier, Sooner
    <2>3. IsFiniteSet(Earlier(k))
      BY <1>2, <2>1, FS_Subset
    <2> QED BY <2>1, <2>2, <2>3, FS_CardinalityType
  <1>5. ASSUME NEW k \in H PROVE Cardinality(Earlier(k)) \in I
    <2>1. Cardinality(Earlier(k)) <= N /\ Cardinality(Earlier(k)) # N
      BY <1>2, <1>4, FS_Subset
    <2>2. Cardinality(Earlier(k)) \in Nat
      BY <1>4
    <2> QED BY <1>1, <2>1, <2>2 DEF I
  <1>6. Place \in [H -> I] /\ \A k \in H : Place[k] = Cardinality(Earlier(k))
    BY <1>5 DEF Place, H, N
  <1>7. ASSUME NEW j \in H, NEW k \in H, Sooner(j, k) PROVE Place[j] < Place[k]
    <2>1. ASSUME NEW i \in Earlier(j) PROVE i \in Earlier(k)
      <3>1. i \in H /\ Sooner(i, j)
        BY <2>1 DEF Earlier, H, N
      <3>2. Sooner(i, k)
        BY <1>1, <1>7, <3>1 DEF Sooner
      <3> QED BY <3>1, <3>2 DEF Earlier, H, N
    <2>2. Earlier(j) \subseteq Earlier(k) /\ j \in Earlier(k) /\ j \notin Earlier(j)
      BY <1>4, <1>7, <2>1 DEF Earlier, H, N
    <2>3. Cardinality(Earlier(j)) <= Cardinality(Earlier(k)) /\ Cardinality(Earlier(j)) # Cardinality(Earlier(k))
      BY <1>4, <2>2, FS_Subset
    <2>4. Cardinality(Earlier(j)) \in Nat /\ Cardinality(Earlier(k)) \in Nat
      BY <1>4
    <2>5. Cardinality(Earlier(j)) < Cardinality(Earlier(k))
      BY <2>3, <2>4
    <2> QED BY <1>6, <2>5
  <1>8. ASSUME NEW j \in H, NEW k \in H, Place[j] = Place[k] PROVE j = k
    <2>1. Place[j] \in Nat /\ Place[k] \in Nat
      BY <1>4, <1>6
    <2>2. ~Sooner(j, k) /\ ~Sooner(k, j)
      BY <1>7, <1>8, <2>1
    <2> QED BY <1>1, <2>2 DEF Sooner
  <1>9. Place \in Injection(H, I)
    BY <1>6, <1>8 DEF Injection, IsInjective
  <1>10. Place \in Surjection(H, I)
    BY <1>2, <1>3, <1>9, FS_Injection
  <1>11. \A i \in I : \E k \in H : Place[k] = i
    BY <1>10 DEF Surjection
  <1> QED BY <1>6, <1>7, <1>8, <1>11 DEF H, I, N

\* Which of the mounts added is the n-th of the sorted ones.
Sorted(n) == CHOOSE k \in 1 .. Len(Added) : Place[k] = n - 1

LEMMA MountsSorted ==
    /\ DOMAIN mounts = 1 .. Len(Added) /\ Len(mounts) = Len(Added)
    /\ \A n \in 1 .. Len(Added) : Sorted(n) \in 1 .. Len(Added) /\ mounts[n] = Added[Sorted(n)]
    /\ \A k \in 1 .. Len(Added) : \E n \in 1 .. Len(Added) : Sorted(n) = k
    /\ \A m, n \in 1 .. Len(Added) : m < n => Sooner(Sorted(m), Sorted(n))
PROOF
  <1> DEFINE N == Len(Added)
  <1>1. N \in Nat /\ \A k \in 1 .. N : Depth(k) \in Nat
    BY AddedTypes
  <1>2. mounts = [n \in 1 .. N |-> Added[CHOOSE k \in 1 .. N : Cardinality(Earlier(k)) = n - 1]]
    BY DEF mounts, Earlier, Sooner
  <1>3. \A k \in 1 .. N : Place[k] = Cardinality(Earlier(k))
    BY DEF Place
  <1> HIDE DEF N
  <1>4. ASSUME NEW n \in 1 .. N
        PROVE  /\ Sorted(n) = CHOOSE k \in 1 .. N : Cardinality(Earlier(k)) = n - 1
               /\ Sorted(n) \in 1 .. N /\ Place[Sorted(n)] = n - 1
    <2>1. n - 1 \in 0 .. (N - 1)
      BY <1>1
    <2>2. \E k \in 1 .. N : Place[k] = n - 1
      BY <2>1, PlaceOnto DEF N
    <2>3. \A k \in 1 .. N : (Place[k] = n - 1) <=> (Cardinality(Earlier(k)) = n - 1)
      BY <1>3
    <2>4. (CHOOSE k \in 1 .. N : Place[k] = n - 1) = CHOOSE k \in 1 .. N : Cardinality(Earlier(k)) = n - 1
      BY <2>3, Zenon
    <2> QED BY <2>2, <2>4 DEF Sorted, N
  <1>5. DOMAIN mounts = 1 .. N /\ \A n \in 1 .. N : mounts[n] = Added[Sorted(n)]
    BY <1>2, <1>4
  <1>6. Len(mounts) = N
    <2>1. mounts = [n \in 1 .. N |-> mounts[n]]
      BY <1>2, <1>5
    <2> DEFINE f(n) == Added[Sorted(n)]
    <2>2. mounts = [n \in 1 .. N |-> f(n)]
      BY <1>5, <2>1
    <2> HIDE DEF f
    <2>3. Len([n \in 1 .. N |-> f(n)]) = N
      BY <1>1
    <2> QED BY <2>2, <2>3
  <1>7. ASSUME NEW k \in 1 .. N PROVE \E n \in 1 .. N : Sorted(n) = k
    <2>1. Place[k] \in 0 .. (N - 1)
      BY PlaceOnto DEF N
    <2>2. PICK n \in 1 .. N : n - 1 = Place[k]
      <3> DEFINE i == Place[k]
      <3>1. i \in 0 .. (N - 1)
        BY <2>1
      <3> HIDE DEF i
      <3>2. i + 1 \in 1 .. N /\ (i + 1) - 1 = i
        BY <1>1, <3>1
      <3>3. \E n \in 1 .. N : n - 1 = i
        BY <3>2
      <3> QED BY <3>3 DEF i
    <2>3. Sorted(n) \in 1 .. N /\ Place[Sorted(n)] = Place[k]
      BY <1>4, <2>2
    <2>4. Sorted(n) = k
      BY <2>3, PlaceOnto DEF N
    <2> QED BY <2>4
  <1>8. ASSUME NEW m \in 1 .. N, NEW n \in 1 .. N, m < n PROVE Sooner(Sorted(m), Sorted(n))
    <2> DEFINE j == Sorted(m)
               k == Sorted(n)
    <2>1. j \in 1 .. N /\ k \in 1 .. N /\ Place[j] = m - 1 /\ Place[k] = n - 1
      BY <1>4
    <2>2. m \in Nat /\ n \in Nat
      BY <1>1
    <2> HIDE DEF j, k
    <2>3. ~(Place[k] < Place[j]) /\ Place[j] # Place[k]
      BY <1>8, <2>1, <2>2
    <2>4. ~Sooner(k, j) /\ j # k
      BY <2>1, <2>3, PlaceOnto DEF N
    <2>5. Sooner(j, k)
      BY <1>1, <2>1, <2>4 DEF Sooner
    <2> QED BY <2>5 DEF j, k
  <1> QED BY <1>4, <1>5, <1>6, <1>7, <1>8 DEF N

LEMMA PrefixByElement ==
    ASSUME NEW s \in Seq(STRING), NEW t \in Seq(STRING)
    PROVE  IsPrefix(s, t) <=> Len(s) <= Len(t) /\ \A i \in 1 .. Len(s) : s[i] = t[i]
PROOF
  <1>1. CASE Len(s) <= Len(t)
    <2>1. SubSeq(s, 1, Len(s)) = [i \in 1 .. Len(s) |-> s[i]] /\ SubSeq(t, 1, Len(s)) = [i \in 1 .. Len(s) |-> t[i]]
      BY <1>1
    <2> QED BY <1>1, <2>1 DEF IsPrefix
  <1>2. CASE ~(Len(s) <= Len(t))
    BY <1>2 DEF IsPrefix
  <1> QED BY <1>1, <1>2

\* A mount takes what is below it, and of two that are prefixes of one path
\* the shorter is a prefix of the other.
LEMMA PrefixTaken ==
    ASSUME NEW k \in 1 .. Len(Added), NEW p \in Seq(STRING), IsPrefix(Added[k].path, p)
    PROVE  Takes(Added[k], p)
PROOF
  <1> DEFINE q == Added[k].path
  <1>1. q \in Seq(STRING)
    BY AddedTypes
  <1> HIDE DEF q
  <1>2. Len(q) <= Len(p) /\ \A i \in 1 .. Len(q) : q[i] = p[i]
    BY <1>1, PrefixByElement DEF q
  <1>3. q # <<>> => Len(q) \in 1 .. Len(q)
    BY <1>1
  <1>4. \A i \in 1 .. (Len(q) - 1) : i \in 1 .. Len(q)
    BY <1>1
  <1>5. StringPrefix(q, p)
    BY <1>2, <1>3, <1>4 DEF StringPrefix
  <1> QED BY <1>5 DEF Takes, q

LEMMA PrefixesNest ==
    ASSUME NEW s \in Seq(STRING), NEW t \in Seq(STRING), NEW p \in Seq(STRING),
           IsPrefix(s, p), IsPrefix(t, p), Len(s) <= Len(t)
    PROVE  IsPrefix(s, t) /\ (Len(s) = Len(t) => s = t)
PROOF
  <1>1. /\ \A i \in 1 .. Len(s) : s[i] = p[i]
        /\ \A i \in 1 .. Len(t) : t[i] = p[i]
    BY PrefixByElement
  <1>2. \A i \in 1 .. Len(s) : i \in 1 .. Len(t)
    OBVIOUS
  <1>3. \A i \in 1 .. Len(s) : s[i] = t[i]
    BY <1>1, <1>2
  <1>4. IsPrefix(s, t)
    BY <1>3, PrefixByElement
  <1>5. Len(s) = Len(t) => s = t
    BY <1>3
  <1> QED BY <1>4, <1>5

\* The first that takes a path, and none deeper takes it.
LEMMA Resolved ==
    ASSUME NEW p \in Seq(STRING)
    PROVE  /\ resolve(p) # {} => \E k \in 1 .. Len(Added) :
                 /\ Mount(p) = Added[k] /\ Takes(Added[k], p)
                 /\ \A j \in 1 .. Len(Added) : Takes(Added[j], p) => Depth(j) <= Depth(k)
           /\ (\E k \in 1 .. Len(Added) : Takes(Added[k], p)) => resolve(p) # {}
PROOF
  <1> DEFINE N == Len(Added)
             T == {n \in 1 .. N : Takes(mounts[n], p)}
  <1>1. N \in Nat /\ (\A k \in 1 .. N : Depth(k) \in Nat) /\ Len(mounts) = N
    BY AddedTypes, MountsSorted
  <1>2. T \in SUBSET Nat
    BY <1>1
  <1>3. ASSUME NEW n \in resolve(p) PROVE n \in T /\ \A m \in T : n <= m
    <2>1. n \in 1 .. N /\ Takes(mounts[n], p) /\ \A m \in 1 .. (n - 1) : ~Takes(mounts[m], p)
      BY <1>1, <1>3 DEF resolve
    <2>2. ASSUME NEW m \in T PROVE n <= m
      <3>1. m \in 1 .. N /\ m \notin 1 .. (n - 1)
        BY <2>1
      <3> HIDE DEF N, T
      <3> QED BY <1>1, <2>1, <3>1
    <2> QED BY <2>1, <2>2
  <1>4. ASSUME T # {} PROVE resolve(p) # {}
    <2>1. Min(T) \in T /\ \A m \in T : Min(T) <= m
      BY <1>2, <1>4, MinInSet
    <2> DEFINE n == Min(T)
    <2>2. n \in 1 .. N /\ Takes(mounts[n], p)
      BY <2>1
    <2>3. ASSUME NEW m \in 1 .. (n - 1) PROVE ~Takes(mounts[m], p)
      <3> HIDE DEF n
      <3>1. m \in 1 .. N /\ ~(n <= m)
        <4> HIDE DEF N, T
        <4> QED BY <1>1, <2>2, <2>3
      <3> QED BY <2>1, <3>1 DEF n
    <2>4. n \in resolve(p)
      <3> HIDE DEF n
      <3> QED BY <1>1, <2>2, <2>3 DEF resolve
    <2> QED BY <2>4
  <1>5. ASSUME NEW k \in 1 .. N, Takes(Added[k], p) PROVE resolve(p) # {}
    <2>1. PICK n \in 1 .. N : Sorted(n) = k
      BY MountsSorted
    <2>2. n \in T
      BY <1>5, <2>1, MountsSorted
    <2> HIDE DEF T
    <2> QED BY <1>4, <2>2
  <1>6. ASSUME resolve(p) # {}
        PROVE  \E k \in 1 .. N : /\ Mount(p) = Added[k] /\ Takes(Added[k], p)
                                 /\ \A j \in 1 .. N : Takes(Added[j], p) => Depth(j) <= Depth(k)
    <2> DEFINE n == CHOOSE n \in resolve(p) : TRUE
    <2>1. n \in resolve(p) /\ Mount(p) = mounts[n]
      BY <1>6 DEF Mount
    <2> HIDE DEF n
    <2>2. n \in T /\ \A m \in T : n <= m
      BY <1>3, <2>1
    <2>3. n \in 1 .. N /\ Takes(mounts[n], p)
      BY <2>2
    <2>4. Sorted(n) \in 1 .. N /\ mounts[n] = Added[Sorted(n)]
      BY <2>3, MountsSorted
    <2>5. ASSUME NEW j \in 1 .. N, Takes(Added[j], p) PROVE Depth(j) <= Depth(Sorted(n))
      <3>1. PICK m \in 1 .. N : Sorted(m) = j
        BY MountsSorted
      <3>2. m \in T
        BY <2>5, <3>1, MountsSorted
      <3>3. n <= m
        BY <2>2, <3>2
      <3>4. n < m => Sooner(Sorted(n), j)
        BY <2>3, <3>1, MountsSorted
      <3> HIDE DEF T, N
      <3>5. m \in Nat /\ n \in Nat
        BY <1>1, <2>3
      <3>6. CASE n = m
        BY <1>1, <2>4, <3>1, <3>6
      <3>7. CASE n < m
        BY <1>1, <2>4, <3>4, <3>7 DEF Sooner
      <3> QED BY <3>3, <3>5, <3>6, <3>7
    <2> QED BY <2>1, <2>3, <2>4, <2>5
  <1> QED BY <1>5, <1>6

\* A path of the guest goes to the deepest mount.
LEMMA Translated ==
    ASSUME MountsApart, NEW p \in Paths
    PROVE  translate_path(p) = IF \E n \in Owner(p) : Added[n].kind = "bind"
                               THEN LET n == CHOOSE n \in Owner(p) : TRUE
                                    IN Added[n].host \o SubSeq(p, Depth(n) + 1, Len(p))
                               ELSE p
PROOF
  <1>0. p \in Seq(STRING)
    BY PathsAssumption
  <1>1. \A k \in 1 .. Len(Added) : Takes(Added[k], p) <=> IsPrefix(Added[k].path, p)
    BY <1>0, PrefixTaken, AddedTypes DEF MountsApart, Takes
  <1>2. CASE resolve(p) = {}
    <2>1. \A k \in 1 .. Len(Added) : ~IsPrefix(Added[k].path, p)
      BY <1>0, <1>1, <1>2, Resolved
    <2>2. Owner(p) = {}
      BY <2>1 DEF Owner
    <2> QED BY <1>2, <2>2 DEF translate_path
  <1>3. CASE resolve(p) # {}
    <2>1. PICK k \in 1 .. Len(Added) :
              /\ Mount(p) = Added[k] /\ Takes(Added[k], p)
              /\ \A j \in 1 .. Len(Added) : Takes(Added[j], p) => Depth(j) <= Depth(k)
      BY <1>0, <1>3, Resolved
    <2>2. k \in Owner(p)
      BY <1>1, <2>1 DEF Owner
    <2>3. ASSUME NEW j \in Owner(p) PROVE j = k
      <3>1. /\ j \in 1 .. Len(Added) /\ IsPrefix(Added[j].path, p) /\ IsPrefix(Added[k].path, p)
            /\ Depth(j) <= Depth(k) /\ Depth(k) <= Depth(j)
        BY <1>1, <2>1, <2>2 DEF Owner
      <3>2. Depth(j) = Depth(k)
        BY <3>1, AddedTypes
      <3>3. Len(Added[j].path) <= Len(Added[k].path) /\ Len(Added[j].path) = Len(Added[k].path)
        BY <3>1, <3>2 DEF Depth
      <3>4. Added[j].path \in Seq(STRING) /\ Added[k].path \in Seq(STRING)
        BY <3>1, AddedTypes
      <3>5. Added[j].path = Added[k].path
        BY <1>0, <3>1, <3>3, <3>4, PrefixesNest
      <3> QED BY <3>1, <3>5 DEF MountsApart
    <2>4. Owner(p) = {k} /\ (CHOOSE n \in Owner(p) : TRUE) = k
      BY <2>2, <2>3
    <2>5. Virtual(p) <=> Added[k].kind = "sqlite"
      BY <1>3, <2>1 DEF Virtual
    <2>6. Added[k].kind \in {"bind", "sqlite"}
      BY AddedTypes
    <2>7. CASE Added[k].kind = "sqlite"
      <3>1. translate_path(p) = p
        BY <2>5, <2>7 DEF translate_path
      <3> QED BY <2>4, <2>7, <3>1
    <2>8. CASE Added[k].kind = "bind"
      <3>1. translate_path(p) = BindPath(Added[k], p)
        BY <1>3, <2>1, <2>5, <2>8 DEF translate_path
      <3> QED BY <2>4, <2>8, <3>1 DEF BindPath, Depth
    <2> QED BY <2>6, <2>7, <2>8
  <1> QED BY <1>2, <1>3

\* Whatever lies below a SQLite mount is virtual.
InStore(p) == p \in Seq(STRING) /\ \E k \in 1 .. Len(Added) : Added[k].kind = "sqlite" /\ IsPrefix(Added[k].path, p)

LEMMA StoredIsVirtual ==
    ASSUME MountsApart, NEW p, InStore(p)
    PROVE  Virtual(p)
PROOF
  <1>1. PICK k \in 1 .. Len(Added) : Added[k].kind = "sqlite" /\ IsPrefix(Added[k].path, p)
    BY DEF InStore
  <1>2. p \in Seq(STRING)
    BY DEF InStore
  <1>3. Takes(Added[k], p)
    BY <1>1, <1>2, PrefixTaken
  <1>4. resolve(p) # {}
    BY <1>2, <1>3, Resolved
  <1>5. PICK i \in 1 .. Len(Added) :
            /\ Mount(p) = Added[i] /\ Takes(Added[i], p)
            /\ \A j \in 1 .. Len(Added) : Takes(Added[j], p) => Depth(j) <= Depth(i)
    BY <1>2, <1>4, Resolved
  <1>6. ASSUME Added[i].kind = "bind" PROVE FALSE
    <2>1. IsPrefix(Added[i].path, p) /\ Depth(k) <= Depth(i)
      BY <1>3, <1>5, <1>6 DEF Takes
    <2>2. Added[i].path \in Seq(STRING) /\ Added[k].path \in Seq(STRING)
      BY AddedTypes
    <2>3. IsPrefix(Added[k].path, Added[i].path)
      BY <1>1, <1>2, <2>1, <2>2, PrefixesNest DEF Depth
    <2>4. i = k
      BY <1>1, <2>3 DEF MountsApart
    <2> QED BY <1>1, <1>6, <2>4
  <1>7. Added[i].kind = "sqlite"
    BY <1>6, AddedTypes
  <1> QED BY <1>4, <1>5, <1>7 DEF Virtual

LEMMA BelowStored ==
    ASSUME NEW p, InStore(p), NEW r \in Seq(STRING)
    PROVE  InStore(p \o r)
PROOF
  <1>1. PICK k \in 1 .. Len(Added) : Added[k].kind = "sqlite" /\ IsPrefix(Added[k].path, p)
    BY DEF InStore
  <1> DEFINE q == Added[k].path
  <1>2. p \in Seq(STRING) /\ q \in Seq(STRING)
    BY AddedTypes DEF InStore
  <1> HIDE DEF q
  <1>3. Len(q) <= Len(p) /\ \A i \in 1 .. Len(q) : q[i] = p[i]
    BY <1>1, <1>2, PrefixByElement DEF q
  <1>4. p \o r \in Seq(STRING) /\ Len(p \o r) = Len(p) + Len(r) /\ \A i \in 1 .. Len(p) : (p \o r)[i] = p[i]
    BY <1>2
  <1>5. Len(q) <= Len(p \o r) /\ \A i \in 1 .. Len(q) : q[i] = (p \o r)[i]
    BY <1>2, <1>3, <1>4
  <1>6. IsPrefix(q, p \o r)
    BY <1>2, <1>4, <1>5, PrefixByElement
  <1> QED BY <1>1, <1>4, <1>6 DEF InStore, q

LEMMA InsideStored ==
    ASSUME NEW p \in Seq(STRING), Inside(p)
    PROVE  InStore(p)
PROOF
  <1>1. resolve(p) # {} /\ Mount(p).kind = "sqlite" /\ IsPrefix(Mount(p).path, p)
    BY DEF Inside, Virtual
  <1>2. PICK k \in 1 .. Len(Added) : Mount(p) = Added[k]
    BY <1>1, Resolved
  <1> QED BY <1>1, <1>2 DEF InStore

(***************************************************************************)
(* An openat relative to a virtual directory goes on with that directory's *)
(* path: it is one below a SQLite mount in every entry of a table, and in  *)
(* every entry a call under way keeps.                                     *)
(***************************************************************************)
StoreEntry(e) == e.kind = "virt" => InStore(e.desc)
StoreEntries(T) == \A v \in DOMAIN T : StoreEntry(T[v])
StoreCall(c) == StoreEntry(c.e) /\ StoreEntry(c.old)

StoreInv == /\ \A n \in 1 .. Len(tables) : StoreEntries(tables[n].entries)
            /\ \A a \in Threads : StoreCall(call[a])
AskedInv == \A pq \in asked : pq[1] \in Paths /\ pq[2] = translate_path(pq[1])

StoresCall(a) == \/ call' = call \/ call' = [b \in Threads |-> Detached(a, b)]
                 \/ \E c : StoreCall(c) /\ call' = [call EXCEPT ![a] = c]
StoresTable(a) == \/ tables' = tables
                  \/ \E t : SetTable(a, t) /\ StoreEntries(t.entries)
                  \/ \E t \in {Table(a), new_table(Std)} : tables' = Append(tables, t)

LEMMA StoreTable ==
    ASSUME LowestInv, StoreInv, NEW a \in Threads
    PROVE  /\ Good(Table(a)) /\ Sound(call[a]) /\ StoreCall(call[a]) /\ StoreEntries(Table(a).entries)
           /\ \A v : StoreEntry(Entry(a, v))
PROOF
  <1>2. StoreEntries(Table(a).entries) /\ Good(Table(a)) /\ Sound(call[a]) /\ StoreCall(call[a])
    BY TableIn DEF LowestInv, CallsInv, StoreInv
  <1>3. StoreEntry(NoEntry)
    BY DEF StoreEntry, NoEntry
  <1> QED BY <1>2, <1>3 DEF StoreEntries, Entry, Has

LEMMA StdStores == StoreEntries(new_table(Std).entries)
BY DEF StoreEntries, StoreEntry, Std, Pass, new_table

LEMMA IdleStore == StoreCall(Idle) /\ StoreEntry(NoEntry)
BY DEF StoreCall, StoreEntry, Idle, NoEntry

LEMMA StoreKept ==
    ASSUME LowestInv, StoreInv, NEW a \in Threads, StoresCall(a), StoresTable(a)
    PROVE  StoreInv'
PROOF
  <1>1. PICK S : tables \in Seq(S)
    BY DEF LowestInv, TablesInv, IsSeq
  <1>2. Len(tables) \in Nat /\ Ix(a) \in 1 .. Len(tables)
    BY <1>1, TableIn
  <1>3. ASSUME NEW b \in Threads PROVE StoreCall(call'[b])
    <2>0. StoreCall(call[b]) /\ Sound(call[b])
      BY DEF StoreInv, LowestInv, CallsInv
    <2>1. ASSUME NEW c, StoreCall(c), call' = [call EXCEPT ![a] = c] PROVE StoreCall(call'[b])
      <3>1. call'[b] = IF b = a THEN c ELSE call[b]
        BY <2>1 DEF LowestInv, CallsInv
      <3> QED BY <2>0, <2>1, <3>1
    <2>2. CASE call' = [x \in Threads |-> Detached(a, x)]
      <3>1. StoreCall([call[b] EXCEPT !.t = Ix(b)])
        BY <2>0 DEF Sound, ShapedCall, StoreCall
      <3> QED BY <2>0, <2>2, <3>1, IdleStore DEF Detached
    <2> QED BY <2>0, <2>1, <2>2 DEF StoresCall
  <1>4. \A n \in 1 .. Len(tables') : StoreEntries(tables'[n].entries)
    <2>1. CASE tables' = tables
      BY <2>1 DEF StoreInv
    <2>2. ASSUME NEW t, SetTable(a, t), StoreEntries(t.entries)
          PROVE  \A n \in 1 .. Len(tables') : StoreEntries(tables'[n].entries)
      <3>1. tables \in Seq(S \cup {t}) /\ tables' = [tables EXCEPT ![Ix(a)] = t]
        BY <1>1, <2>2 DEF SetTable
      <3>2. Len(tables') = Len(tables) /\ \A n \in 1 .. Len(tables) : tables'[n] = IF n = Ix(a) THEN t ELSE tables[n]
        BY <1>2, <3>1
      <3> QED BY <2>2, <3>2 DEF StoreInv
    <2>3. ASSUME NEW t \in {Table(a), new_table(Std)}, tables' = Append(tables, t)
          PROVE  \A n \in 1 .. Len(tables') : StoreEntries(tables'[n].entries)
      <3>1. tables \in Seq(S \cup {t}) /\ t \in S \cup {t}
        BY <1>1
      <3>2. Len(tables') = Len(tables) + 1 /\ \A n \in 1 .. Len(tables) + 1 : tables'[n] = IF n = Len(tables) + 1 THEN t ELSE tables[n]
        BY <2>3, <3>1
      <3>3. ASSUME NEW n \in 1 .. Len(tables') PROVE StoreEntries(tables'[n].entries)
        <4>1. StoreEntries(t.entries)
          BY <2>3, StoreTable, StdStores
        <4>2. n = Len(tables) + 1 \/ n \in 1 .. Len(tables)
          BY <1>2, <3>2
        <4> QED BY <1>2, <3>2, <4>1, <4>2 DEF StoreInv
      <3> QED BY <3>3
    <2> QED BY <2>1, <2>2, <2>3 DEF StoresTable
  <1> QED BY <1>3, <1>4 DEF StoreInv

LEMMA StoreAllocates ==
    ASSUME NEW t, Good(t), CanAllocate(t), NEW e, StoreEntries(t.entries), StoreEntry(e)
    PROVE  StoreEntries(allocate(t, e).entries)
PROOF
  <1>1. Entered(allocate(t, e).entries, t.entries, allocated(t), e)
    BY AllocateGood DEF Entered
  <1> QED BY <1>1 DEF Entered, StoreEntries

LEMMA StoreAllocatesAt ==
    ASSUME NEW t, Good(t), NEW v \in Fds, NEW e, StoreEntries(t.entries), StoreEntry(e)
    PROVE  StoreEntries(allocate_at(t, v, e).entries)
PROOF
  <1>1. Entered(allocate_at(t, v, e).entries, t.entries, v, e)
    BY AllocateAtGood DEF Entered
  <1> QED BY <1>1 DEF Entered, StoreEntries

\* Where an openat looks, and what its first branch enters.
LEMMA OpenatPath ==
    ASSUME LowestInv, StoreInv, NEW a \in Threads, NEW vp \in OpenedAs(a)
    PROVE  FullPath(Entry(a, vp[1]), vp[2]) \in Seq(STRING)
PROOF
  <1>1. vp[2] \in Seq(STRING)
    BY PathsAssumption DEF OpenedAs
  <1>2. StoreEntry(Entry(a, vp[1]))
    BY StoreTable
  <1>3. CASE Entry(a, vp[1]).kind = "virt"
    BY <1>1, <1>2, <1>3, BelowStored DEF FullPath, StoreEntry, InStore
  <1> QED BY <1>1, <1>3 DEF FullPath

LEMMA OpenatStores ==
    ASSUME LowestInv, StoreInv, NEW a \in Threads, handle_openat(a)
    PROVE  StoresCall(a) /\ StoresTable(a)
PROOF
  <1>1. ASSUME NEW vp \in OpenedAs(a), NEW flags, NEW path, path = FullPath(Entry(a, vp[1]), vp[2]),
               NEW new, new = IF Inside(path) THEN OpenVirtual(translate_to_relative(path), flags) ELSE {},
               CanAllocate(Table(a)), Becomes(a, Idle),
               NEW o, (new = {} /\ tables' = tables) \/ (new # {} /\ SetTable(a, allocate(Table(a), Virt(o, path))))
        PROVE  StoresCall(a) /\ StoresTable(a)
    <2>1. StoresCall(a)
      BY <1>1, IdleStore DEF Becomes, StoresCall
    <2>2. ASSUME new # {} PROVE StoreEntries(allocate(Table(a), Virt(o, path)).entries)
      <3>1. InStore(path)
        BY <1>1, <2>2, OpenatPath, InsideStored
      <3>2. StoreEntry(Virt(o, path))
        BY <3>1 DEF StoreEntry, Virt
      <3> QED BY <1>1, <3>2, StoreTable, StoreAllocates
    <2> QED BY <1>1, <2>1, <2>2 DEF StoresTable
  <1>2. ASSUME NEW vp \in OpenedAs(a), NEW target, tables' = tables,
               Start(a, [Idle EXCEPT !.pc = "open", !.fd = vp[1], !.e = Entry(a, vp[1]), !.desc = target])
        PROVE  StoresCall(a) /\ StoresTable(a)
    <2> DEFINE c == [Idle EXCEPT !.pc = "open", !.fd = vp[1], !.e = Entry(a, vp[1]), !.desc = target]
    <2>1. c.e = Entry(a, vp[1]) /\ c.old = NoEntry /\ call' = [call EXCEPT ![a] = c]
      BY <1>2 DEF Idle, Start
    <2> HIDE DEF c
    <2> QED BY <1>2, <2>1, IdleStore, StoreTable DEF StoresCall, StoresTable, StoreCall
  <1>3. CASE \E vp \in OpenedAs(a), flags \in OpenFlags :
                LET dir == Entry(a, vp[1])
                    path == FullPath(dir, vp[2])
                    new == IF Inside(path) THEN OpenVirtual(translate_to_relative(path), flags) ELSE {}
                IN /\ IsVirtual(dir, vp[2]) /\ Len(ops) < MaxOps /\ CanAllocate(Table(a))
                   /\ IF new = {} THEN AtOnce(a, {vp[1]} \ {AT_FDCWD}) /\ UNCHANGED <<ops, tables>>
                      ELSE /\ ops' = ops \o SetToSeq(new)
                           /\ Retable(a, Idle, {vp[1]} \ {AT_FDCWD}, allocated(Table(a)),
                                      allocate(Table(a), Virt(Len(ops'), path)))
                   /\ UNCHANGED <<World, files, db>>
    <2>1. PICK vp \in OpenedAs(a), flags \in OpenFlags :
                LET dir == Entry(a, vp[1])
                    path == FullPath(dir, vp[2])
                    new == IF Inside(path) THEN OpenVirtual(translate_to_relative(path), flags) ELSE {}
                IN /\ CanAllocate(Table(a))
                   /\ IF new = {} THEN AtOnce(a, {vp[1]} \ {AT_FDCWD}) /\ UNCHANGED <<ops, tables>>
                      ELSE Retable(a, Idle, {vp[1]} \ {AT_FDCWD}, allocated(Table(a)),
                                   allocate(Table(a), Virt(Len(ops'), path)))
      BY <1>3
    <2> DEFINE path == FullPath(Entry(a, vp[1]), vp[2])
               new == IF Inside(path) THEN OpenVirtual(translate_to_relative(path), flags) ELSE {}
    <2>2. /\ CanAllocate(Table(a))
          /\ IF new = {} THEN AtOnce(a, {vp[1]} \ {AT_FDCWD}) /\ UNCHANGED <<ops, tables>>
             ELSE Retable(a, Idle, {vp[1]} \ {AT_FDCWD}, allocated(Table(a)), allocate(Table(a), Virt(Len(ops'), path)))
      BY <2>1
    <2>3. path = FullPath(Entry(a, vp[1]), vp[2]) /\ new = IF Inside(path) THEN OpenVirtual(translate_to_relative(path), flags) ELSE {}
      OBVIOUS
    <2> HIDE DEF new, path
    <2>4. (new = {} /\ tables' = tables) \/ (new # {} /\ SetTable(a, allocate(Table(a), Virt(Len(ops'), path))))
      BY <2>2, RetableBecomes
    <2>5. Becomes(a, Idle)
      BY <2>2, RetableBecomes, BeginBecomes DEF AtOnce
    <2>6. PICK o : o = Len(ops')
      OBVIOUS
    <2> QED BY <1>1, <2>2, <2>3, <2>4, <2>5, <2>6
  <1>4. CASE \E vp \in OpenedAs(a) :
                LET dir == Entry(a, vp[1])
                    path == FullPath(dir, vp[2])
                    target == HostTarget(dir, vp[2])
                IN /\ Start(a, [Idle EXCEPT !.pc = "open", !.fd = vp[1], !.e = dir, !.desc = target])
                   /\ UNCHANGED tables
    BY <1>2, <1>4
  <1> QED BY <1>3, <1>4 DEF handle_openat

LEMMA MakesStores ==
    ASSUME LowestInv, StoreInv, NEW a \in Threads, MakesDescriptors(a)
    PROVE  StoresCall(a) /\ StoresTable(a)
PROOF
  <1> DEFINE t == Table(a)
  <1>0. Good(t) /\ StoreEntries(t.entries) /\ \A v : StoreEntry(Entry(a, v))
    BY StoreTable
  <1>1. ASSUME NEW used, NEW made, Begin(a, Idle, used, made) PROVE StoresCall(a)
    BY <1>1, IdleStore DEF Begin, Start, StoresCall
  <1>b. ASSUME NEW c, StoreCall(c), NEW used, NEW v, NEW u, StoreEntries(u.entries), Retable(a, c, used, v, u)
        PROVE  StoresCall(a) /\ StoresTable(a)
    BY <1>b DEF Retable, Start, StoresCall, StoresTable
  <1>2. ASSUME NEW v, NEW min, DupUnknown(a, v, min) PROVE StoresCall(a) /\ StoresTable(a)
    BY <1>1, <1>2 DEF DupUnknown, AtOnce, StoresTable
  <1>3. ASSUME handle_socket(a) \/ handle_pipe2(a) PROVE StoresCall(a) /\ StoresTable(a)
    <2>1. ASSUME NEW k, NEW desc PROVE StoreEntry(Pass(k, desc))
      BY DEF StoreEntry, Pass
    <2>2. ASSUME NEW e, NEW k, StoreEntry(e), Begin(a, [Idle EXCEPT !.pc = "alloc", !.e = e, !.k = k], {}, {}) PROVE StoresCall(a)
      <3>1. StoreCall([Idle EXCEPT !.pc = "alloc", !.e = e, !.k = k])
        BY <2>2, IdleStore DEF Idle, StoreCall
      <3> QED BY <2>2, <3>1 DEF Begin, Start, StoresCall
    <2>3. ASSUME NEW e, NEW f, StoreEntry(e), StoreEntry(f), Begin(a, [Idle EXCEPT !.pc = "pipe", !.e = e, !.old = f], {}, {}) PROVE StoresCall(a)
      <3>1. StoreCall([Idle EXCEPT !.pc = "pipe", !.e = e, !.old = f])
        BY <2>3, IdleStore DEF Idle, StoreCall
      <3> QED BY <2>3, <3>1 DEF Begin, Start, StoresCall
    <2> QED BY <1>3, <2>1, <2>2, <2>3 DEF handle_socket, handle_pipe2, StoresTable
  <1>4. ASSUME NEW pc, NEW v, NEW w, NEW e, NEW old, NEW next, NEW used, NEW made, StoreEntry(e), StoreEntry(old),
               \/ Begin(a, [Idle EXCEPT !.pc = pc, !.fd = v, !.to = w, !.e = e, !.old = old, !.next = next], used, made)
               \/ Begin(a, [Idle EXCEPT !.pc = pc, !.fd = v, !.e = e, !.next = next], used, made)
               \/ Begin(a, [Idle EXCEPT !.pc = pc, !.fd = v, !.to = w, !.e = e, !.next = next], used, made)
        PROVE  StoresCall(a)
    <2>1. /\ StoreCall([Idle EXCEPT !.pc = pc, !.fd = v, !.to = w, !.e = e, !.old = old, !.next = next])
          /\ StoreCall([Idle EXCEPT !.pc = pc, !.fd = v, !.e = e, !.next = next])
          /\ StoreCall([Idle EXCEPT !.pc = pc, !.fd = v, !.to = w, !.e = e, !.next = next])
      BY <1>4, IdleStore DEF Idle, StoreCall
    <2> QED BY <1>4, <2>1 DEF Begin, Start, StoresCall
  <1>5. ASSUME handle_dup(a) PROVE StoresCall(a) /\ StoresTable(a)
    <2>1. PICK v \in Fds :
             \/ Begin(a, [Idle EXCEPT !.pc = "dup", !.fd = v, !.e = Entry(a, v), !.next = "alloc"], {v}, {}) /\ UNCHANGED tables
             \/ (CanAllocate(t) /\ Retable(a, Idle, {v}, allocated(t), allocate(t, Entry(a, v))))
             \/ DupUnknown(a, v, 0)
      BY <1>5 DEF handle_dup
    <2>2. CanAllocate(t) => StoreEntries(allocate(t, Entry(a, v)).entries)
      BY <1>0, StoreAllocates
    <2>3. CASE Begin(a, [Idle EXCEPT !.pc = "dup", !.fd = v, !.e = Entry(a, v), !.next = "alloc"], {v}, {}) /\ UNCHANGED tables
      BY <1>0, <1>4, <2>3, IdleStore DEF StoresTable
    <2>4. CASE CanAllocate(t) /\ Retable(a, Idle, {v}, allocated(t), allocate(t, Entry(a, v)))
      BY <1>b, <2>2, <2>4, IdleStore
    <2> QED BY <1>2, <2>1, <2>3, <2>4
  <1>6. ASSUME handle_fcntl(a) PROVE StoresCall(a) /\ StoresTable(a)
    <2>1. ASSUME NEW v, Forward(a, v) PROVE StoresCall(a) /\ StoresTable(a)
      <3>1. StoreCall([Idle EXCEPT !.pc = "fwd", !.fd = v, !.e = Entry(a, v)])
        BY <1>0, IdleStore DEF Idle, StoreCall
      <3> QED BY <1>1, <2>1, <3>1 DEF Forward, Untranslated, AtOnce, Begin, Start, StoresCall, StoresTable
    <2>2. ASSUME NEW v \in Fds, NEW min \in Fds,
                 Begin(a, [Idle EXCEPT !.pc = "dup", !.fd = v, !.to = min, !.e = Entry(a, v), !.next = "allocmin"], {v}, {}),
                 UNCHANGED tables
          PROVE StoresCall(a) /\ StoresTable(a)
      BY <1>0, <1>4, <2>2, IdleStore DEF StoresTable
    <2> QED BY <1>2, <1>6, <2>1, <2>2 DEF handle_fcntl, Translate
  <1>7. ASSUME DupTo(a) PROVE StoresCall(a) /\ StoresTable(a)
    <2>1. PICK v \in Fds, w \in Fds :
             /\ \/ Begin(a, [Idle EXCEPT !.pc = IF Entry(a, v).kind = "pass" THEN "dup" ELSE "closeold", !.fd = v, !.to = w,
                                         !.e = Entry(a, v), !.old = Entry(a, w), !.next = "closeold"], {v}, {w})
                \/ Begin(a, Idle, {v}, {w})
             /\ UNCHANGED tables
      BY <1>7 DEF DupTo
    <2>2. CASE Begin(a, [Idle EXCEPT !.pc = IF Entry(a, v).kind = "pass" THEN "dup" ELSE "closeold", !.fd = v, !.to = w,
                                     !.e = Entry(a, v), !.old = Entry(a, w), !.next = "closeold"], {v}, {w})
      <3>1. PICK pc : pc = IF Entry(a, v).kind = "pass" THEN "dup" ELSE "closeold"
        OBVIOUS
      <3>2. Begin(a, [Idle EXCEPT !.pc = pc, !.fd = v, !.to = w, !.e = Entry(a, v), !.old = Entry(a, w), !.next = "closeold"], {v}, {w})
        BY <2>2, <3>1
      <3>3. StoreEntry(Entry(a, v)) /\ StoreEntry(Entry(a, w))
        BY <1>0
      <3>4. StoreCall([Idle EXCEPT !.pc = pc, !.fd = v, !.to = w, !.e = Entry(a, v), !.old = Entry(a, w), !.next = "closeold"])
        BY <3>3 DEF Idle, StoreCall
      <3>5. StoresCall(a)
        BY <3>2, <3>4 DEF Begin, Start, StoresCall
      <3> QED BY <2>1, <3>5 DEF StoresTable
    <2> QED BY <1>1, <2>1, <2>2 DEF StoresTable
  <1>8. ASSUME handle_close(a) PROVE StoresCall(a) /\ StoresTable(a)
    <2>1. PICK v \in Fds :
             \/ Entry(a, v).kind # "none" /\ Retable(a, Closing(Entry(a, v)), {}, v, deallocate(t, v))
             \/ AtOnce(a, {v}) /\ UNCHANGED tables
      BY <1>8 DEF handle_close
    <2>2. StoreCall(Closing(Entry(a, v)))
      BY IdleStore DEF Closing, Idle, StoreCall
    <2>3. StoreEntries(deallocate(t, v).entries)
      <3>1. deallocate(t, v).entries = [x \in DOMAIN t.entries \ {v} |-> t.entries[x]]
        BY <1>0 DEF Good, Shaped, deallocate
      <3> QED BY <1>0, <3>1 DEF StoreEntries
    <2> QED BY <1>1, <1>b, <2>1, <2>2, <2>3 DEF AtOnce, StoresTable
  <1> QED BY <1>3, <1>5, <1>6, <1>7, <1>8, OpenatStores DEF MakesDescriptors, handle_dup2, handle_dup3

LEMMA ResumeStores ==
    ASSUME LowestInv, TypeInv, StoreInv, NEW a \in Threads, Resume(a)
    PROVE  StoresCall(a) /\ StoresTable(a)
PROOF
  <1> DEFINE t == Table(a)
             c == call[a]
  <1>0. Good(t) /\ StoreEntries(t.entries) /\ Sound(c) /\ CallTyped(c, ops, db) /\ StoreEntry(c.e) /\ StoreEntry(c.old)
    BY StoreTable, TypedTable DEF StoreCall
  <1>1. ASSUME NEW d, StoreCall(d), Goto(a, d) PROVE StoresCall(a)
    BY <1>1 DEF Goto, StoresCall
  <1>2. ASSUME NEW u, StoreEntries(u.entries), Give(a, u) PROVE StoresCall(a) /\ StoresTable(a)
    BY <1>2, IdleStore DEF Give, StoresCall, StoresTable
  <1>3. ASSUME NEW d, NEW desc, NEW pc, KernelOpen(a, d, desc, pc), \A k : StoreCall([d EXCEPT !.pc = pc, !.k = k])
        PROVE  StoresCall(a)
    BY <1>1, <1>3, IdleStore DEF KernelOpen
  <1>4. ASSUME open_result(a) PROVE StoresCall(a) /\ StoresTable(a)
    <2> DEFINE d0 == [Idle EXCEPT !.e = Pass(None, c.desc), !.t = c.t]
    <2>1. \A k : StoreCall([d0 EXCEPT !.pc = "alloc", !.k = k])
      BY IdleStore DEF Idle, StoreCall, StoreEntry, Pass
    <2>2. (KernelOpen(a, d0, c.desc, "alloc") \/ Goto(a, Idle)) /\ tables' = tables
      BY <1>4 DEF open_result
    <2> HIDE DEF d0
    <2> QED BY <1>1, <1>3, <2>1, <2>2, IdleStore DEF StoresTable
  <1>5. Makes(c) => StoreEntry(NewEntry(c)) /\ StoreEntry([c.e EXCEPT !.k = c.k])
    <2>1. ASSUME Makes(c) PROVE ShapedEntry(c.e)
      BY <1>0, <2>1 DEF CallTyped
    <2>2. ASSUME Makes(c) PROVE StoreEntry([c.e EXCEPT !.k = c.k])
      BY <1>0, <2>1, <2>2 DEF ShapedEntry, StoreEntry
    <2> QED BY <1>0, <2>2 DEF NewEntry
  <1>6. ASSUME allocate_fd(a) PROVE StoresCall(a) /\ StoresTable(a)
    <2>1. Makes(c) /\ CanAllocate(t) /\ Give(a, allocate(t, [c.e EXCEPT !.k = c.k]))
      BY <1>6 DEF allocate_fd, At, Makes
    <2> QED BY <1>0, <1>2, <1>5, <2>1, StoreAllocates
  <1>7. ASSUME allocate_min_fd(a) PROVE StoresCall(a) /\ StoresTable(a)
    <2> DEFINE e == [c.e EXCEPT !.k = c.k]
    <2>1. /\ Makes(c) /\ \E v \in Fds : v >= c.to /\ ~Has(t, v)
          /\ Give(a, allocate_min(t, c.to, e))
      BY <1>7 DEF allocate_min_fd, At, Makes
    <2>2. /\ allocated_min(t, c.to) \in Fds
          /\ allocate_min(t, c.to, e) = allocate_at(t, allocated_min(t, c.to), e)
      BY <1>0, <2>1, AllocateMinGood
    <2>3. StoreEntry(e)
      BY <1>5, <2>1
    <2> HIDE DEF e
    <2>4. StoreEntries(allocate_min(t, c.to, e).entries)
      BY <1>0, <2>2, <2>3, StoreAllocatesAt
    <2> QED BY <1>2, <2>1, <2>4
  <1>8. ASSUME pipe_result(a) PROVE StoresCall(a) /\ StoresTable(a)
    <2>1. CanAllocate(t) /\ CanAllocate(allocate(t, c.e)) /\ Give(a, allocate(allocate(t, c.e), c.old))
      BY <1>8 DEF pipe_result
    <2>2. StoreEntries(allocate(t, c.e).entries) /\ Good(allocate(t, c.e))
      BY <1>0, <2>1, StoreAllocates, AllocateGood
    <2>3. StoreEntries(allocate(allocate(t, c.e), c.old).entries)
      BY <1>0, <2>1, <2>2, StoreAllocates
    <2> QED BY <1>2, <2>1, <2>3
  <1>9. ASSUME Duplicate(a) PROVE StoresCall(a) /\ StoresTable(a)
    <2>1. \A k : StoreCall([c EXCEPT !.pc = c.next, !.k = k])
      BY <1>0 DEF Sound, ShapedCall, StoreCall
    <2>2. tables' = tables /\ (Goto(a, Idle) \/ \E desc : KernelOpen(a, c, desc, c.next))
      BY <1>9 DEF Duplicate
    <2> HIDE DEF c
    <2> QED BY <1>1, <1>3, <2>1, <2>2, IdleStore DEF StoresTable
  <1>10. ASSUME close_old(a) PROVE StoresCall(a) /\ StoresTable(a)
    <2>1. /\ StoreCall([c EXCEPT !.pc = "install"])
          /\ StoreCall([c EXCEPT !.pc = "flush", !.o = c.old.o, !.next = "install"])
      BY <1>0 DEF Sound, ShapedCall, StoreCall
    <2> QED BY <1>1, <1>10, <2>1, IdleStore DEF close_old, StoresTable
  <1>11. ASSUME install(a) PROVE StoresCall(a) /\ StoresTable(a)
    <2>1. Makes(c) /\ c.to \in Fds
      BY <1>0, <1>11 DEF install, At, Makes, Installing, Sound, Installs
    <2>2. SetTable(a, allocate_at(t, c.to, NewEntry(c))) /\ call' = [call EXCEPT ![a] = Idle]
      BY <1>11 DEF install, NewEntry
    <2>3. StoreEntries(allocate_at(t, c.to, NewEntry(c)).entries)
      BY <1>0, <1>5, <2>1, StoreAllocatesAt
    <2> QED BY <2>2, <2>3, IdleStore DEF StoresCall, StoresTable
  <1>12. ASSUME close_kernel_fd(a) \/ inject(a) PROVE StoresCall(a) /\ StoresTable(a)
    BY <1>1, <1>12, IdleStore DEF close_kernel_fd, inject, StoresTable
  <1>14. ASSUME insert_fd_table(a) PROVE StoresCall(a) /\ StoresTable(a)
    <2>1. call' = [b \in Threads |-> Detached(a, b)]
      BY <1>14 DEF insert_fd_table, Detached
    <2>2. tables' = tables \/ tables' = Append(tables, t)
      BY <1>14 DEF insert_fd_table
    <2> QED BY <2>1, <2>2 DEF StoresCall, StoresTable
  <1>13. ASSUME fsync(a) \/ fsync_pwrite(a) \/ fsync_truncate(a) PROVE StoresCall(a) /\ StoresTable(a)
    <2>1. /\ \A d, i : StoreCall([c EXCEPT !.pc = "pwrite", !.data = d, !.ino = i])
          /\ StoreCall([c EXCEPT !.pc = "truncate"])
          /\ StoreCall([c EXCEPT !.pc = c.next, !.o = 0, !.ino = 0, !.data = <<>>])
      BY <1>0 DEF Sound, ShapedCall, StoreCall
    <2>2. ASSUME Abandon(a) \/ Fail(a) PROVE StoresCall(a)
      BY <1>1, <2>1, <2>2 DEF Abandon, Fail
    <2>3. fsync(a) => StoresCall(a)
      BY <1>1, <2>1, <2>2 DEF fsync
    <2>4. fsync_pwrite(a) => StoresCall(a)
      BY <1>1, <2>1, <2>2 DEF fsync_pwrite
    <2>5. fsync_truncate(a) => StoresCall(a)
      BY <2>2 DEF fsync_truncate
    <2>6. tables' = tables
      BY <1>13 DEF fsync, fsync_pwrite, fsync_truncate
    <2> QED BY <1>13, <2>3, <2>4, <2>5, <2>6 DEF StoresTable
  <1> QED BY <1>4, <1>6, <1>7, <1>8, <1>9, <1>10, <1>11, <1>12, <1>13, <1>14 DEF Resume

LEMMA StoreStep == LowestInv /\ TypeInv /\ StoreInv /\ [Next]_vars => StoreInv'
PROOF
  <1> SUFFICES ASSUME LowestInv, TypeInv, StoreInv, [Next]_vars PROVE StoreInv'
    OBVIOUS
  <1>1. ASSUME NEW a \in Threads, UsesDescriptor(a) \/ NamesPath(a) PROVE StoresCall(a) /\ StoresTable(a)
    <2>1. CASE Quiet(a)
      BY <2>1, IdleStore DEF Quiet, StoresCall, StoresTable
    <2>2. CASE Forwarded(a)
      <3>1. PICK v \in Fds : Begin(a, [Idle EXCEPT !.pc = "fwd", !.fd = v, !.e = Entry(a, v)], {v}, {}) /\ tables' = tables
        BY <2>2 DEF Forwarded
      <3>2. StoreCall([Idle EXCEPT !.pc = "fwd", !.fd = v, !.e = Entry(a, v)])
        BY StoreTable, IdleStore DEF Idle, StoreCall
      <3> QED BY <3>1, <3>2 DEF Begin, Start, StoresCall, StoresTable
    <2> QED BY <1>1, <2>1, <2>2, Calls
  <1>2. ASSUME NEW a \in Threads, MakesProcess(a) PROVE StoresCall(a) /\ StoresTable(a)
    <2>1. PICK fs \in BOOLEAN, then \in {"share", "copy", "wait"} : Spawn(a, fs, then)
      BY <1>2 DEF MakesProcess, handle_fork, handle_vfork, handle_clone, handle_clone3
    <2>2. StoreCall([Idle EXCEPT !.pc = "inherit", !.next = then])
      BY IdleStore DEF Idle, StoreCall
    <2> QED BY <2>1, <2>2 DEF Spawn, Start, StoresCall, StoresTable
  <1>3. ASSUME NEW a \in Threads, Exec(a) \/ Exit(a) \/ get_fd_table(a) PROVE StoresCall(a) /\ StoresTable(a)
    BY <1>3, LeavesSame DEF get_fd_table, StoresCall, StoresTable
  <1>4. ASSUME NEW a \in Threads, dispatch_syscall(a) \/ Resume(a) \/ get_fd_table(a) PROVE StoreInv'
    BY <1>1, <1>2, <1>3, <1>4, MakesStores, ResumeStores, StoreKept DEF dispatch_syscall
  <1>5. CASE UNCHANGED vars
    BY <1>5 DEF vars, StoreInv
  <1> QED BY <1>4, <1>5 DEF Next

\* What the kernel is given, call by call.
LEMMA AskedStep == MountsApart /\ LowestInv /\ TypeInv /\ StoreInv /\ AskedInv /\ [Next]_vars => AskedInv'
PROOF
  <1> SUFFICES ASSUME MountsApart, LowestInv, TypeInv, StoreInv, AskedInv, [Next]_vars PROVE AskedInv'
    OBVIOUS
  <1>1. ASSUME asked' = {} PROVE AskedInv'
    BY <1>1 DEF AskedInv
  <1>2. ASSUME NEW a, NEW S \in SUBSET Paths, PathCall(a, S) PROVE AskedInv'
    <2>1. \A pq \in asked' : \E p \in S : pq = <<p, translate_path(p)>>
      BY <1>2 DEF PathCall
    <2>2. ASSUME NEW pq \in asked' PROVE pq[1] \in Paths /\ pq[2] = translate_path(pq[1])
      <3>1. PICK p \in S : pq = <<p, translate_path(p)>>
        BY <2>1, <2>2
      <3> QED BY <3>1
    <2>3. \A pq \in asked' : pq[1] \in Paths /\ pq[2] = translate_path(pq[1])
      BY <2>2
    <2> QED BY <2>3 DEF AskedInv, translate_path, BindPath, Virtual, Mount, resolve
  <1>3. ASSUME NEW a \in Threads, handle_openat(a) PROVE AskedInv'
    <2>1. ASSUME NEW vp \in OpenedAs(a), NEW dir, dir = Entry(a, vp[1]), ~IsVirtual(dir, vp[2]), dir.kind # "pass"
          PROVE  FullPath(dir, vp[2]) \in Paths /\ HostTarget(dir, vp[2]) = translate_path(FullPath(dir, vp[2]))
      <3>1. ~Virtual(FullPath(dir, vp[2]))
        BY <2>1 DEF IsVirtual
      <3>2. dir.kind # "virt"
        <4>1. ASSUME dir.kind = "virt" PROVE FALSE
          <5>1. InStore(dir.desc) /\ vp[2] \in Seq(STRING)
            BY <2>1, <4>1, StoreTable, PathsAssumption DEF StoreEntry, OpenedAs
          <5>2. InStore(dir.desc \o vp[2])
            BY <5>1, BelowStored
          <5> QED BY <3>1, <4>1, <5>2, StoredIsVirtual DEF FullPath
        <4> QED BY <4>1
      <3>3. dir = NoEntry
        BY <2>1, <3>2, TypedTable DEF EntryOK
      <3>4. vp[2] \in Paths
        <4>1. ASSUME vp[1] \in DOMAIN Table(a).entries PROVE FALSE
          <5>1. Has(Table(a), vp[1])
            BY <4>1 DEF Has
          <5>2. EntryOK(Table(a).entries[vp[1]], ops) /\ dir = Table(a).entries[vp[1]]
            BY <2>1, <4>1, <5>1, TypedTable DEF EntriesOK, Entry
          <5> QED BY <3>3, <5>2 DEF EntryOK, NoEntry
        <4> QED BY <4>1 DEF OpenedAs
      <3> QED BY <3>3, <3>4 DEF FullPath, HostTarget, NoEntry
    <2>2. asked' = {} \/ \E vp \in OpenedAs(a) :
              LET dir == Entry(a, vp[1])
              IN ~IsVirtual(dir, vp[2]) /\ asked' = IF dir.kind = "pass" THEN {} ELSE {<<FullPath(dir, vp[2]), HostTarget(dir, vp[2])>>}
      BY <1>3 DEF handle_openat, AtOnce, Begin, Retable
    <2>3. asked' = {} \/ \E p \in Paths : asked' = {<<p, translate_path(p)>>}
      BY <2>1, <2>2
    <2>4. ASSUME NEW p \in Paths, asked' = {<<p, translate_path(p)>>} PROVE AskedInv'
      <3>1. \A pq \in asked' : pq[1] \in Paths /\ pq[2] = translate_path(pq[1])
        BY <2>4
      <3> QED BY <3>1 DEF AskedInv, translate_path, BindPath, Virtual, Mount, resolve
    <2> QED BY <1>1, <2>3, <2>4
  <1>4. ASSUME NEW a \in Threads, MakesDescriptors(a) PROVE AskedInv'
    <2>1. ASSUME NEW v, Forward(a, v) PROVE asked' = {}
      BY <2>1 DEF Forward, Untranslated, AtOnce, Begin
    <2> QED BY <1>1, <1>3, <1>4, <2>1
            DEF MakesDescriptors, handle_socket, handle_pipe2, handle_dup, handle_fcntl, handle_dup2, handle_dup3, handle_close,
                DupTo, DupUnknown, Translate, AtOnce, Begin, Retable
  <1>5. ASSUME NEW a \in Threads, UsesDescriptor(a) PROVE AskedInv'
    <2>1. ASSUME NEW v, Forward(a, v) PROVE asked' = {}
      BY <2>1 DEF Forward, Untranslated, AtOnce, Begin
    <2>2. ASSUME NEW v, NEW o, OnVirtual(a, v, o) PROVE asked' = {}
      BY <2>2 DEF OnVirtual, AtOnce, Begin
    <2>3. Translate(a) => asked' = {}
      BY <2>1 DEF Translate
    <2>4. handle_read(a) => asked' = {}
      BY <2>1, <2>2 DEF handle_read
    <2>5. handle_write(a) => asked' = {}
      BY <2>1, <2>2 DEF handle_write
    <2>6. handle_lseek(a) => asked' = {}
      BY <2>1, <2>2 DEF handle_lseek
    <2>7. handle_fstat(a) => asked' = {}
      BY <2>1, <2>2 DEF handle_fstat, AtOnce, Begin
    <2>8. handle_getdents64(a) => asked' = {}
      BY <2>1, <2>2 DEF handle_getdents64
    <2> QED BY <1>1, <1>5, <2>3, <2>4, <2>5, <2>6, <2>7, <2>8
            DEF UsesDescriptor, handle_ioctl, handle_pread64, handle_pwrite64, handle_mmap, handle_readv,
                handle_writev, handle_sendto, handle_connect, handle_getpeername, handle_pselect6, handle_poll
  <1>6. ASSUME NEW a \in Threads, NamesPath(a) PROVE AskedInv'
    <2>1. ASSUME NEW v, Forward(a, v) \/ Untranslated(a, v) PROVE asked' = {}
      BY <2>1 DEF Forward, Untranslated, AtOnce, Begin
    <2>2. ASSUME Answer(a) \/ \E d : StoredName(a, d) PROVE asked' = {}
      BY <2>2 DEF Answer, StoredName, AtOnce, Begin
    <2>3. OnePath(a) => AskedInv'
      BY <1>2 DEF OnePath
    <2>4. handle_rename(a) => AskedInv'
      BY <1>2 DEF handle_rename
    <2>5. AtCall(a) => AskedInv'
      BY <1>1, <2>1, <2>3 DEF AtCall
    <2>6. Reads(a) => AskedInv'
      BY <1>1, <1>2, <2>2 DEF Reads
    <2>7. ReadsAt(a) => AskedInv'
      BY <1>1, <2>1, <2>6 DEF ReadsAt
    <2>8. MakeSymlink(a) => AskedInv'
      BY <1>1, <1>2, <2>2 DEF MakeSymlink
    <2>9. handle_linkat(a) => AskedInv'
      BY <1>1, <1>2, <2>2 DEF handle_linkat
    <2> QED BY <1>6, <2>3, <2>4, <2>5, <2>6, <2>7, <2>8, <2>9
            DEF NamesPath, handle_access, handle_unlink, handle_chdir, handle_rmdir, handle_chmod, handle_statfs,
                handle_llistxattr, handle_lgetxattr, handle_faccessat, handle_faccessat2, handle_fchownat,
                handle_statx, handle_newfstatat, handle_readlink, handle_readlinkat, handle_symlink, handle_symlinkat
  <1>7. ASSUME NEW a \in Threads, MakesProcess(a) PROVE AskedInv'
    BY <1>1, <1>7 DEF MakesProcess, handle_fork, handle_vfork, handle_clone, handle_clone3, Spawn
  <1>8. ASSUME NEW a \in Threads, Resume(a) PROVE AskedInv'
    <2>1. asked' = {}
      BY <1>8 DEF Resume, open_result, allocate_fd, pipe_result, Duplicate, allocate_min_fd, close_old, install,
                  close_kernel_fd, inject, insert_fd_table, fsync, fsync_pwrite, fsync_truncate, KernelOpen, Goto, Give,
                  Abandon, Fail
    <2> QED BY <1>1, <2>1
  <1>9. ASSUME NEW a \in Threads, Exec(a) \/ Exit(a) \/ get_fd_table(a) PROVE AskedInv'
    BY <1>1, <1>9, LeavesSame DEF get_fd_table
  <1>10. CASE UNCHANGED vars
    BY <1>10 DEF vars, AskedInv, translate_path, BindPath, Virtual, Mount, resolve
  <1> QED BY <1>4, <1>5, <1>6, <1>7, <1>8, <1>9, <1>10 DEF Next, dispatch_syscall

\* Every call that translates its paths gives the kernel each of them in the host
\* directory of the deepest mount, or as it is if there is none or the SQLite mount
\* is not asked, in whatever order the mounts were given and nested (mount.rs:
\* "longest prefix"); an openat relative to a virtual directory never leaves it.
\* execve and execveat translate nothing.
THEOREM PathsGoDeepest == MountsApart => (Spec => []PathsTranslated)
PROOF
  <1> SUFFICES ASSUME MountsApart PROVE Spec => []PathsTranslated
    OBVIOUS
  <1>1. Init => StoreInv /\ AskedInv
    <2> SUFFICES ASSUME Init PROVE StoreInv /\ AskedInv
      OBVIOUS
    <2>1. tables = <<new_table(Std)>> /\ Len(tables) = 1 /\ tables[1].entries = Std
      BY DEF Init, new_table
    <2>2. StoreEntries(Std)
      BY DEF StoreEntries, StoreEntry, Std, Pass
    <2>3. \A n \in 1 .. Len(tables) : StoreEntries(tables[n].entries)
      BY <2>1, <2>2
    <2> QED BY <2>3, IdleStore DEF Init, StoreInv, AskedInv
  <1>2. AskedInv => PathsTranslated
    BY Translated DEF AskedInv, PathsTranslated
  <1>3. MountsApart /\ LowestInv /\ TypeInv /\ StoreInv /\ AskedInv /\ [Next]_vars => AskedInv'
    BY AskedStep
  <1>4. LowestInv /\ TypeInv /\ StoreInv /\ AskedInv /\ [Next]_vars => AskedInv'
    BY <1>3
  <1> QED BY <1>1, <1>2, <1>4, LowestInit, LowestStep, TypeInit, TypeStep, StoreStep, PTL DEF Spec

(***************************************************************************)
(* RightFile: while the guest keeps to what the tracer can follow, a guest *)
(* descriptor stands for the file it was opened on.  The argument follows  *)
(* every kernel descriptor that somebody relies on: an entry of the table  *)
(* or a call under way.  TypeOK and NothingLost follow: a virtual file not *)
(* yet written back is being flushed, or is still open somewhere.          *)
(***************************************************************************)

\* Kernel descriptors only the call knows of.
Keeps(c) == IF c.pc = "pipe" THEN {c.e.k, c.old.k}
            ELSE IF c.pc = "kclose" \/ (Makes(c) /\ c.e.kind = "pass") THEN {c.k} ELSE {}
EntryAt(T, v) == IF v \in DOMAIN T THEN T[v] ELSE NoEntry
Fits(e) == /\ ShapedEntry(e) /\ e.kind \in {"pass", "virt"}
           /\ e.kind = "pass" => e.k \in Fds /\ e.desc # Closed

\* What a call relies on, its process having entries T and kernel descriptors K.
CallOK(c, T, K) ==
    /\ c.pc = "idle" \/ (c.pc \in {"flush", "pwrite", "truncate"} /\ c.next # "install") => c.next = "idle"
    /\ Installing(c) => c.next \in {"closeold", "install"} /\ c.to \in Fds
    /\ Makes(c) => ShapedEntry(c.e) /\ c.e.kind \in {"pass", "virt"}
    /\ Makes(c) /\ c.e.kind = "pass" => c.k \in Fds /\ K[c.k] = c.e.desc /\ c.e.desc # Closed
    /\ c.pc \in {"alloc", "allocmin"} => c.e.kind = "pass"
    /\ c.pc = "pipe" => /\ Fits(c.e) /\ c.e.kind = "pass" /\ K[c.e.k] = c.e.desc
                        /\ Fits(c.old) /\ c.old.kind = "pass" /\ K[c.old.k] = c.old.desc
                        /\ c.e.k # c.old.k
    /\ c.pc = "kclose" => c.k \in Fds /\ K[c.k] # Closed
    /\ c.pc \in {"fwd", "dup"} => c.fd \in DOMAIN T /\ T[c.fd] = c.e /\ c.e.kind = "pass"
    /\ c.pc = "dup" => c.next \in {"alloc", "allocmin", "closeold"}
    /\ Installing(c) \/ (c.pc = "dup" /\ c.next = "closeold") => c.to \in Fds /\ c.old = EntryAt(T, c.to)

\* Entries for kernel descriptors, but for one that dup2 is replacing.
Firm(T, C, A) == {v \in DOMAIN T : /\ T[v].kind = "pass"
                                   /\ \A a \in A : C[a].pc = "install" => C[a].to # v}

\* Everybody on one table finds the files they rely on, and no two rely on the
\* same kernel descriptor.
Right(T, K, C, A) ==
    /\ \A v \in DOMAIN T : v \in Fds /\ Fits(T[v])
    /\ \A v \in Firm(T, C, A) : K[T[v].k] = T[v].desc
    /\ \A v, w \in Firm(T, C, A) : T[v].k = T[w].k => v = w
    /\ \A a \in A : CallOK(C[a], T, K)
    /\ \A a \in A : \A v \in Firm(T, C, A) : T[v].k \notin Keeps(C[a])
    /\ \A a, b \in A : a # b => Keeps(C[a]) \cap Keeps(C[b]) = {}
    /\ \A a, b \in A : a # b => Touches(C[a]) \cap Replaces(C[b]) = {}

On(n) == {a \in Threads : ProcOf[a] \in known /\ tableOf[ProcOf[a]] = n}

KernelInv ==
    /\ IsSeq(files) /\ filesOf \in [Procs -> 1 .. Len(files)]
    /\ \A n \in 1 .. Len(files) : files[n] = [k \in Fds |-> files[n][k]]
    /\ life \in [Procs -> {"none", "running", "execed", "exited"}]
    /\ \A p \in Procs \ {First, Child} : life[p] = "none"
    /\ First \in known /\ known \subseteq {First, Child}
    /\ \A a \in Threads : ProcOf[a] \notin known => call[a] = Idle

\* Calls are those of living processes, on the table their process has.
CallsHere == \A a \in Threads : call[a].t = 0 /\ (call[a].pc # "idle" => ProcOf[a] \in Living)

\* The entries of a table with the kernel descriptors they are for.
Mirrors(T, K) ==
    LET P == {v \in DOMAIN T : T[v].kind = "pass"}
    IN (\A v \in P : K[T[v].k] = T[v].desc) /\ (\A v, w \in P : T[v].k = T[w].k => v = w)

\* A fork under way: the kernel has forked, the table is still to be copied.
ForkInv ==
    /\ \A p \in known : filesOf[p] = tableOf[p]
    /\ Len(tables) <= Len(files)
    /\ Child \notin known => tableOf[Child] = tableOf[First]
    /\ life[Child] = "none" => Len(files) = Len(tables) /\ Child \notin known
    /\ life[Child] # "none" /\ Child \notin known => \E a \in Threads : call[a].pc = "inherit"
    /\ \A a, b \in Threads : call[a].pc = "inherit" /\ call[b].pc = "inherit" => a = b
    /\ \A a \in Threads : call[a].pc = "inherit" =>
          /\ ProcOf[a] = First /\ Child \notin known /\ life[Child] # "none"
          /\ call[a].next = "share" => filesOf[Child] = filesOf[First] /\ Len(files) = Len(tables)
          /\ call[a].next # "share" =>
               /\ Len(files) = Len(tables) + 1 /\ filesOf[Child] = Len(files)
               /\ Mirrors(tables[tableOf[First]].entries, files[filesOf[Child]])

FilesInv == \A n \in 1 .. Len(tables) : Right(tables[n].entries, files[n], call, On(n))

RightInv == LowestInv /\ KernelInv /\ (~rude => CallsHere /\ ForkInv /\ FilesInv)

-----------------------------------------------------------------------------
(* One table with its kernel descriptors: a step of thread a.              *)

LEMMA KeepsOpen ==
    ASSUME NEW c, NEW T, NEW K, CallOK(c, T, K)
    PROVE  \A k \in Keeps(c) : k \in Fds /\ K[k] # Closed
PROOF
  <1>1. CASE c.pc = "pipe"
    BY <1>1 DEF CallOK, Keeps, Fits
  <1>2. CASE c.pc # "pipe"
    BY <1>2 DEF CallOK, Keeps
  <1> QED BY <1>1, <1>2

\* Call c of thread a does not meet the others.
Avoids(a, c, C, A) ==
    \A b \in A : b # a => Touches(c) \cap Replaces(C[b]) = {} /\ Touches(C[b]) \cap Replaces(c) = {}

\* A call is not disturbed by what happens to other kernel descriptors ...
LEMMA OtherKernel ==
    ASSUME NEW c, NEW T, NEW K, NEW L, CallOK(c, T, K), \A k \in Keeps(c) : L[k] = K[k]
    PROVE  CallOK(c, T, L)
PROOF
  <1>1. CASE c.pc = "pipe"
    <2>1. Keeps(c) = {c.e.k, c.old.k} /\ ~Makes(c)
      BY <1>1 DEF Keeps, Makes, Installing
    <2> QED BY <1>1, <2>1 DEF CallOK
  <1>2. CASE c.pc # "pipe"
    <2>1. Makes(c) /\ c.e.kind = "pass" => Keeps(c) = {c.k}
      BY <1>2 DEF Keeps
    <2>2. c.pc = "kclose" => Keeps(c) = {c.k}
      BY <1>2 DEF Keeps
    <2> QED BY <1>2, <2>1, <2>2 DEF CallOK
  <1> QED BY <1>1, <1>2

\* ... or to entries it does not rely on.
LEMMA OtherEntry ==
    ASSUME NEW c, NEW T, NEW U, NEW K, NEW w, CallOK(c, T, K), w \notin Touches(c),
           \A v \in DOMAIN T : v \in Fds,
           \A v : v # w => (v \in DOMAIN U <=> v \in DOMAIN T) /\ (v \in DOMAIN T => U[v] = T[v])
    PROVE  CallOK(c, U, K)
PROOF
  <1>1. ASSUME c.pc \in {"fwd", "dup"} PROVE c.fd \in DOMAIN U /\ U[c.fd] = c.e
    <2>1. c.fd \in DOMAIN T /\ T[c.fd] = c.e
      BY <1>1 DEF CallOK
    <2>2. c.fd # w
      BY <1>1 DEF Touches
    <2> QED BY <2>1, <2>2
  <1>2. ASSUME Installing(c) \/ (c.pc = "dup" /\ c.next = "closeold")
        PROVE  EntryAt(U, c.to) = EntryAt(T, c.to)
    <2>1. c.next \in {"closeold", "install"}
      BY <1>2 DEF CallOK
    <2>2. c.to # w
      BY <2>1 DEF Touches, Replaces
    <2> QED BY <2>2 DEF EntryAt
  <1> QED BY <1>1, <1>2 DEF CallOK

\* The call changes, and kernel descriptors nobody else relies on.
LEMMA KernelStep ==
    ASSUME NEW T, NEW K, NEW L, NEW C, NEW D, NEW A, NEW a \in A,
           Right(T, K, C, A),
           \A b \in A : b # a => D[b] = C[b],
           C[a].pc = "install" => D[a].pc = "install" /\ D[a].to = C[a].to,
           CallOK(D[a], T, L),
           \A b \in A : b # a => \A k \in Keeps(C[b]) : L[k] = K[k] /\ k \notin Keeps(D[a]),
           \A v \in Firm(T, D, A) : L[T[v].k] = K[T[v].k] /\ T[v].k \notin Keeps(D[a]),
           Avoids(a, D[a], C, A)
    PROVE  Right(T, L, D, A)
PROOF
  <1>1. Firm(T, D, A) \subseteq Firm(T, C, A)
    BY DEF Firm
  <1>2. \A v \in DOMAIN T : v \in Fds /\ Fits(T[v])
    BY DEF Right
  <1>3. \A v \in Firm(T, D, A) : L[T[v].k] = T[v].desc
    BY <1>1 DEF Right
  <1>4. \A v, w \in Firm(T, D, A) : T[v].k = T[w].k => v = w
    BY <1>1 DEF Right
  <1>5. ASSUME NEW b \in A PROVE CallOK(D[b], T, L)
    <2>1. CASE b = a
      BY <2>1
    <2>2. CASE b # a
      <3>1. CallOK(C[b], T, K) /\ D[b] = C[b] /\ \A k \in Keeps(C[b]) : L[k] = K[k]
        BY <2>2 DEF Right
      <3> QED BY <3>1, OtherKernel
    <2> QED BY <2>1, <2>2
  <1>6. ASSUME NEW b \in A, NEW v \in Firm(T, D, A) PROVE T[v].k \notin Keeps(D[b])
    BY <1>1 DEF Right
  <1>7. ASSUME NEW b \in A, NEW e \in A, b # e PROVE Keeps(D[b]) \cap Keeps(D[e]) = {}
    <2>1. \A x, y \in A : x # y => Keeps(C[x]) \cap Keeps(C[y]) = {}
      BY DEF Right
    <2>2. CASE b = a
      BY <1>7, <2>2
    <2>3. CASE e = a
      BY <1>7, <2>3
    <2>4. CASE b # a /\ e # a
      BY <1>7, <2>1, <2>4
    <2> QED BY <2>2, <2>3, <2>4
  <1>8. ASSUME NEW b \in A, NEW e \in A, b # e PROVE Touches(D[b]) \cap Replaces(D[e]) = {}
    <2>1. \A x, y \in A : x # y => Touches(C[x]) \cap Replaces(C[y]) = {}
      BY DEF Right
    <2>2. CASE b = a
      BY <1>8, <2>2 DEF Avoids
    <2>3. CASE e = a
      BY <1>8, <2>3 DEF Avoids
    <2>4. CASE b # a /\ e # a
      BY <1>8, <2>1, <2>4
    <2> QED BY <2>2, <2>3, <2>4
  <1> QED BY <1>2, <1>3, <1>4, <1>5, <1>6, <1>7, <1>8 DEF Right

\* The call changes, and the kernel may open descriptors that were closed.
LEMMA Opens ==
    ASSUME NEW T, NEW K, NEW L, NEW C, NEW D, NEW A, NEW a \in A,
           Right(T, K, C, A),
           \A b \in A : b # a => D[b] = C[b],
           C[a].pc = "install" => D[a].pc = "install" /\ D[a].to = C[a].to,
           CallOK(D[a], T, L),
           \A k \in Fds : K[k] # Closed => L[k] = K[k],
           \A k \in Keeps(D[a]) : k \in Keeps(C[a]) \/ K[k] = Closed,
           Avoids(a, D[a], C, A)
    PROVE  Right(T, L, D, A)
PROOF
  <1>1. Firm(T, D, A) \subseteq Firm(T, C, A)
    BY DEF Firm
  <1>2. ASSUME NEW b \in A, b # a, NEW k \in Keeps(C[b]) PROVE L[k] = K[k] /\ k \notin Keeps(D[a])
    <2>1. k \in Fds /\ K[k] # Closed
      BY KeepsOpen DEF Right
    <2>2. k \notin Keeps(C[a])
      BY <1>2 DEF Right
    <2> QED BY <2>1, <2>2
  <1>3. ASSUME NEW v \in Firm(T, D, A) PROVE L[T[v].k] = K[T[v].k] /\ T[v].k \notin Keeps(D[a])
    <2>1. v \in Firm(T, C, A) /\ v \in DOMAIN T /\ T[v].kind = "pass"
      BY <1>1 DEF Firm
    <2>2. T[v].k \in Fds /\ T[v].desc # Closed /\ K[T[v].k] = T[v].desc /\ T[v].k \notin Keeps(C[a])
      BY <2>1 DEF Right, Fits
    <2> QED BY <2>2
  <1> QED BY <1>2, <1>3, KernelStep

\* One entry of the table is set or removed, and the call changes.
LEMMA TableStep ==
    ASSUME NEW T, NEW U, NEW K, NEW C, NEW D, NEW A, NEW a \in A, NEW w,
           Right(T, K, C, A),
           \A b \in A : b # a => D[b] = C[b],
           \A v : v # w => (v \in DOMAIN U <=> v \in DOMAIN T) /\ (v \in DOMAIN T => U[v] = T[v]),
           C[a].pc = "install" => C[a].to = w, D[a].pc # "install",
           \A b \in A : b # a => w \notin Touches(C[b]),
           w \in DOMAIN U => w \in Fds /\ Fits(U[w]),
           w \in DOMAIN U /\ U[w].kind = "pass" =>
               U[w].k \in Keeps(C[a]) /\ K[U[w].k] = U[w].desc /\ U[w].k \notin Keeps(D[a]),
           \A k \in Keeps(D[a]) : \/ k \in Keeps(C[a])
                                  \/ w \in Firm(T, C, A) /\ T[w].k = k /\ w \notin DOMAIN U,
           CallOK(D[a], U, K),
           Avoids(a, D[a], C, A)
    PROVE  Right(U, K, D, A)
PROOF
  <1>1. ASSUME NEW v \in Firm(U, D, A), v # w
        PROVE  v \in Firm(T, C, A) /\ U[v] = T[v] /\ T[v].k \notin Keeps(D[a])
    <2>1. v \in DOMAIN T /\ U[v] = T[v] /\ T[v].kind = "pass"
      BY <1>1 DEF Firm
    <2>2. ASSUME NEW b \in A, C[b].pc = "install" PROVE C[b].to # v
      BY <1>1, <2>2 DEF Firm
    <2>3. v \in Firm(T, C, A)
      BY <2>1, <2>2 DEF Firm
    <2>4. T[v].k \notin Keeps(C[a])
      BY <2>3 DEF Right
    <2>5. w \in Firm(T, C, A) => T[w].k # T[v].k
      BY <1>1, <2>3 DEF Right
    <2> QED BY <2>1, <2>3, <2>4, <2>5
  <1>2. ASSUME w \in Firm(U, D, A)
        PROVE  U[w].k \in Keeps(C[a]) /\ K[U[w].k] = U[w].desc /\ U[w].k \notin Keeps(D[a])
    BY <1>2 DEF Firm
  <1>3. \A v \in DOMAIN U : v \in Fds /\ Fits(U[v])
    BY DEF Right
  <1>4. \A v \in Firm(U, D, A) : K[U[v].k] = U[v].desc
    BY <1>1, <1>2 DEF Right
  <1>5. ASSUME NEW v \in Firm(U, D, A), NEW x \in Firm(U, D, A), U[v].k = U[x].k PROVE v = x
    <2>1. \A y \in Firm(T, C, A) : T[y].k \notin Keeps(C[a])
      BY DEF Right
    <2>2. CASE v # w /\ x # w
      BY <1>1, <1>5, <2>2 DEF Right
    <2>3. CASE v = w /\ x # w
      BY <1>1, <1>2, <1>5, <2>1, <2>3
    <2>4. CASE v # w /\ x = w
      BY <1>1, <1>2, <1>5, <2>1, <2>4
    <2> QED BY <2>2, <2>3, <2>4
  <1>6. ASSUME NEW b \in A PROVE CallOK(D[b], U, K)
    <2>1. CASE b = a
      BY <2>1
    <2>2. CASE b # a
      <3>1. CallOK(C[b], T, K) /\ D[b] = C[b] /\ w \notin Touches(C[b]) /\ \A v \in DOMAIN T : v \in Fds
        BY <2>2 DEF Right
      <3>2. CallOK(C[b], U, K)
        BY <3>1, OtherEntry
      <3> QED BY <3>1, <3>2
    <2> QED BY <2>1, <2>2
  <1>7. ASSUME NEW b \in A, b # a, NEW k \in Keeps(C[b]) PROVE k \notin Keeps(D[a])
    <2>1. k \notin Keeps(C[a])
      BY <1>7 DEF Right
    <2>2. w \in Firm(T, C, A) => T[w].k # k
      BY DEF Right
    <2> QED BY <2>1, <2>2
  <1>8. ASSUME NEW b \in A, NEW v \in Firm(U, D, A) PROVE U[v].k \notin Keeps(D[b])
    <2>1. CASE b = a
      BY <1>1, <1>2, <2>1
    <2>2. CASE b # a
      <3>1. \A k \in Keeps(C[a]) : k \notin Keeps(C[b])
        BY <2>2 DEF Right
      <3>2. \A y \in Firm(T, C, A) : T[y].k \notin Keeps(C[b])
        BY DEF Right
      <3> QED BY <1>1, <1>2, <2>2, <3>1, <3>2
    <2> QED BY <2>1, <2>2
  <1>9. ASSUME NEW b \in A, NEW e \in A, b # e PROVE Keeps(D[b]) \cap Keeps(D[e]) = {}
    <2>1. \A x, y \in A : x # y => Keeps(C[x]) \cap Keeps(C[y]) = {}
      BY DEF Right
    <2>2. CASE b = a
      BY <1>7, <1>9, <2>2
    <2>3. CASE e = a
      BY <1>7, <1>9, <2>3
    <2>4. CASE b # a /\ e # a
      BY <1>9, <2>1, <2>4
    <2> QED BY <2>2, <2>3, <2>4
  <1>10. ASSUME NEW b \in A, NEW e \in A, b # e PROVE Touches(D[b]) \cap Replaces(D[e]) = {}
    <2>1. \A x, y \in A : x # y => Touches(C[x]) \cap Replaces(C[y]) = {}
      BY DEF Right
    <2>2. CASE b = a
      BY <1>10, <2>2 DEF Avoids
    <2>3. CASE e = a
      BY <1>10, <2>3 DEF Avoids
    <2>4. CASE b # a /\ e # a
      BY <1>10, <2>1, <2>4
    <2> QED BY <2>2, <2>3, <2>4
  <1> QED BY <1>3, <1>4, <1>5, <1>6, <1>8, <1>9, <1>10 DEF Right

-----------------------------------------------------------------------------
(* A step of thread a, seen from its table.                                *)

Mates(a) == On(tableOf[ProcOf[a]])
RightHere(a) == Right(Table(a).entries, Kernel(a), call, Mates(a))

\* What thread a's call may become.
Next_OK(a, c) == c.pc # "inherit" /\ c.t = 0 /\ (c.pc # "idle" => ProcOf[a] \in Living)

\* Thread a's call becomes c.  Unless the guest is rude, no other call on the table
\* is to replace one of the descriptors S, or touches one of W.
Turn(a, c, S, W) ==
    /\ ProcOf[a] \in known /\ call[a].pc # "inherit" /\ call' = [call EXCEPT ![a] = c]
    /\ ~rude' => /\ ~rude /\ Next_OK(a, c)
                 /\ \A b \in Mates(a) : b # a => Replaces(call[b]) \cap S = {} /\ Touches(call[b]) \cap W = {}
Covers(c, S, W) == Touches(c) \subseteq S \cup W /\ Replaces(c) \subseteq W

\* What a step leaves of the table, the kernel's descriptors and the call.
Outcome(a) ==
    \E t, L, c :
       /\ ProcOf[a] \in known /\ call[a].pc # "inherit" /\ call' = [call EXCEPT ![a] = c]
       /\ UNCHANGED World /\ SetTable(a, t) /\ SetKernel(a, L) /\ L = [k \in Fds |-> L[k]]
       /\ ~rude' => /\ ~rude /\ Next_OK(a, c) /\ (t = Table(a) \/ ~Copying(a))
                    /\ Right(t.entries, L, [call EXCEPT ![a] = c], Mates(a))

LEMMA TurnAvoids ==
    ASSUME NEW a, NEW c, NEW S, NEW W, Turn(a, c, S, W), ~rude', Covers(c, S, W)
    PROVE  Avoids(a, c, call, Mates(a))
PROOF
  <1> SUFFICES ASSUME NEW b \in Mates(a), b # a
               PROVE  Touches(c) \cap Replaces(call[b]) = {} /\ Touches(call[b]) \cap Replaces(c) = {}
    BY DEF Avoids
  <1>1. Replaces(call[b]) \cap S = {} /\ Touches(call[b]) \cap W = {}
    BY DEF Turn
  <1>2. Replaces(call[b]) \subseteq Touches(call[b])
    BY DEF Touches
  <1> QED BY <1>1, <1>2 DEF Covers

LEMMA Same ==
    ASSUME LowestInv, KernelInv, NEW a \in Threads
    PROVE  /\ SetTable(a, Table(a)) <=> tables' = tables
           /\ SetKernel(a, Kernel(a)) <=> files' = files
           /\ Kernel(a) = [k \in Fds |-> Kernel(a)[k]]
           /\ Good(Table(a))
PROOF
  <1>1. ASSUME NEW s, IsSeq(s), NEW i \in 1 .. Len(s) PROVE s = [s EXCEPT ![i] = s[i]]
    BY <1>1 DEF IsSeq
  <1>2. ProcOf[a] \in Procs
    BY SandboxAssumption
  <1>3. IsSeq(tables) /\ Ix(a) \in 1 .. Len(tables) /\ Good(Table(a)) /\ Table(a) = tables[Ix(a)]
    BY TableIn DEF LowestInv, TablesInv
  <1>4. IsSeq(files) /\ filesOf[ProcOf[a]] \in 1 .. Len(files) /\ Kernel(a) = [k \in Fds |-> Kernel(a)[k]]
    BY <1>2 DEF KernelInv, Kernel
  <1>5. tables = [tables EXCEPT ![Ix(a)] = Table(a)]
    BY <1>1, <1>3
  <1>6. files = [files EXCEPT ![filesOf[ProcOf[a]]] = Kernel(a)]
    BY <1>1, <1>4 DEF Kernel
  <1> QED BY <1>3, <1>4, <1>5, <1>6 DEF SetTable, SetKernel

LEMMA Here ==
    ASSUME RightInv, ~rude, NEW a \in Threads, ProcOf[a] \in known
    PROVE  /\ a \in Mates(a) /\ RightHere(a) /\ ForkInv /\ CallsHere
           /\ Ix(a) = tableOf[ProcOf[a]] /\ filesOf[ProcOf[a]] = tableOf[ProcOf[a]]
PROOF
  <1>1. ForkInv /\ CallsHere /\ FilesInv
    BY DEF RightInv
  <1>2. ProcOf[a] \in Procs /\ tableOf[ProcOf[a]] \in 1 .. Len(tables) /\ filesOf[ProcOf[a]] = tableOf[ProcOf[a]]
    BY <1>1, SandboxAssumption DEF RightInv, LowestInv, TablesInv, ForkInv
  <1>3. Ix(a) = tableOf[ProcOf[a]]
    BY <1>1 DEF Ix, CallsHere
  <1>4. RightHere(a)
    BY <1>1, <1>2, <1>3 DEF FilesInv, RightHere, Mates, Table, Kernel
  <1> QED BY <1>1, <1>2, <1>3, <1>4 DEF Mates, On

\* A call of another thread that is not under way touches nothing.
LEMMA Untouched ==
    ASSUME RightInv, ~rude, NEW a \in Threads, ProcOf[a] \in known, NEW S, NEW W, ~Clash(a, S, W)
    PROVE  \A b \in Mates(a) : b # a => Replaces(call[b]) \cap S = {} /\ Touches(call[b]) \cap W = {}
PROOF
  <1> SUFFICES ASSUME NEW b \in Mates(a), b # a
               PROVE  Replaces(call[b]) \cap S = {} /\ Touches(call[b]) \cap W = {}
    OBVIOUS
  <1>1. CallOK(call[b], Table(a).entries, Kernel(a)) /\ b \in Threads
    BY Here DEF RightHere, Right, Mates, On
  <1>2. CASE call[b].pc = "idle"
    <2>1. call[b].next = "idle"
      BY <1>1, <1>2 DEF CallOK
    <2> QED BY <1>2, <2>1 DEF Touches, Replaces
  <1>3. CASE call[b].pc # "idle"
    <2>1. b \in Others(a)
      BY <1>1, <1>3 DEF Others, Mates, On
    <2> QED BY <2>1 DEF Clash
  <1> QED BY <1>2, <1>3

\* A call begins: what it uses or changes, no other call will replace or touches.
LEMMA BeginTurn ==
    ASSUME RightInv, NEW a \in Threads, Ready(a), NEW c, NEW S, NEW W, call' = [call EXCEPT ![a] = c],
           c.pc # "inherit", c.t = 0, ~rude' => ~rude /\ ~Clash(a, S, W)
    PROVE  Turn(a, c, S, W)
BY Untouched DEF Turn, Next_OK, Ready, CanCall

LEMMA BeginsTurn ==
    ASSUME RightInv, NEW a \in Threads, NEW c, NEW used, NEW made, Begin(a, c, used, made), c.pc # "inherit", c.t = 0
    PROVE  Turn(a, c, used, made) /\ call[a].pc = "idle"
PROOF
  <1>1. Ready(a) /\ call' = [call EXCEPT ![a] = c] /\ (~rude' => ~rude /\ ~Clash(a, used, made))
    BY DEF Begin, Start
  <1> QED BY <1>1, BeginTurn DEF Ready, CanCall

LEMMA RetableTurn ==
    ASSUME RightInv, NEW a \in Threads, NEW c, NEW used, NEW v, NEW t, Retable(a, c, used, v, t), c.pc # "inherit", c.t = 0
    PROVE  /\ Turn(a, c, used, {v}) /\ call[a].pc = "idle" /\ SetTable(a, t) /\ (~rude' => ~Copying(a))
PROOF
  <1>1. /\ Ready(a) /\ call' = [call EXCEPT ![a] = c] /\ SetTable(a, t)
        /\ ~rude' => ~rude /\ ~Clash(a, used, {v}) /\ ~Copying(a)
    BY DEF Retable, Start
  <1> QED BY <1>1, BeginTurn DEF Ready, CanCall

\* What is known of a call that goes on.
LEMMA Underway ==
    ASSUME RightInv, NEW a \in Threads, call[a].pc \notin {"idle", "inherit"}
    PROVE  /\ ProcOf[a] \in known /\ Sound(call[a])
           /\ ~rude => /\ a \in Mates(a) /\ RightHere(a) /\ ProcOf[a] \in Living /\ call[a].t = 0
                       /\ CallOK(call[a], Table(a).entries, Kernel(a))
PROOF
  <1>1. ProcOf[a] \in known
    BY IdleSound DEF RightInv, KernelInv
  <1>2. Sound(call[a])
    BY DEF RightInv, LowestInv, CallsInv
  <1>3. ASSUME ~rude
        PROVE  /\ a \in Mates(a) /\ RightHere(a) /\ ProcOf[a] \in Living /\ call[a].t = 0
               /\ CallOK(call[a], Table(a).entries, Kernel(a))
    <2>1. a \in Mates(a) /\ RightHere(a) /\ CallsHere
      BY <1>1, <1>3, Here
    <2> QED BY <2>1 DEF RightHere, Right, CallsHere
  <1> QED BY <1>1, <1>2, <1>3

\* A call goes on: no other one will replace what it touches.
LEMMA GotoTurn ==
    ASSUME RightInv, NEW a \in Threads, call[a].pc \notin {"idle", "inherit"},
           NEW c, ~rude => c.pc # "inherit", c.t \in {0, call[a].t}, call' = [call EXCEPT ![a] = c], ~rude' => ~rude
    PROVE  Turn(a, c, Touches(call[a]), Replaces(call[a]))
PROOF
  <1>1. ProcOf[a] \in known
    BY Underway
  <1>2. ASSUME ~rude'
        PROVE  /\ ~rude /\ Next_OK(a, c)
               /\ \A b \in Mates(a) : b # a => /\ Replaces(call[b]) \cap Touches(call[a]) = {}
                                               /\ Touches(call[b]) \cap Replaces(call[a]) = {}
    <2>1. ~rude /\ a \in Mates(a) /\ RightHere(a) /\ ProcOf[a] \in Living /\ call[a].t = 0
      BY <1>2, Underway
    <2> QED BY <2>1 DEF RightHere, Right, Next_OK
  <1> QED BY <1>1, <1>2 DEF Turn

LEMMA GiveTurn ==
    ASSUME RightInv, NEW a \in Threads, call[a].pc \notin {"idle", "inherit"}, NEW t, Give(a, t)
    PROVE  /\ Turn(a, Idle, {}, DOMAIN t.entries \ DOMAIN Table(a).entries)
           /\ SetTable(a, t) /\ (~rude' => ~Copying(a))
PROOF
  <1> DEFINE W == DOMAIN t.entries \ DOMAIN Table(a).entries
  <1>1. /\ call' = [call EXCEPT ![a] = Idle] /\ SetTable(a, t)
        /\ ~rude' => ~rude /\ ~Clash(a, {}, W) /\ ~Copying(a)
    BY DEF Give
  <1> HIDE DEF W
  <1>2. Turn(a, Idle, {}, W)
    <2>1. ProcOf[a] \in known
      BY Underway
    <2> QED BY <1>1, <2>1, Untouched, IdleSound DEF Turn, Next_OK
  <1> QED BY <1>1, <1>2 DEF W

\* The step changes the call, and may open kernel descriptors.
LEMMA Opening ==
    ASSUME RightInv, NEW a \in Threads, NEW c, NEW S, NEW W, Turn(a, c, S, W),
           NEW L, L = [k \in Fds |-> L[k]], UNCHANGED <<World, tables>>, SetKernel(a, L),
           ~rude /\ ~rude' /\ RightHere(a) =>
              /\ Covers(c, S, W)
              /\ CallOK(c, Table(a).entries, L)
              /\ call[a].pc = "install" => c.pc = "install" /\ c.to = call[a].to
              /\ \A k \in Fds : Kernel(a)[k] # Closed => L[k] = Kernel(a)[k]
              /\ \A k \in Keeps(c) : k \in Keeps(call[a]) \/ Kernel(a)[k] = Closed
    PROVE  Outcome(a)
PROOF
  <1> DEFINE D == [call EXCEPT ![a] = c]
  <1>1. SetTable(a, Table(a))
    BY Same DEF RightInv
  <1>2. ASSUME ~rude' PROVE Right(Table(a).entries, L, D, Mates(a))
    <2>1. ~rude /\ RightHere(a) /\ a \in Mates(a)
      BY <1>2, Here DEF Turn
    <2>2. Mates(a) \subseteq Threads /\ call = [x \in Threads |-> call[x]]
      BY DEF Mates, On, RightInv, LowestInv, CallsInv
    <2>3. D[a] = c /\ \A b \in Mates(a) : b # a => D[b] = call[b]
      BY <2>2
    <2>4. Avoids(a, D[a], call, Mates(a))
      BY <1>2, <2>1, <2>3, TurnAvoids
    <2> HIDE DEF D
    <2>5. Right(Table(a).entries, Kernel(a), call, Mates(a))
      BY <2>1 DEF RightHere
    <2> QED BY <1>2, <2>1, <2>3, <2>4, <2>5, Opens
  <1> QED BY <1>1, <1>2 DEF Turn, Outcome

\* Nothing but the call changes.
LEMMA Changing1 ==
    ASSUME RightInv, NEW a \in Threads, NEW c, NEW S, NEW W, Turn(a, c, S, W),
           UNCHANGED <<World, tables, files>>,
           ~rude /\ ~rude' /\ RightHere(a) =>
              /\ Covers(c, S, W)
              /\ CallOK(c, Table(a).entries, Kernel(a))
              /\ call[a].pc = "install" => c.pc = "install" /\ c.to = call[a].to
              /\ Keeps(c) \subseteq Keeps(call[a])
    PROVE  Outcome(a)
PROOF
  <1>1. SetKernel(a, Kernel(a)) /\ Kernel(a) = [k \in Fds |-> Kernel(a)[k]]
    BY Same DEF RightInv
  <1> QED BY <1>1, Opening

\* The step sets or removes entry w of the table.
LEMMA Tabling ==
    ASSUME RightInv, NEW a \in Threads, NEW c, NEW S, NEW W, Turn(a, c, S, W),
           NEW w, NEW t, SetTable(a, t), UNCHANGED <<World, files>>, c.pc # "install", ~rude' => ~Copying(a),
           ~rude /\ ~rude' /\ RightHere(a) =>
              /\ Covers(c, S, W) /\ w \in W
              /\ CallOK(c, t.entries, Kernel(a))
              /\ call[a].pc = "install" => call[a].to = w
              /\ \A v : v # w => /\ v \in DOMAIN t.entries <=> v \in DOMAIN Table(a).entries
                                 /\ v \in DOMAIN Table(a).entries => t.entries[v] = Table(a).entries[v]
              /\ w \in DOMAIN t.entries => w \in Fds /\ Fits(t.entries[w])
              /\ w \in DOMAIN t.entries /\ t.entries[w].kind = "pass" =>
                    /\ t.entries[w].k \in Keeps(call[a]) /\ Kernel(a)[t.entries[w].k] = t.entries[w].desc
                    /\ t.entries[w].k \notin Keeps(c)
              /\ \A k \in Keeps(c) : \/ k \in Keeps(call[a])
                                     \/ /\ w \in Firm(Table(a).entries, call, Mates(a))
                                        /\ Table(a).entries[w].k = k /\ w \notin DOMAIN t.entries
    PROVE  Outcome(a)
PROOF
  <1> DEFINE D == [call EXCEPT ![a] = c]
  <1>1. SetKernel(a, Kernel(a)) /\ Kernel(a) = [k \in Fds |-> Kernel(a)[k]]
    BY Same DEF RightInv
  <1>2. ASSUME ~rude' PROVE Right(t.entries, Kernel(a), D, Mates(a))
    <2>1. ~rude /\ RightHere(a) /\ a \in Mates(a)
      BY <1>2, Here DEF Turn
    <2>2. Mates(a) \subseteq Threads /\ call = [x \in Threads |-> call[x]]
      BY DEF Mates, On, RightInv, LowestInv, CallsInv
    <2>3. D[a] = c /\ \A b \in Mates(a) : b # a => D[b] = call[b]
      BY <2>2
    <2>4. Avoids(a, D[a], call, Mates(a))
      BY <1>2, <2>1, <2>3, TurnAvoids
    <2>5. \A b \in Mates(a) : b # a => w \notin Touches(call[b])
      BY <1>2, <2>1 DEF Turn
    <2> HIDE DEF D
    <2>6. Right(Table(a).entries, Kernel(a), call, Mates(a))
      BY <2>1 DEF RightHere
    <2> QED BY <1>2, <2>1, <2>3, <2>4, <2>5, <2>6, TableStep
  <1> QED BY <1>1, <1>2 DEF Turn, Outcome

\* Calls on other tables are not disturbed.
LEMMA OtherTable ==
    ASSUME NEW T, NEW K, NEW C, NEW D, NEW A, Right(T, K, C, A), \A b \in A : D[b] = C[b]
    PROVE  Right(T, K, D, A)
PROOF
  <1>1. Firm(T, D, A) = Firm(T, C, A)
    BY DEF Firm
  <1> QED BY <1>1 DEF Right

\* Sequences with one element replaced.
Replace(s, i, x) == [s EXCEPT ![i] = x]

LEMMA Replaced ==
    ASSUME NEW s, IsSeq(s), NEW i \in 1 .. Len(s), NEW x
    PROVE  /\ IsSeq(Replace(s, i, x)) /\ Len(Replace(s, i, x)) = Len(s) /\ Len(s) \in Nat
           /\ \A m \in 1 .. Len(s) : Replace(s, i, x)[m] = IF m = i THEN x ELSE s[m]
PROOF
  <1> DEFINE r == Replace(s, i, x)
  <1>1. PICK S : s \in Seq(S)
    BY DEF IsSeq
  <1>2. s \in Seq(S \cup {x}) /\ Len(s) \in Nat /\ DOMAIN s = 1 .. Len(s)
    BY <1>1
  <1>3. r \in Seq(S \cup {x}) /\ Len(r) = Len(s)
    BY <1>2 DEF Replace
  <1>4. \A m \in 1 .. Len(s) : r[m] = IF m = i THEN x ELSE s[m]
    BY <1>2 DEF Replace
  <1> QED BY <1>2, <1>3, <1>4 DEF IsSeq

\* The kernel descriptors of a process are replaced.
LEMMA KernelSet ==
    ASSUME KernelInv, NEW a \in Threads, NEW L, L = [k \in Fds |-> L[k]], SetKernel(a, L)
    PROVE  /\ filesOf[ProcOf[a]] \in 1 .. Len(files) /\ IsSeq(files') /\ Len(files') = Len(files) /\ Len(files) \in Nat
           /\ \A m \in 1 .. Len(files) : files'[m] = IF m = filesOf[ProcOf[a]] THEN L ELSE files[m]
           /\ \A m \in 1 .. Len(files) : files'[m] = [k \in Fds |-> files'[m][k]]
PROOF
  <1> DEFINE f == filesOf[ProcOf[a]]
  <1>1. f \in 1 .. Len(files) /\ IsSeq(files)
    BY SandboxAssumption DEF KernelInv
  <1>2. files' = Replace(files, f, L)
    BY DEF SetKernel, Replace
  <1> HIDE DEF f
  <1>3. /\ IsSeq(files') /\ Len(files') = Len(files) /\ Len(files) \in Nat
        /\ \A m \in 1 .. Len(files) : files'[m] = IF m = f THEN L ELSE files[m]
    BY <1>1, <1>2, Replaced
  <1>4. \A m \in 1 .. Len(files) : files'[m] = [k \in Fds |-> files'[m][k]]
    BY <1>3 DEF KernelInv
  <1> QED BY <1>1, <1>3, <1>4 DEF f

LEMMA OutcomeKeeps ==
    ASSUME RightInv, LowestInv', NEW a \in Threads, Outcome(a)
    PROVE  RightInv'
PROOF
  <1> DEFINE n == tableOf[ProcOf[a]]
             f == filesOf[ProcOf[a]]
  <1>1. PICK t, L, c :
           /\ ProcOf[a] \in known /\ call[a].pc # "inherit" /\ call' = [call EXCEPT ![a] = c]
           /\ UNCHANGED World /\ SetTable(a, t) /\ SetKernel(a, L) /\ L = [k \in Fds |-> L[k]]
           /\ ~rude' => /\ ~rude /\ Next_OK(a, c) /\ (t = Table(a) \/ ~Copying(a))
                        /\ Right(t.entries, L, [call EXCEPT ![a] = c], Mates(a))
    BY DEF Outcome
  <1>2. UNCHANGED <<known, life, tableOf, filesOf>> /\ ProcOf[a] \in Procs
    BY <1>1, SandboxAssumption DEF World
  <1>3. n \in 1 .. Len(tables) /\ Ix(a) \in 1 .. Len(tables) /\ IsSeq(tables)
    BY <1>2, TableIn DEF RightInv, LowestInv, TablesInv
  <1>4. /\ IsSeq(tables') /\ Len(tables') = Len(tables) /\ Len(tables) \in Nat
        /\ \A m \in 1 .. Len(tables) : tables'[m] = IF m = Ix(a) THEN t ELSE tables[m]
    <2>1. tables' = Replace(tables, Ix(a), t)
      BY <1>1 DEF SetTable, Replace
    <2> QED BY <1>3, <2>1, Replaced
  <1>5. /\ IsSeq(files') /\ Len(files') = Len(files) /\ Len(files) \in Nat /\ f \in 1 .. Len(files)
        /\ \A m \in 1 .. Len(files) : files'[m] = IF m = f THEN L ELSE files[m]
        /\ \A m \in 1 .. Len(files) : files'[m] = [k \in Fds |-> files'[m][k]]
    BY <1>1, KernelSet DEF RightInv
  <1>6. \A b \in Threads : call'[b] = IF b = a THEN c ELSE call[b]
    BY <1>1 DEF RightInv, LowestInv, CallsInv
  <1>7. KernelInv'
    <2>2. \A b \in Threads : ProcOf[b] \notin known => call'[b] = Idle
      BY <1>1, <1>6 DEF RightInv, KernelInv
    <2> QED BY <1>2, <1>5, <2>2 DEF RightInv, KernelInv
  <1>8. ASSUME ~rude' PROVE CallsHere' /\ ForkInv' /\ FilesInv'
    <2>1. ~rude /\ ForkInv /\ FilesInv /\ CallsHere /\ Next_OK(a, c) /\ Ix(a) = n /\ f = n
      BY <1>1, <1>8, Here DEF RightInv
    <2>2. \A b \in Threads : /\ call'[b].pc = "inherit" <=> call[b].pc = "inherit"
                             /\ call[b].pc = "inherit" => call'[b] = call[b]
      BY <1>1, <1>6, <2>1 DEF Next_OK
    <2>3. CallsHere'
      <3>1. Living' = Living
        BY <1>2 DEF Living
      <3> QED BY <1>6, <2>1, <3>1 DEF CallsHere, Next_OK
    <2>4. Len(tables) <= Len(files)
      BY <2>1 DEF ForkInv
    <2>5. ASSUME NEW b \in Threads, call[b].pc = "inherit", call[b].next # "share"
          PROVE  /\ tables'[tableOf[First]] = tables[tableOf[First]]
                 /\ files'[filesOf[Child]] = files[filesOf[Child]]
      <3>1. /\ ProcOf[b] = First /\ Child \notin known /\ filesOf[Child] = Len(files)
            /\ Len(files) = Len(tables) + 1
        BY <2>1, <2>5 DEF ForkInv
      <3>2. ProcOf[a] = First
        BY <1>1, <3>1 DEF RightInv, KernelInv
      <3>3. Copying(a)
        BY <2>5, <3>1, <3>2 DEF Copying
      <3>4. t = tables[n]
        BY <1>1, <1>8, <2>1, <3>3 DEF Table
      <3>5. filesOf[Child] \in 1 .. Len(files) /\ filesOf[Child] # f
        BY <1>3, <1>4, <1>5, <2>1, <3>1
      <3> QED BY <1>3, <1>4, <1>5, <2>1, <3>2, <3>4, <3>5
    <2>6. ForkInv'
      <3>1. \A b \in Threads : call'[b].pc = "inherit" =>
              /\ ProcOf[b] = First /\ Child \notin known /\ life[Child] # "none"
              /\ call'[b].next = "share" => filesOf[Child] = filesOf[First] /\ Len(files') = Len(tables')
              /\ call'[b].next # "share" =>
                   /\ Len(files') = Len(tables') + 1 /\ filesOf[Child] = Len(files')
                   /\ Mirrors(tables'[tableOf[First]].entries, files'[filesOf[Child]])
        <4> SUFFICES ASSUME NEW b \in Threads, call'[b].pc = "inherit"
                     PROVE  /\ ProcOf[b] = First /\ Child \notin known /\ life[Child] # "none"
                            /\ call'[b].next = "share" => filesOf[Child] = filesOf[First] /\ Len(files') = Len(tables')
                            /\ call'[b].next # "share" =>
                                 /\ Len(files') = Len(tables') + 1 /\ filesOf[Child] = Len(files')
                                 /\ Mirrors(tables'[tableOf[First]].entries, files'[filesOf[Child]])
          OBVIOUS
        <4>1. call'[b] = call[b] /\ call[b].pc = "inherit"
          BY <2>2
        <4> QED BY <1>4, <1>5, <2>1, <2>5, <4>1 DEF ForkInv
      <3>2. \A b, d \in Threads : call'[b].pc = "inherit" /\ call'[d].pc = "inherit" => b = d
        BY <2>1, <2>2 DEF ForkInv
      <3>3. life[Child] # "none" /\ Child \notin known => \E b \in Threads : call'[b].pc = "inherit"
        BY <2>1, <2>2 DEF ForkInv
      <3>4. /\ \A p \in known : filesOf[p] = tableOf[p]
            /\ Len(tables') <= Len(files')
            /\ Child \notin known => tableOf[Child] = tableOf[First]
            /\ life[Child] = "none" => Len(files') = Len(tables') /\ Child \notin known
        BY <1>4, <1>5, <2>1 DEF ForkInv
      <3> HIDE DEF n, f
      <3> QED BY <1>2, <3>1, <3>2, <3>3, <3>4 DEF ForkInv
    <2>7. ASSUME NEW m \in 1 .. Len(tables) PROVE Right(tables'[m].entries, files'[m], call', On(m)')
      <3>1. On(m)' = On(m) /\ m \in 1 .. Len(files)
        BY <1>2, <1>4, <1>5, <2>4 DEF On
      <3>2. CASE m = n
        BY <1>1, <1>4, <1>5, <1>8, <2>1, <3>1, <3>2 DEF Mates
      <3>3. CASE m # n
        <4>1. tables'[m] = tables[m] /\ files'[m] = files[m]
          BY <1>4, <1>5, <2>1, <3>1, <3>3
        <4>2. \A b \in On(m) : call'[b] = call[b]
          BY <1>6, <3>3 DEF On
        <4>3. Right(tables[m].entries, files[m], call, On(m))
          BY <2>1 DEF FilesInv
        <4>4. Right(tables[m].entries, files[m], call', On(m))
          BY <4>2, <4>3, OtherTable
        <4> QED BY <3>1, <4>1, <4>4
      <3> QED BY <3>2, <3>3
    <2>8. FilesInv'
      BY <1>4, <2>7 DEF FilesInv
    <2> QED BY <2>3, <2>6, <2>8
  <1> QED BY <1>7, <1>8 DEF RightInv

-----------------------------------------------------------------------------
(* The calls of the guest, one by one.                                     *)

LEMMA IdleOK ==
    ASSUME NEW T, NEW K
    PROVE  /\ CallOK(Idle, T, K) /\ Keeps(Idle) = {} /\ Touches(Idle) = {} /\ Replaces(Idle) = {}
           /\ Idle.pc = "idle" /\ Idle.t = 0 /\ \A S, W : Covers(Idle, S, W)
BY DEF CallOK, Keeps, Touches, Replaces, Covers, Makes, Installing, Idle

\* The entry a call uses.
LEMMA UsedEntry ==
    ASSUME RightInv, ~rude, NEW a \in Threads, RightHere(a), NEW v, Has(Table(a), v)
    PROVE  /\ v \in DOMAIN Table(a).entries /\ v \in Fds
           /\ Entry(a, v) = Table(a).entries[v] /\ Entry(a, v) = EntryAt(Table(a).entries, v)
           /\ Fits(Entry(a, v))
BY DEF RightHere, Right, Entry, EntryAt, Has

LEMMA QuietOutcome ==
    ASSUME RightInv, NEW a \in Threads, Ready(a), Quiet(a)
    PROVE  Outcome(a)
PROOF
  <1>1. ~Clash(a, {}, {})
    BY DEF Clash
  <1>2. Turn(a, Idle, {}, {})
    BY <1>1, BeginTurn, IdleOK DEF Quiet
  <1> QED BY <1>2, IdleOK, Changing1 DEF Quiet, Ready, CanCall

LEMMA ForwardedOutcome ==
    ASSUME RightInv, NEW a \in Threads, Ready(a), Forwarded(a)
    PROVE  Outcome(a)
PROOF
  <1>1. PICK v \in Fds :
           /\ Entry(a, v).kind = "pass" /\ Begin(a, [Idle EXCEPT !.pc = "fwd", !.fd = v, !.e = Entry(a, v)], {v}, {})
           /\ UNCHANGED <<World, tables, files>>
    BY Zenon DEF Forwarded
  <1> DEFINE c == [Idle EXCEPT !.pc = "fwd", !.fd = v, !.e = Entry(a, v)]
  <1>2. c.pc = "fwd" /\ c.fd = v /\ c.to = None /\ c.e = Entry(a, v) /\ c.next = "idle" /\ c.t = 0
    BY DEF Idle
  <1> HIDE DEF c
  <1>3. Turn(a, c, {v}, {}) /\ call[a].pc = "idle"
    <2>1. Begin(a, c, {v}, {})
      BY <1>1 DEF c
    <2> QED BY <1>2, <2>1, BeginsTurn
  <1>4. Covers(c, {v}, {}) /\ Keeps(c) = {}
    BY <1>2 DEF Covers, Touches, Replaces, Keeps, Makes, Installing
  <1>5. Has(Table(a), v) /\ Entry(a, v) = Table(a).entries[v]
    BY <1>1 DEF Entry, NoEntry
  <1>6. CallOK(c, Table(a).entries, Kernel(a))
    BY <1>1, <1>2, <1>5 DEF CallOK, Makes, Installing, Has
  <1> QED BY <1>1, <1>3, <1>4, <1>6, Changing1

\* A new entry for a virtual file.
LEMMA VirtualOutcome ==
    ASSUME RightInv, NEW a \in Threads, NEW used, NEW e,
           Retable(a, Idle, used, allocated(Table(a)), allocate(Table(a), e)), CanAllocate(Table(a)), e.kind = "virt",
           ~rude => Fits(e), UNCHANGED <<World, files>>
    PROVE  Outcome(a)
PROOF
  <1> DEFINE w == allocated(Table(a))
             t == allocate(Table(a), e)
  <1>1. Good(Table(a))
    BY Same DEF RightInv
  <1>2. t.entries = [x \in DOMAIN Table(a).entries \cup {w} |-> IF x = w THEN e ELSE Table(a).entries[x]] /\ w \in Fds
    BY <1>1, AllocateGood, AllocatedFree
  <1>3. Turn(a, Idle, used, {w}) /\ call[a].pc = "idle" /\ SetTable(a, t) /\ (~rude' => ~Copying(a))
    BY RetableTurn, IdleOK
  <1> HIDE DEF w, t
  <1>5. \A v : v # w => /\ v \in DOMAIN t.entries <=> v \in DOMAIN Table(a).entries
                        /\ v \in DOMAIN Table(a).entries => t.entries[v] = Table(a).entries[v]
    BY <1>2
  <1>6. w \in DOMAIN t.entries /\ t.entries[w] = e
    BY <1>2
  <1> QED BY <1>2, <1>3, <1>5, <1>6, IdleOK, Tabling

\* Once the guest is rude nothing is claimed.
LEMMA RudeOutcome ==
    ASSUME RightInv, NEW a \in Threads, ProcOf[a] \in known, call[a].pc # "inherit", rude', NEW c,
           call' = [call EXCEPT ![a] = c], UNCHANGED <<World, tables>>, NEW L, L = [k \in Fds |-> L[k]], SetKernel(a, L)
    PROVE  Outcome(a)
PROOF
  <1>1. SetTable(a, Table(a))
    BY Same DEF RightInv
  <1> QED BY <1>1 DEF Outcome

\* The lowest closed kernel descriptor.
LEMMA LowestKfd ==
    ASSUME NEW a, NEW F, F \subseteq FreeKfds(a), F # {}
    PROVE  Min(F) \in F /\ Min(F) \in Fds /\ Kernel(a)[Min(F)] = Closed
PROOF
  <1>1. F \in SUBSET Nat
    BY FdAssumption DEF FreeKfds, Fds
  <1>2. Min(F) \in F
    BY <1>1, MinInSet
  <1> QED BY <1>2 DEF FreeKfds

LEMMA OpenatOutcome ==
    ASSUME RightInv, TypeInv, NEW a \in Threads, handle_openat(a), Ready(a)
    PROVE  Outcome(a)
PROOF
  <1>1. ASSUME NEW f, NEW used, NEW path, OpensOne(a, f, used, path)
        PROVE  Outcome(a)
    <2>1. Fits(Virt(Len(ops'), path)) /\ Virt(Len(ops'), path).kind = "virt"
      BY DEF Virt, Fits, ShapedEntry
    <2> QED BY <1>1, <2>1, VirtualOutcome DEF OpensOne
  <1>2. ASSUME NEW used, AtOnce(a, used), UNCHANGED <<World, tables, files>>
        PROVE  Outcome(a)
    <2>1. Quiet(a)
      BY <1>2 DEF AtOnce, Begin, Start, Quiet
    <2> QED BY <2>1, QuietOutcome
  <1>3. ASSUME NEW fd, NEW dir, NEW target,
               Start(a, [Idle EXCEPT !.pc = "open", !.fd = fd, !.e = dir, !.desc = target]),
               rude' = (rude \/ Clash(a, {fd}, {})), UNCHANGED <<World, tables, files>>
        PROVE  Outcome(a)
    <2> DEFINE c == [Idle EXCEPT !.pc = "open", !.fd = fd, !.e = dir, !.desc = target]
    <2>1. c.pc = "open" /\ c.fd = fd /\ c.to = None /\ c.next = "idle" /\ c.t = 0
      BY DEF Idle
    <2>2. call' = [call EXCEPT ![a] = c] /\ call[a].pc = "idle"
      BY <1>3 DEF Start, Ready, CanCall
    <2> HIDE DEF c
    <2>3. Turn(a, c, {fd}, {})
      BY <1>3, <2>1, <2>2, BeginTurn
    <2>4. Covers(c, {fd}, {}) /\ Keeps(c) = {}
      BY <2>1 DEF Covers, Touches, Replaces, Keeps, Makes, Installing
    <2>5. CallOK(c, Table(a).entries, Kernel(a))
      BY <2>1 DEF CallOK, Makes, Installing
    <2> QED BY <1>3, <2>2, <2>3, <2>4, <2>5, Changing1
  <1> QED BY Zenon, <1>1, <1>2, <1>3, OpenatCases

LEMMA SocketOutcome ==
    ASSUME RightInv, NEW a \in Threads, handle_socket(a)
    PROVE  Outcome(a)
PROOF
  <1> DEFINE k == Min(FreeKfds(a))
             L == [Kernel(a) EXCEPT ![k] = <<"socket">>]
             c == [Idle EXCEPT !.pc = "alloc", !.e = Pass(None, <<"socket">>), !.k = k]
  <1>1. Begin(a, c, {}, {}) /\ SetKernel(a, L) /\ UNCHANGED <<World, tables>> /\ FreeKfds(a) # {}
    BY DEF handle_socket
  <1>2. k \in Fds /\ Kernel(a)[k] = Closed
    BY <1>1, LowestKfd
  <1>3. Kernel(a) = [x \in Fds |-> Kernel(a)[x]]
    BY Same DEF RightInv
  <1>4. /\ c.pc = "alloc" /\ c.fd = None /\ c.to = None /\ c.next = "idle" /\ c.k = k /\ c.t = 0
        /\ c.e = Pass(None, <<"socket">>) /\ Pass(None, <<"socket">>).kind = "pass"
        /\ Pass(None, <<"socket">>).desc = <<"socket">> /\ ShapedEntry(Pass(None, <<"socket">>))
    BY DEF Idle, Pass, ShapedEntry
  <1> HIDE DEF k
  <1>5. /\ L = [x \in Fds |-> L[x]] /\ L[k] = <<"socket">>
        /\ \A x \in Fds : Kernel(a)[x] # Closed => L[x] = Kernel(a)[x]
    BY <1>2, <1>3
  <1> HIDE DEF c, L
  <1>6. Turn(a, c, {}, {}) /\ call[a].pc = "idle"
    BY <1>1, <1>4, BeginsTurn
  <1>7. Covers(c, {}, {}) /\ Keeps(c) = {k}
    BY <1>4 DEF Covers, Touches, Replaces, Keeps, Makes
  <1>8. CallOK(c, Table(a).entries, L)
    <2>1. c.e.kind = "pass" /\ c.e.desc = <<"socket">> /\ ShapedEntry(c.e)
      BY <1>4
    <2>2. L[c.k] = c.e.desc /\ c.e.desc # Closed
      <3>1. <<"socket">> # Closed
        BY DEF Closed
      <3> QED BY <1>4, <1>5, <2>1, <3>1
    <2> QED BY <1>2, <1>4, <2>1, <2>2 DEF CallOK, Makes, Installing
  <1> QED BY <1>1, <1>2, <1>5, <1>6, <1>7, <1>8, Opening

LEMMA PipeOutcome ==
    ASSUME RightInv, NEW a \in Threads, handle_pipe2(a)
    PROVE  Outcome(a)
PROOF
  <1> DEFINE k == Min(FreeKfds(a))
             l == Min(FreeKfds(a) \ {k})
             L == [Kernel(a) EXCEPT ![k] = <<"reader">>, ![l] = <<"writer">>]
             c == [Idle EXCEPT !.pc = "pipe", !.e = Pass(k, <<"reader">>), !.old = Pass(l, <<"writer">>)]
  <1>1. Begin(a, c, {}, {}) /\ SetKernel(a, L) /\ UNCHANGED <<World, tables>> /\ Cardinality(FreeKfds(a)) > 1
    BY DEF handle_pipe2
  <1>2. FreeKfds(a) # {}
    BY <1>1, FS_EmptySet
  <1>3. k \in FreeKfds(a) /\ k \in Fds /\ Kernel(a)[k] = Closed
    BY <1>2, LowestKfd
  <1>4. FreeKfds(a) \ {k} # {}
    <2>1. Cardinality({k}) = 1
      BY FS_Singleton
    <2>2. FreeKfds(a) # {k}
      BY <1>1, <2>1
    <2> QED BY <1>3, <2>2
  <1>5. l \in FreeKfds(a) \ {k} /\ l \in Fds /\ Kernel(a)[l] = Closed
    BY <1>4, LowestKfd
  <1>6. Kernel(a) = [x \in Fds |-> Kernel(a)[x]]
    BY Same DEF RightInv
  <1> HIDE DEF k, l
  <1>7. /\ L = [x \in Fds |-> L[x]] /\ L[k] = <<"reader">> /\ L[l] = <<"writer">>
        /\ \A x \in Fds : Kernel(a)[x] # Closed => L[x] = Kernel(a)[x]
    BY <1>3, <1>5, <1>6
  <1>8. /\ c.pc = "pipe" /\ c.fd = None /\ c.to = None /\ c.next = "idle" /\ c.t = 0
        /\ c.e = Pass(k, <<"reader">>) /\ c.old = Pass(l, <<"writer">>)
    BY DEF Idle
  <1>9. /\ Fits(Pass(k, <<"reader">>)) /\ Fits(Pass(l, <<"writer">>))
        /\ Pass(k, <<"reader">>).kind = "pass" /\ Pass(l, <<"writer">>).kind = "pass"
        /\ Pass(k, <<"reader">>).k = k /\ Pass(l, <<"writer">>).k = l
        /\ Pass(k, <<"reader">>).desc = <<"reader">> /\ Pass(l, <<"writer">>).desc = <<"writer">>
    BY <1>3, <1>5 DEF Pass, Fits, ShapedEntry, Closed
  <1> HIDE DEF c, L
  <1>10. Turn(a, c, {}, {}) /\ call[a].pc = "idle"
    BY <1>1, <1>8, BeginsTurn
  <1>11. Covers(c, {}, {}) /\ Keeps(c) = {k, l}
    BY <1>8, <1>9 DEF Covers, Touches, Replaces, Keeps
  <1>12. CallOK(c, Table(a).entries, L)
    BY <1>5, <1>7, <1>8, <1>9 DEF CallOK, Makes, Installing
  <1> QED BY <1>1, <1>3, <1>5, <1>7, <1>10, <1>11, <1>12, Opening

\* The kernel duplicates a number the table does not translate: nobody else has
\* the descriptor that it opens.
LEMMA DupUnknownOutcome ==
    ASSUME RightInv, NEW a \in Threads, NEW v, NEW min, DupUnknown(a, v, min)
    PROVE  Outcome(a)
PROOF
  <1> DEFINE F == {k \in FreeKfds(a) : k >= min}
             k == Min(F)
             L == [Kernel(a) EXCEPT ![k] = Kernel(a)[v]]
  <1>1. Begin(a, Idle, {v}, {}) /\ UNCHANGED <<World, tables>>
    BY DEF DupUnknown, AtOnce
  <1>2. Turn(a, Idle, {v}, {}) /\ call[a].pc = "idle"
    BY <1>1, BeginsTurn, IdleOK
  <1>3. CASE files' = files
    BY <1>1, <1>2, <1>3, IdleOK, Changing1
  <1>4. CASE F # {} /\ SetKernel(a, L)
    <2>1. k \in Fds /\ Kernel(a)[k] = Closed
      BY <1>4, LowestKfd
    <2>2. Kernel(a) = [x \in Fds |-> Kernel(a)[x]]
      BY Same DEF RightInv
    <2> HIDE DEF k
    <2>3. L = [x \in Fds |-> L[x]] /\ \A x \in Fds : Kernel(a)[x] # Closed => L[x] = Kernel(a)[x]
      BY <2>1, <2>2
    <2> HIDE DEF L
    <2> QED BY <1>1, <1>2, <1>4, <2>3, IdleOK, Opening
  <1> QED BY <1>3, <1>4 DEF DupUnknown

LEMMA DupOutcome ==
    ASSUME RightInv, NEW a \in Threads, Ready(a), handle_dup(a)
    PROVE  Outcome(a)
PROOF
  <1>1. ASSUME NEW v, Entry(a, v).kind = "pass",
               Begin(a, [Idle EXCEPT !.pc = "dup", !.fd = v, !.e = Entry(a, v), !.next = "alloc"], {v}, {}),
               UNCHANGED <<World, tables, files>>
        PROVE  Outcome(a)
    <2> DEFINE c == [Idle EXCEPT !.pc = "dup", !.fd = v, !.e = Entry(a, v), !.next = "alloc"]
    <2>1. c.pc = "dup" /\ c.fd = v /\ c.to = None /\ c.e = Entry(a, v) /\ c.next = "alloc" /\ c.t = 0
      BY DEF Idle
    <2>2. Begin(a, c, {v}, {})
      BY <1>1
    <2> HIDE DEF c
    <2>3. Turn(a, c, {v}, {}) /\ call[a].pc = "idle"
      BY <2>1, <2>2, BeginsTurn
    <2>4. Covers(c, {v}, {}) /\ Keeps(c) = {}
      BY <2>1 DEF Covers, Touches, Replaces, Keeps, Makes, Installing
    <2>5. v \in DOMAIN Table(a).entries /\ Entry(a, v) = Table(a).entries[v]
      BY <1>1 DEF Entry, NoEntry, Has
    <2>6. CallOK(c, Table(a).entries, Kernel(a))
      BY <1>1, <2>1, <2>5 DEF CallOK, Makes, Installing
    <2> QED BY <1>1, <2>3, <2>4, <2>6, Changing1
  <1>2. ASSUME NEW v \in Fds, Entry(a, v).kind = "virt", CanAllocate(Table(a)),
               Retable(a, Idle, {v}, allocated(Table(a)), allocate(Table(a), Entry(a, v))), UNCHANGED <<World, files>>
        PROVE  Outcome(a)
    <2>1. ~rude => Fits(Entry(a, v))
      BY <1>2, Here, UsedEntry DEF Ready, Entry, NoEntry
    <2> QED BY <1>2, <2>1, VirtualOutcome
  <1> QED BY Zenon, <1>1, <1>2, DupUnknownOutcome DEF handle_dup

LEMMA FcntlOutcome ==
    ASSUME RightInv, NEW a \in Threads, Ready(a), handle_fcntl(a)
    PROVE  Outcome(a)
PROOF
  <1>1. CASE Translate(a)
    <2>1. Quiet(a) \/ Forwarded(a)
      BY <1>1, Calls DEF UsesDescriptor, handle_ioctl, RightInv
    <2> QED BY <2>1, QuietOutcome, ForwardedOutcome
  <1>2. ASSUME NEW v, NEW min, Entry(a, v).kind = "pass",
               Begin(a, [Idle EXCEPT !.pc = "dup", !.fd = v, !.to = min, !.e = Entry(a, v), !.next = "allocmin"], {v}, {}),
               UNCHANGED <<World, tables, files>>
        PROVE  Outcome(a)
    <2> DEFINE c == [Idle EXCEPT !.pc = "dup", !.fd = v, !.to = min, !.e = Entry(a, v), !.next = "allocmin"]
    <2>1. c.pc = "dup" /\ c.fd = v /\ c.e = Entry(a, v) /\ c.next = "allocmin" /\ c.t = 0
      BY DEF Idle
    <2>2. Begin(a, c, {v}, {})
      BY <1>2
    <2> HIDE DEF c
    <2>3. Turn(a, c, {v}, {}) /\ call[a].pc = "idle"
      BY <2>1, <2>2, BeginsTurn
    <2>4. Covers(c, {v}, {}) /\ Keeps(c) = {}
      BY <2>1 DEF Covers, Touches, Replaces, Keeps, Makes, Installing
    <2>5. v \in DOMAIN Table(a).entries /\ Entry(a, v) = Table(a).entries[v]
      BY <1>2 DEF Entry, NoEntry, Has
    <2>6. CallOK(c, Table(a).entries, Kernel(a))
      BY <1>2, <2>1, <2>5 DEF CallOK, Makes, Installing
    <2> QED BY <1>2, <2>3, <2>4, <2>6, Changing1
  <1> QED BY Zenon, <1>1, <1>2, DupUnknownOutcome DEF handle_fcntl

LEMMA DupToOutcome ==
    ASSUME RightInv, NEW a \in Threads, Ready(a), DupTo(a)
    PROVE  Outcome(a)
PROOF
  <1>1. ASSUME NEW v \in Fds, NEW w \in Fds, Has(Table(a), v),
               Begin(a, [Idle EXCEPT !.pc = IF Entry(a, v).kind = "pass" THEN "dup" ELSE "closeold", !.fd = v, !.to = w,
                                     !.e = Entry(a, v), !.old = Entry(a, w), !.next = "closeold"], {v}, {w}),
               UNCHANGED <<World, tables, files>>
        PROVE  Outcome(a)
    <2> DEFINE c == [Idle EXCEPT !.pc = IF Entry(a, v).kind = "pass" THEN "dup" ELSE "closeold", !.fd = v, !.to = w,
                                 !.e = Entry(a, v), !.old = Entry(a, w), !.next = "closeold"]
    <2>1. /\ c.pc = (IF Entry(a, v).kind = "pass" THEN "dup" ELSE "closeold") /\ c.fd = v /\ c.to = w
          /\ c.e = Entry(a, v) /\ c.old = Entry(a, w) /\ c.next = "closeold" /\ c.t = 0
      BY DEF Idle
    <2>2. Begin(a, c, {v}, {w})
      BY <1>1
    <2> HIDE DEF c
    <2>3. Turn(a, c, {v}, {w}) /\ call[a].pc = "idle"
      BY <2>1, <2>2, BeginsTurn
    <2>4. Covers(c, {v}, {w})
      BY <2>1 DEF Covers, Touches, Replaces
    <2>5. Keeps(c) = {}
      BY <2>1 DEF Keeps, Makes, Installing
    <2>6. v \in DOMAIN Table(a).entries /\ Entry(a, v) = Table(a).entries[v] /\ Entry(a, w) = EntryAt(Table(a).entries, w)
      BY <1>1 DEF Entry, Has, EntryAt
    <2>7. ASSUME ~rude, RightHere(a) PROVE CallOK(c, Table(a).entries, Kernel(a))
      <3>1. Fits(Entry(a, v))
        BY <1>1, <2>7, UsedEntry
      <3>2. CASE Entry(a, v).kind = "pass"
        BY <2>1, <2>6, <3>2 DEF CallOK, Makes, Installing
      <3>3. CASE Entry(a, v).kind # "pass"
        BY <2>1, <2>6, <3>1, <3>3 DEF CallOK, Makes, Installing, Fits
      <3> QED BY <3>2, <3>3
    <2> QED BY <1>1, <2>3, <2>4, <2>5, <2>7, Changing1
  <1>2. ASSUME NEW v \in Fds, NEW w \in Fds, ~Has(Table(a), v), Begin(a, Idle, {v}, {w}), UNCHANGED <<World, tables>>,
               SetKernel(a, IF Kernel(a)[v] = Closed THEN Kernel(a) ELSE [Kernel(a) EXCEPT ![w] = Kernel(a)[v]])
        PROVE  Outcome(a)
    <2> DEFINE L == IF Kernel(a)[v] = Closed THEN Kernel(a) ELSE [Kernel(a) EXCEPT ![w] = Kernel(a)[v]]
    <2>1. Kernel(a) = [k \in Fds |-> Kernel(a)[k]]
      BY Same DEF RightInv
    <2>2. L = [k \in Fds |-> L[k]]
      BY <2>1
    <2>3. call' = [call EXCEPT ![a] = Idle] /\ ProcOf[a] \in known /\ call[a].pc # "inherit"
      BY <1>2 DEF Begin, Start, Ready, CanCall
    <2>4. SetKernel(a, L)
      BY <1>2
    <2>5. Quiet(a) \/ rude'
      <3>1. ~rude' => Kernel(a)[v] = Closed
        BY <1>2 DEF Begin, Stray
      <3>2. Kernel(a)[v] = Closed => files' = files
        BY <1>2, Same DEF RightInv
      <3>3. rude => rude'
        BY <1>2 DEF Begin
      <3>4. UNCHANGED <<World, tables>>
        BY <1>2
      <3> QED BY Zenon, <2>3, <3>1, <3>2, <3>3, <3>4 DEF Quiet
    <2> HIDE DEF L
    <2> QED BY <1>2, <2>2, <2>3, <2>4, <2>5, QuietOutcome, RudeOutcome
  <1> QED BY Zenon, <1>1, <1>2 DEF DupTo

\* close takes the entry out of the table and keeps its kernel descriptor.
LEMMA CloseOutcome ==
    ASSUME RightInv, NEW a \in Threads, Ready(a), handle_close(a)
    PROVE  Outcome(a)
PROOF
  <1>1. ASSUME NEW v \in Fds, Entry(a, v).kind # "none",
               Retable(a, Closing(Entry(a, v)), {}, v, deallocate(Table(a), v)), UNCHANGED <<World, files>>
        PROVE  Outcome(a)
    <2> DEFINE c == Closing(Entry(a, v))
               t == deallocate(Table(a), v)
               T == Table(a).entries
    <2>1. Has(Table(a), v) /\ v \in DOMAIN T /\ Entry(a, v) = T[v]
      BY <1>1 DEF Entry, NoEntry, Has
    <2>2. t.entries = [x \in DOMAIN T \ {v} |-> T[x]]
      BY <2>1, Same, DeallocateGood DEF RightInv
    <2>3. /\ c.fd = None /\ c.to = None /\ c.next = "idle" /\ c.t = 0
          /\ \/ c.pc = "kclose" /\ T[v].kind = "pass" /\ c.k = T[v].k
             \/ c.pc \in {"flush", "idle"}
      <3>1. CASE T[v].kind = "pass"
        BY <2>1, <3>1 DEF Closing, Idle
      <3>2. CASE T[v].kind # "pass"
        BY <2>1, <3>2 DEF Closing, Idle
      <3> QED BY <3>1, <3>2
    <2>4. Retable(a, c, {}, v, t)
      BY <1>1
    <2> HIDE DEF c, t
    <2>5. Turn(a, c, {}, {v}) /\ call[a].pc = "idle" /\ SetTable(a, t) /\ (~rude' => ~Copying(a))
      BY <2>3, <2>4, RetableTurn
    <2>6. Covers(c, {}, {v}) /\ c.pc # "install" /\ call[a].pc # "install"
      BY <2>3, <2>5 DEF Covers, Touches, Replaces
    <2>7. \A x : x # v => /\ x \in DOMAIN t.entries <=> x \in DOMAIN T
                          /\ x \in DOMAIN T => t.entries[x] = T[x]
      BY <2>2
    <2>8. v \notin DOMAIN t.entries
      BY <2>2
    <2>9. Keeps(c) = IF c.pc = "kclose" THEN {T[v].k} ELSE {}
      BY <2>3 DEF Keeps, Makes, Installing
    <2>10. ASSUME ~rude, RightHere(a), ~rude'
           PROVE  v \in Firm(T, call, Mates(a))  \/ c.pc # "kclose"
      <3> SUFFICES ASSUME c.pc = "kclose" PROVE v \in Firm(T, call, Mates(a))
        OBVIOUS
      <3>1. ASSUME NEW b \in Mates(a), call[b].pc = "install" PROVE call[b].to # v
        <4>1. b # a
          BY <2>6, <3>1
        <4>2. v \notin Touches(call[b])
          BY <2>5, <2>10, <4>1 DEF Turn
        <4>3. call[b].next \in {"closeold", "install"}
          BY <2>10, <3>1 DEF RightHere, Right, CallOK, Installing
        <4> QED BY <4>2, <4>3 DEF Touches, Replaces
      <3> QED BY <2>1, <2>3, <3>1 DEF Firm
    <2>11. ASSUME ~rude, RightHere(a), ~rude' PROVE CallOK(c, t.entries, Kernel(a))
      <3>1. CASE c.pc = "kclose"
        <4>1. v \in Firm(T, call, Mates(a)) /\ T[v].kind = "pass" /\ c.k = T[v].k
          BY <2>3, <2>10, <2>11, <3>1
        <4>2. c.k \in Fds /\ Kernel(a)[c.k] # Closed
          BY <2>1, <2>11, <4>1 DEF RightHere, Right, Fits
        <4> QED BY <2>3, <3>1, <4>2 DEF CallOK, Makes, Installing
      <3>2. CASE c.pc \in {"flush", "idle"}
        BY <2>3, <3>2 DEF CallOK, Makes, Installing
      <3> QED BY <2>3, <3>1, <3>2
    <2> QED BY <1>1, <2>5, <2>6, <2>7, <2>8, <2>9, <2>10, <2>11, Tabling
  <1>2. ASSUME NEW v \in Fds, Entry(a, v).kind = "none", AtOnce(a, {v}), UNCHANGED <<World, tables>>,
               SetKernel(a, [Kernel(a) EXCEPT ![v] = Closed])
        PROVE  Outcome(a)
    <2> DEFINE L == [Kernel(a) EXCEPT ![v] = Closed]
    <2>1. Kernel(a) = [k \in Fds |-> Kernel(a)[k]]
      BY Same DEF RightInv
    <2>2. L = [k \in Fds |-> L[k]]
      BY <2>1
    <2>3. call' = [call EXCEPT ![a] = Idle] /\ ProcOf[a] \in known /\ call[a].pc # "inherit"
      BY <1>2 DEF AtOnce, Begin, Start, Ready, CanCall
    <2>4. SetKernel(a, L)
      BY <1>2
    <2>5. ASSUME ~rude' PROVE Quiet(a)
      <3>1. ~rude /\ (~Has(Table(a), v) => Kernel(a)[v] = Closed)
        BY <1>2, <2>5 DEF AtOnce, Begin, Stray
      <3>2. ~Has(Table(a), v)
        BY <1>2, <2>3, <3>1, Here, UsedEntry DEF Fits
      <3>3. L = Kernel(a)
        BY <2>1, <3>1, <3>2
      <3>4. files' = files
        BY <2>4, <3>3, Same DEF RightInv
      <3> QED BY <1>2, <2>3, <2>5, <3>1, <3>4 DEF Quiet
    <2> HIDE DEF L
    <2> QED BY <1>2, <2>2, <2>3, <2>4, <2>5, QuietOutcome, RudeOutcome
  <1> QED BY <1>1, <1>2 DEF handle_close

LEMMA MakesOutcome ==
    ASSUME RightInv, TypeInv, NEW a \in Threads, Ready(a), MakesDescriptors(a)
    PROVE  Outcome(a)
BY OpenatOutcome, SocketOutcome, PipeOutcome, DupOutcome, FcntlOutcome, DupToOutcome, CloseOutcome
   DEF MakesDescriptors, handle_dup2, handle_dup3

-----------------------------------------------------------------------------
(* The handlers after an await.                                            *)

\* The call ends with the table and the kernel as they are.
LEMMA EndOutcome ==
    ASSUME RightInv, NEW a \in Threads, call[a].pc \notin {"idle", "inherit", "install"}, Goto(a, Idle),
           UNCHANGED <<World, tables, files>>
    PROVE  Outcome(a)
PROOF
  <1>1. Turn(a, Idle, Touches(call[a]), Replaces(call[a]))
    BY GotoTurn, IdleOK DEF Goto
  <1> QED BY <1>1, IdleOK, Changing1

\* The kernel opens a descriptor and the call keeps it.
LEMMA KernelOpenOutcome ==
    ASSUME RightInv, NEW a \in Threads, call[a].pc \notin {"idle", "inherit", "install"},
           NEW c, NEW desc, NEW pc, KernelOpen(a, c, desc, pc), UNCHANGED <<World, tables>>,
           ShapedCall(c), c.t \in {0, call[a].t},
           ~rude /\ RightHere(a) =>
              /\ Replaces(c) \subseteq Replaces(call[a])
              /\ Makes([c EXCEPT !.pc = pc]) /\ c.e.kind = "pass" /\ ShapedEntry(c.e) /\ c.e.desc = desc /\ desc # Closed
              /\ pc \in {"alloc", "allocmin", "closeold"}
              /\ pc = "closeold" => c.next \in {"closeold", "install"} /\ c.to \in Fds /\ c.old = EntryAt(Table(a).entries, c.to)
    PROVE  Outcome(a)
PROOF
  <1>1. CASE FreeKfds(a) = {}
    BY <1>1, EndOutcome DEF KernelOpen
  <1>2. CASE FreeKfds(a) # {}
    <2> DEFINE k == Min(FreeKfds(a))
               L == [Kernel(a) EXCEPT ![k] = desc]
               d == [c EXCEPT !.pc = pc, !.k = k]
               d0 == [c EXCEPT !.pc = pc]
    <2>1. SetKernel(a, L) /\ Goto(a, d)
      BY <1>2 DEF KernelOpen
    <2>2. k \in Fds /\ Kernel(a)[k] = Closed
      BY <1>2, LowestKfd
    <2>3. Kernel(a) = [x \in Fds |-> Kernel(a)[x]]
      BY Same DEF RightInv
    <2> HIDE DEF k
    <2>4. /\ L = [x \in Fds |-> L[x]] /\ L[k] = desc
          /\ \A x \in Fds : Kernel(a)[x] # Closed => L[x] = Kernel(a)[x]
      BY <2>2, <2>3
    <2>5. /\ d.pc = pc /\ d.k = k /\ d.fd = c.fd /\ d.to = c.to /\ d.e = c.e /\ d.old = c.old /\ d.next = c.next /\ d.t = c.t
          /\ d0.pc = pc /\ d0.fd = c.fd /\ d0.to = c.to /\ d0.e = c.e /\ d0.old = c.old /\ d0.next = c.next
      BY DEF ShapedCall
    <2>7. ASSUME ~rude, RightHere(a) PROVE Makes(d0)
      BY <2>7
    <2> HIDE DEF L, d, d0
    <2>8. Turn(a, d, Touches(call[a]), Replaces(call[a]))
      <3>1. ~rude => d.pc # "inherit"
        BY <2>5, Underway
      <3> QED BY <2>1, <2>5, <3>1, GotoTurn DEF Goto
    <2>9. ASSUME ~rude, RightHere(a) PROVE Covers(d, Touches(call[a]), Replaces(call[a]))
      <3>1. Replaces(d) = Replaces(c)
        BY <2>5 DEF Replaces
      <3>2. Touches(d) = Replaces(c)
        BY <2>5, <2>9, <3>1 DEF Touches
      <3> QED BY <2>9, <3>1, <3>2 DEF Covers
    <2>10. ASSUME ~rude, RightHere(a)
           PROVE  CallOK(d, Table(a).entries, L) /\ Keeps(d) = {k}
      <3>1. Makes(d)
        BY <2>5, <2>7, <2>10 DEF Makes, Installing
      <3>2. Keeps(d) = {k}
        BY <2>5, <2>10, <3>1 DEF Keeps
      <3>3. CallOK(d, Table(a).entries, L)
        BY <2>2, <2>4, <2>5, <2>10, <3>1 DEF CallOK, Installing
      <3> QED BY <3>2, <3>3
    <2> QED BY <2>1, <2>2, <2>4, <2>8, <2>9, <2>10, Opening
  <1> QED BY <1>1, <1>2

LEMMA OpenResultOutcome ==
    ASSUME RightInv, NEW a \in Threads, open_result(a)
    PROVE  Outcome(a)
PROOF
  <1> DEFINE desc == call[a].desc
             c == [Idle EXCEPT !.e = Pass(None, desc), !.t = call[a].t]
  <1>1. call[a].pc = "open"
    BY DEF open_result, At
  <1>2. CASE desc \in HostFiles
    <2>1. KernelOpen(a, c, desc, "alloc") /\ UNCHANGED <<World, tables>>
      BY <1>2 DEF open_result
    <2>2. desc # Closed
      BY <1>2, SandboxAssumption DEF Closed
    <2>3. ShapedCall(c) /\ c.e = Pass(None, desc) /\ c.t = call[a].t
      BY DEF ShapedCall, Idle
    <2>4. Replaces(c) = {}
      BY DEF Replaces, Idle
    <2>5. Makes([c EXCEPT !.pc = "alloc"])
      BY DEF Makes, Idle
    <2>6. Pass(None, desc).kind = "pass" /\ Pass(None, desc).desc = desc /\ ShapedEntry(Pass(None, desc))
      BY DEF Pass, ShapedEntry
    <2> HIDE DEF c, desc
    <2> QED BY <1>1, <2>1, <2>2, <2>3, <2>4, <2>5, <2>6, KernelOpenOutcome
  <1>3. CASE desc \notin HostFiles
    BY <1>1, <1>3, EndOutcome DEF open_result
  <1> QED BY <1>2, <1>3

\* An entry that a call relies on is not one that dup2 is replacing.
LEMMA FirmEntry ==
    ASSUME NEW T, NEW K, NEW C, NEW A, Right(T, K, C, A), NEW a \in A, C[a].pc # "install",
           NEW v \in Touches(C[a]), v \in DOMAIN T, T[v].kind = "pass"
    PROVE  v \in Firm(T, C, A) /\ K[T[v].k] = T[v].desc /\ T[v].k \in Fds
PROOF
  <1>1. ASSUME NEW b \in A, C[b].pc = "install" PROVE C[b].to # v
    <2>1. v \notin Replaces(C[b])
      BY <1>1 DEF Right
    <2>2. C[b].next \in {"closeold", "install"}
      BY <1>1 DEF Right, CallOK, Installing
    <2> QED BY <2>1, <2>2 DEF Replaces
  <1>2. v \in Firm(T, C, A)
    BY <1>1 DEF Firm
  <1> QED BY <1>2 DEF Right, Fits

LEMMA DuplicateOutcome ==
    ASSUME RightInv, NEW a \in Threads, Duplicate(a)
    PROVE  Outcome(a)
PROOF
  <1> DEFINE c == call[a]
             desc == Kernel(a)[c.e.k]
  <1>1. c.pc = "dup" /\ UNCHANGED <<World, tables>>
    BY DEF Duplicate, At
  <1>2. CASE desc = Closed
    BY <1>1, <1>2, EndOutcome DEF Duplicate
  <1>3. CASE desc # Closed
    <2>1. KernelOpen(a, c, desc, c.next)
      BY <1>3 DEF Duplicate
    <2>2. Sound(c) /\ (~rude => CallOK(c, Table(a).entries, Kernel(a)))
      BY <1>1, Underway
    <2>3. ShapedCall(c)
      BY <2>2 DEF Sound
    <2>4. ASSUME ~rude, RightHere(a)
          PROVE  /\ Makes([c EXCEPT !.pc = c.next]) /\ c.e.kind = "pass" /\ ShapedEntry(c.e) /\ c.e.desc = desc
                 /\ c.next \in {"alloc", "allocmin", "closeold"}
                 /\ c.next = "closeold" => c.to \in Fds /\ c.old = EntryAt(Table(a).entries, c.to)
      <3>1. CallOK(c, Table(a).entries, Kernel(a)) /\ a \in Mates(a)
        BY <1>1, <2>4, Underway
      <3>2. /\ c.fd \in DOMAIN Table(a).entries /\ Table(a).entries[c.fd] = c.e /\ c.e.kind = "pass"
            /\ c.next \in {"alloc", "allocmin", "closeold"}
            /\ c.next = "closeold" => c.to \in Fds /\ c.old = EntryAt(Table(a).entries, c.to)
        BY <1>1, <3>1 DEF CallOK
      <3>4. ShapedEntry(c.e)
        BY <2>4, <3>2 DEF RightHere, Right, Fits
      <3>5. c.e.desc = desc
        <4>1. c.fd \in Touches(call[a])
          BY <1>1 DEF Touches
        <4>2. Right(Table(a).entries, Kernel(a), call, Mates(a)) /\ call[a].pc # "install"
          BY <1>1, <2>4 DEF RightHere
        <4>3. Kernel(a)[Table(a).entries[c.fd].k] = Table(a).entries[c.fd].desc
          BY <3>1, <3>2, <4>1, <4>2, FirmEntry
        <4> QED BY <3>2, <4>3
      <3> DEFINE d == [c EXCEPT !.pc = c.next]
      <3>6. d.pc = c.next /\ d.next = c.next /\ d.fd = c.fd /\ d.to = c.to
        BY <2>3 DEF ShapedCall
      <3> HIDE DEF d
      <3>8. Makes(d)
        BY <3>2, <3>6 DEF Makes, Installing
      <3> QED BY <3>2, <3>4, <3>5, <3>8 DEF d
    <2>6. c = call[a]
      OBVIOUS
    <2> HIDE DEF c, desc
    <2>5. call[a].pc \notin {"idle", "inherit", "install"}
      BY <1>1, <2>6
    <2> QED BY <1>1, <1>3, <2>1, <2>3, <2>4, <2>5, <2>6, KernelOpenOutcome
  <1> QED BY <1>2, <1>3

\* The kernel descriptor a call has made becomes that of a new entry.
Made(c) == [c.e EXCEPT !.k = c.k]

LEMMA GivenEntry ==
    ASSUME NEW c, NEW T, NEW K, CallOK(c, T, K), c.pc # "pipe", Makes(c), c.e.kind = "pass"
    PROVE  Fits(Made(c)) /\ Made(c).kind = "pass" /\ Made(c).k \in Keeps(c) /\ K[Made(c).k] = Made(c).desc
PROOF
  <1> DEFINE e == Made(c)
  <1>1. ShapedEntry(c.e) /\ c.k \in Fds /\ K[c.k] = c.e.desc /\ c.e.desc # Closed
    BY DEF CallOK
  <1>2. e.kind = "pass" /\ e.k = c.k /\ e.desc = c.e.desc /\ ShapedEntry(e)
    BY <1>1 DEF ShapedEntry, Made
  <1>3. Keeps(c) = {c.k}
    BY DEF Keeps
  <1> QED BY <1>1, <1>2, <1>3 DEF Fits

LEMMA GiveOutcome ==
    ASSUME RightInv, NEW a \in Threads, call[a].pc \in {"alloc", "allocmin"}, NEW t, Give(a, t), UNCHANGED <<World, files>>,
           NEW w, w \in Fds, ~Has(Table(a), w),
           t.entries = [x \in DOMAIN Table(a).entries \cup {w} |->
                          IF x = w THEN Made(call[a]) ELSE Table(a).entries[x]]
    PROVE  Outcome(a)
PROOF
  <1> DEFINE e == Made(call[a])
             S == DOMAIN t.entries \ DOMAIN Table(a).entries
  <1>1. Turn(a, Idle, {}, S) /\ (~rude' => ~Copying(a))
    BY GiveTurn
  <1>2. ASSUME ~rude PROVE Fits(e) /\ e.kind = "pass" /\ e.k \in Keeps(call[a]) /\ Kernel(a)[e.k] = e.desc
    <2>1. CallOK(call[a], Table(a).entries, Kernel(a))
      BY <1>2, Underway
    <2>2. Makes(call[a]) /\ call[a].e.kind = "pass"
      BY <2>1 DEF Makes, CallOK
    <2> QED BY <2>1, <2>2, GivenEntry
  <1>3. w \in S /\ w \in DOMAIN t.entries /\ t.entries[w] = e
    BY DEF Has
  <1>4. \A v : v # w => /\ v \in DOMAIN t.entries <=> v \in DOMAIN Table(a).entries
                        /\ v \in DOMAIN Table(a).entries => t.entries[v] = Table(a).entries[v]
    OBVIOUS
  <1>5. SetTable(a, t) /\ call[a].pc # "install"
    BY DEF Give
  <1> HIDE DEF e, S
  <1> QED BY <1>1, <1>2, <1>3, <1>4, <1>5, IdleOK, Tabling

LEMMA AllocateOutcome ==
    ASSUME RightInv, NEW a \in Threads, allocate_fd(a) \/ allocate_min_fd(a)
    PROVE  Outcome(a)
PROOF
  <1> DEFINE e == Made(call[a])
  <1>0. Good(Table(a))
    BY Same DEF RightInv
  <1>1. CASE allocate_fd(a)
    <2> DEFINE w == allocated(Table(a))
               t == allocate(Table(a), e)
    <2>1. call[a].pc = "alloc" /\ CanAllocate(Table(a)) /\ Give(a, t) /\ UNCHANGED <<World, files>>
      BY <1>1 DEF allocate_fd, At, Made
    <2>2. w \in Fds /\ ~Has(Table(a), w)
      BY <1>0, <2>1, AllocatedFree
    <2>3. t.entries = [x \in DOMAIN Table(a).entries \cup {w} |-> IF x = w THEN e ELSE Table(a).entries[x]]
      BY <1>0, <2>1, AllocateGood
    <2> HIDE DEF w, t
    <2> QED BY <2>1, <2>2, <2>3, GiveOutcome
  <1>2. CASE allocate_min_fd(a)
    <2> DEFINE w == allocated_min(Table(a), call[a].to)
               t == allocate_min(Table(a), call[a].to, e)
    <2>1. call[a].pc = "allocmin" /\ Give(a, t) /\ UNCHANGED <<World, files>> /\ \E v \in Fds : v >= call[a].to /\ ~Has(Table(a), v)
      BY <1>2 DEF allocate_min_fd, At, Made
    <2>2. w \in Fds /\ ~Has(Table(a), w) /\ t = allocate_at(Table(a), w, e)
      BY <1>0, <2>1, AllocateMinGood
    <2>3. t.entries = [x \in DOMAIN Table(a).entries \cup {w} |-> IF x = w THEN e ELSE Table(a).entries[x]]
      BY <1>0, <2>2, AllocateAtGood
    <2> HIDE DEF w, t
    <2> QED BY <2>1, <2>2, <2>3, GiveOutcome
  <1> QED BY <1>1, <1>2

\* The two ends of a pipe are entered one after the other.
LEMMA PipeResultOutcome ==
    ASSUME RightInv, NEW a \in Threads, pipe_result(a)
    PROVE  Outcome(a)
PROOF
  <1> DEFINE c == call[a]
             T == Table(a).entries
             t1 == allocate(Table(a), c.e)
             t2 == allocate(t1, c.old)
             v == allocated(Table(a))
             w == allocated(t1)
             S == DOMAIN t2.entries \ DOMAIN T
             c1 == [Idle EXCEPT !.pc = "alloc", !.e = c.old, !.k = c.old.k]
             C1 == [call EXCEPT ![a] = c1]
             D == [call EXCEPT ![a] = Idle]
  <1>1. c.pc = "pipe" /\ CanAllocate(Table(a)) /\ CanAllocate(t1) /\ Give(a, t2) /\ UNCHANGED <<World, files>>
    BY DEF pipe_result, At
  <1>2. Good(Table(a)) /\ SetKernel(a, Kernel(a)) /\ Kernel(a) = [k \in Fds |-> Kernel(a)[k]]
    BY <1>1, Same DEF RightInv, SetKernel
  <1>3. /\ v \in Fds /\ v \notin DOMAIN T /\ Good(t1)
        /\ t1.entries = [x \in DOMAIN T \cup {v} |-> IF x = v THEN c.e ELSE T[x]]
    BY <1>1, <1>2, AllocatedFree, AllocateGood DEF Has
  <1> HIDE DEF t1
  <1>4. /\ w \in Fds /\ w \notin DOMAIN t1.entries
        /\ t2.entries = [x \in DOMAIN t1.entries \cup {w} |-> IF x = w THEN c.old ELSE t1.entries[x]]
    BY <1>1, <1>3, AllocatedFree, AllocateGood DEF Has
  <1>5. Turn(a, Idle, {}, S) /\ (~rude' => ~Copying(a))
    BY <1>1, GiveTurn
  <1>6. call = [x \in Threads |-> call[x]]
    BY DEF RightInv, LowestInv, CallsInv
  <1> HIDE DEF v, w, t2
  <1>7. v \in S /\ w \in S
    BY <1>3, <1>4
  <1>8. ASSUME ~rude' PROVE Right(t2.entries, Kernel(a), D, Mates(a))
    <2>1. ~rude /\ RightHere(a) /\ a \in Mates(a) /\ CallOK(c, T, Kernel(a)) /\ Mates(a) \subseteq Threads
      BY <1>1, <1>5, <1>8, Underway DEF Turn, Mates, On
    <2>2. /\ Fits(c.e) /\ c.e.kind = "pass" /\ Kernel(a)[c.e.k] = c.e.desc
          /\ Fits(c.old) /\ c.old.kind = "pass" /\ Kernel(a)[c.old.k] = c.old.desc
          /\ c.e.k # c.old.k /\ Keeps(c) = {c.e.k, c.old.k}
      BY <1>1, <2>1 DEF CallOK, Keeps
    <2>3. /\ c1.pc = "alloc" /\ c1.e = c.old /\ c1.k = c.old.k /\ c1.fd = None /\ c1.to = None /\ c1.next = "idle"
      BY DEF Idle
    <2>4. /\ C1[a] = c1 /\ \A b \in Mates(a) : b # a => C1[b] = call[b]
          /\ D[a] = Idle /\ \A b \in Mates(a) : b # a => D[b] = C1[b]
      BY <1>6, <2>1
    <2> HIDE DEF c1, C1, D
    <2>5. Keeps(c1) = {c.old.k} /\ Touches(c1) = {} /\ Replaces(c1) = {}
      BY <2>2, <2>3 DEF Keeps, Touches, Replaces, Makes
    <2>6. CallOK(c1, t1.entries, Kernel(a))
      BY <2>2, <2>3 DEF CallOK, Makes, Installing, Fits
    <2>7. \A b \in Mates(a) : b # a => v \notin Touches(call[b]) /\ w \notin Touches(call[b])
      BY <1>5, <1>7, <1>8 DEF Turn
    <2>8. Right(T, Kernel(a), call, Mates(a))
      BY <2>1 DEF RightHere
    <2>9. /\ \A x : x # v => (x \in DOMAIN t1.entries <=> x \in DOMAIN T) /\ (x \in DOMAIN T => t1.entries[x] = T[x])
          /\ v \in DOMAIN t1.entries /\ t1.entries[v] = c.e
      BY <1>3
    <2>10. Right(t1.entries, Kernel(a), C1, Mates(a))
      <3>1. call[a].pc # "install" /\ C1[a].pc # "install"
        BY <1>1, <2>3, <2>4
      <3>2. t1.entries[v].k \in Keeps(call[a]) /\ t1.entries[v].k \notin Keeps(C1[a])
        BY <2>2, <2>4, <2>5, <2>9
      <3>3. \A k \in Keeps(C1[a]) : k \in Keeps(call[a])
        BY <2>2, <2>4, <2>5
      <3>4. Avoids(a, C1[a], call, Mates(a))
        BY <2>4, <2>5 DEF Avoids
      <3> QED BY <1>3, <2>1, <2>2, <2>4, <2>5, <2>6, <2>7, <2>8, <2>9, <3>1, <3>2, <3>3, <3>4, TableStep
    <2>11. /\ \A x : x # w => /\ x \in DOMAIN t2.entries <=> x \in DOMAIN t1.entries
                              /\ x \in DOMAIN t1.entries => t2.entries[x] = t1.entries[x]
           /\ w \in DOMAIN t2.entries /\ t2.entries[w] = c.old
      BY <1>4
    <2>12. C1[a].pc # "install" /\ D[a].pc # "install"
      BY <2>3, <2>4, IdleOK
    <2>13. \A b \in Mates(a) : b # a => w \notin Touches(C1[b])
      BY <2>4, <2>7
    <2>14. /\ t2.entries[w].k \in Keeps(C1[a]) /\ Keeps(D[a]) = {} /\ Avoids(a, D[a], C1, Mates(a))
           /\ CallOK(D[a], t2.entries, Kernel(a))
      BY <2>4, <2>5, <2>11, IdleOK DEF Avoids
    <2> QED BY <1>4, <2>1, <2>2, <2>4, <2>10, <2>11, <2>12, <2>13, <2>14, TableStep
  <1>9. SetTable(a, t2)
    BY <1>1 DEF Give
  <1> QED BY <1>1, <1>2, <1>5, <1>8, <1>9 DEF Turn, Outcome

\* dup2 closes the file it replaces: until the new entry is there, nobody uses
\* the old one.
LEMMA CloseOldOutcome ==
    ASSUME RightInv, NEW a \in Threads, close_old(a)
    PROVE  Outcome(a)
PROOF
  <1> DEFINE c == call[a]
             T == Table(a).entries
             go == [c EXCEPT !.pc = "install"]
             fl == [c EXCEPT !.pc = "flush", !.o = c.old.o, !.next = "install"]
  <1>1. c.pc = "closeold" /\ UNCHANGED <<World, tables>>
    BY DEF close_old, At
  <1>2. Sound(c) /\ (~rude => RightHere(a) /\ a \in Mates(a) /\ CallOK(c, T, Kernel(a)))
    BY <1>1, Underway
  <1>3. ShapedCall(c)
    BY <1>2 DEF Sound
  <1>4. /\ go.pc = "install" /\ go.fd = c.fd /\ go.to = c.to /\ go.e = c.e /\ go.k = c.k /\ go.next = c.next
        /\ fl.pc = "flush" /\ fl.fd = c.fd /\ fl.to = c.to /\ fl.e = c.e /\ fl.k = c.k /\ fl.next = "install"
        /\ go.old = c.old /\ fl.old = c.old /\ go.t = c.t /\ fl.t = c.t
    BY <1>3 DEF ShapedCall
  <1>5. /\ Goto(a, go) \/ Goto(a, fl) \/ Goto(a, Idle)
        /\ \/ UNCHANGED files
           \/ c.old.kind = "pass" /\ Goto(a, go) /\ SetKernel(a, [Kernel(a) EXCEPT ![c.old.k] = Closed])
    BY DEF close_old
  <1> HIDE DEF go, fl
  <1>6. Keeps(go) = Keeps(c) /\ Keeps(fl) = Keeps(c)
    BY <1>1, <1>4 DEF Keeps, Makes, Installing
  <1>7. ASSUME ~rude
        PROVE  /\ Covers(go, Touches(c), Replaces(c)) /\ Covers(fl, Touches(c), Replaces(c))
               /\ Replaces(c) = {c.to}
    <2>1. c.next \in {"closeold", "install"}
      BY <1>1, <1>2, <1>7 DEF CallOK, Installing
    <2> QED BY <1>1, <1>4, <2>1 DEF Covers, Touches, Replaces
  <1>8. ASSUME NEW L, CallOK(c, T, L) PROVE CallOK(go, T, L) /\ CallOK(fl, T, L)
    <2>1. Installing(c) /\ Makes(c)
      BY <1>1 DEF Installing, Makes
    <2>2. /\ c.next \in {"closeold", "install"} /\ c.to \in Fds /\ ShapedEntry(c.e) /\ c.e.kind \in {"pass", "virt"}
          /\ c.old = EntryAt(T, c.to)
          /\ c.e.kind = "pass" => c.k \in Fds /\ L[c.k] = c.e.desc /\ c.e.desc # Closed
      BY <1>8, <2>1 DEF CallOK
    <2>3. CallOK(go, T, L)
      BY <1>4, <2>2 DEF CallOK, Makes, Installing
    <2>4. CallOK(fl, T, L)
      BY <1>4, <2>2 DEF CallOK, Makes, Installing
    <2> QED BY <2>3, <2>4
  <1>9. ASSUME UNCHANGED files, NEW d \in {go, fl}, Goto(a, d) PROVE Outcome(a)
    <2>1. Turn(a, d, Touches(c), Replaces(c))
      BY <1>1, <1>4, <1>9, GotoTurn DEF Goto
    <2>2. call[a].pc # "install"
      BY <1>1
    <2> QED BY <1>1, <1>2, <1>6, <1>7, <1>8, <1>9, <2>1, <2>2, Changing1
  <1>10. ASSUME UNCHANGED files, Goto(a, Idle) PROVE Outcome(a)
    BY <1>1, <1>10, EndOutcome
  <1>11. ASSUME c.old.kind = "pass", Goto(a, go), SetKernel(a, [Kernel(a) EXCEPT ![c.old.k] = Closed])
         PROVE  Outcome(a)
    <2> DEFINE L == [Kernel(a) EXCEPT ![c.old.k] = Closed]
               D == [call EXCEPT ![a] = go]
    <2>1. Turn(a, go, Touches(c), Replaces(c))
      BY <1>1, <1>4, <1>11, GotoTurn DEF Goto
    <2>2. SetTable(a, Table(a)) /\ Kernel(a) = [x \in Fds |-> Kernel(a)[x]]
      BY <1>1, Same DEF RightInv, SetTable
    <2>3. L = [x \in Fds |-> L[x]] /\ \A x \in Fds : x # c.old.k => L[x] = Kernel(a)[x]
      BY <2>2
    <2>4. SetKernel(a, L)
      BY <1>11
    <2> HIDE DEF L
    <2>5. ASSUME ~rude' PROVE Right(T, L, D, Mates(a))
      <3>1. ~rude /\ RightHere(a) /\ a \in Mates(a) /\ CallOK(c, T, Kernel(a)) /\ Mates(a) \subseteq Threads
        BY <1>2, <2>1, <2>5 DEF Turn, Mates, On
      <3>2. Right(T, Kernel(a), call, Mates(a)) /\ call = [x \in Threads |-> call[x]]
        BY <3>1 DEF RightHere, RightInv, LowestInv, CallsInv
      <3>3. D[a] = go /\ \A b \in Mates(a) : b # a => D[b] = call[b]
        BY <3>1, <3>2
      <3> HIDE DEF D
      <3>4. c.to \in Fds /\ c.old = EntryAt(T, c.to) /\ c.next \in {"closeold", "install"}
        BY <1>1, <3>1 DEF CallOK, Installing
      <3>5. c.to \in DOMAIN T /\ T[c.to] = c.old
        BY <1>11, <3>4 DEF EntryAt, NoEntry
      <3>6. c.to \in Touches(c)
        BY <1>7, <3>1 DEF Touches
      <3>7. c.to \in Firm(T, call, Mates(a)) /\ c.old.k \in Fds
        BY <1>1, <1>11, <3>1, <3>2, <3>5, <3>6, FirmEntry
      <3>8. Firm(T, D, Mates(a)) \subseteq Firm(T, call, Mates(a)) /\ c.to \notin Firm(T, D, Mates(a))
        BY <1>1, <1>4, <3>1, <3>3 DEF Firm
      <3>9. \A b \in Mates(a) : c.old.k \notin Keeps(call[b])
        BY <3>2, <3>5, <3>7 DEF Right
      <3>10. ASSUME NEW b \in Mates(a), NEW k \in Keeps(call[b]) PROVE L[k] = Kernel(a)[k]
        <4>1. k \in Fds
          BY <3>2, KeepsOpen DEF Right
        <4> QED BY <2>3, <3>9, <4>1
      <3>11. CallOK(go, T, L)
        <4>1. CallOK(c, T, L)
          BY <3>1, <3>10, OtherKernel
        <4> QED BY <1>8, <4>1
      <3>12. ASSUME NEW v \in Firm(T, D, Mates(a)) PROVE L[T[v].k] = Kernel(a)[T[v].k] /\ T[v].k \notin Keeps(D[a])
        <4>1. v \in Firm(T, call, Mates(a)) /\ v # c.to
          BY <3>8
        <4>2. T[v].k # c.old.k
          BY <3>2, <3>5, <3>7, <4>1 DEF Right
        <4>3. T[v].k \in Fds
          BY <3>2, <4>1 DEF Right, Firm, Fits
        <4>4. T[v].k \notin Keeps(c)
          BY <3>1, <3>2, <4>1 DEF Right
        <4> QED BY <1>6, <2>3, <3>3, <4>2, <4>3, <4>4
      <3>13. ASSUME NEW b \in Mates(a), b # a
             PROVE  \A k \in Keeps(call[b]) : L[k] = Kernel(a)[k] /\ k \notin Keeps(D[a])
        <4>1. Keeps(call[a]) \cap Keeps(call[b]) = {}
          BY <3>1, <3>2, <3>13 DEF Right
        <4> QED BY <1>6, <3>1, <3>3, <3>10, <4>1
      <3>14. Avoids(a, D[a], call, Mates(a))
        BY <1>7, <2>1, <2>5, <3>1, <3>3, TurnAvoids
      <3> QED BY <1>1, <3>1, <3>2, <3>3, <3>11, <3>12, <3>13, <3>14, KernelStep
    <2> QED BY <1>1, <2>1, <2>2, <2>3, <2>4, <2>5 DEF Turn, Outcome
  <1> QED BY <1>5, <1>9, <1>10, <1>11

LEMMA InstallOutcome ==
    ASSUME RightInv, NEW a \in Threads, install(a)
    PROVE  Outcome(a)
PROOF
  <1> DEFINE c == call[a]
             T == Table(a).entries
             e == IF c.e.kind = "pass" THEN Made(c) ELSE c.e
             t == allocate_at(Table(a), c.to, e)
  <1>1. /\ c.pc = "install" /\ SetTable(a, t) /\ UNCHANGED <<World, files>>
        /\ call' = [call EXCEPT ![a] = Idle] /\ rude' = (rude \/ Copying(a))
    BY DEF install, At, Made
  <1>2. Sound(c) /\ (~rude => RightHere(a) /\ a \in Mates(a) /\ CallOK(c, T, Kernel(a)))
    BY <1>1, Underway
  <1>3. c.to \in Fds
    BY <1>1, <1>2 DEF Sound, Installs
  <1>4. t.entries = [x \in DOMAIN T \cup {c.to} |-> IF x = c.to THEN e ELSE T[x]]
    BY <1>3, Same, AllocateAtGood DEF RightInv
  <1>5. Turn(a, Idle, Touches(c), Replaces(c))
    BY <1>1, GotoTurn, IdleOK
  <1>6. ASSUME ~rude
        PROVE  Fits(e) /\ (e.kind = "pass" => e.k \in Keeps(c) /\ Kernel(a)[e.k] = e.desc) /\ c.to \in Replaces(c)
    <2>1. CallOK(c, T, Kernel(a)) /\ Installing(c) /\ Makes(c)
      BY <1>1, <1>2, <1>6 DEF Installing, Makes
    <2>2. c.to \in Replaces(c)
      BY <2>1 DEF CallOK, Replaces
    <2>3. CASE c.e.kind = "pass"
      BY <1>1, <2>1, <2>2, <2>3, GivenEntry
    <2>4. CASE c.e.kind # "pass"
      BY <2>1, <2>2, <2>4 DEF CallOK, Fits
    <2> QED BY <2>3, <2>4
  <1> HIDE DEF t, e
  <1>7. c.to \in DOMAIN t.entries /\ t.entries[c.to] = e
    BY <1>4
  <1>8. \A v : v # c.to => /\ v \in DOMAIN t.entries <=> v \in DOMAIN T
                           /\ v \in DOMAIN T => t.entries[v] = T[v]
    BY <1>4
  <1> QED BY <1>1, <1>3, <1>5, <1>6, <1>7, <1>8, IdleOK, Tabling

LEMMA CloseKernelOutcome ==
    ASSUME RightInv, NEW a \in Threads, close_kernel_fd(a)
    PROVE  Outcome(a)
PROOF
  <1> DEFINE c == call[a]
             T == Table(a).entries
             L == [Kernel(a) EXCEPT ![c.k] = Closed]
             D == [call EXCEPT ![a] = Idle]
  <1>1. c.pc = "kclose" /\ SetKernel(a, L) /\ Goto(a, Idle) /\ UNCHANGED <<World, tables>>
    BY DEF close_kernel_fd, At
  <1>2. Turn(a, Idle, Touches(c), Replaces(c))
    BY <1>1, GotoTurn, IdleOK DEF Goto
  <1>3. SetTable(a, Table(a)) /\ Kernel(a) = [x \in Fds |-> Kernel(a)[x]]
    BY <1>1, Same DEF RightInv, SetTable
  <1>4. L = [x \in Fds |-> L[x]] /\ \A x \in Fds : x # c.k => L[x] = Kernel(a)[x]
    BY <1>3
  <1> HIDE DEF L
  <1>5. ASSUME ~rude' PROVE Right(T, L, D, Mates(a))
    <2>1. ~rude /\ RightHere(a) /\ a \in Mates(a) /\ Mates(a) \subseteq Threads
      BY <1>1, <1>2, <1>5, Underway DEF Turn, Mates, On
    <2>2. Right(T, Kernel(a), call, Mates(a)) /\ call = [x \in Threads |-> call[x]]
      BY <2>1 DEF RightHere, RightInv, LowestInv, CallsInv
    <2>3. D[a] = Idle /\ \A b \in Mates(a) : b # a => D[b] = call[b]
      BY <2>1, <2>2
    <2> HIDE DEF D
    <2>4. c.k \in Keeps(c)
      BY <1>1 DEF Keeps
    <2>5. ASSUME NEW b \in Mates(a), b # a
          PROVE  \A k \in Keeps(call[b]) : L[k] = Kernel(a)[k] /\ k \notin Keeps(D[a])
      <3>1. c.k \notin Keeps(call[b])
        BY <2>1, <2>2, <2>4, <2>5 DEF Right
      <3>2. \A k \in Keeps(call[b]) : k \in Fds
        BY <2>2, KeepsOpen DEF Right
      <3> QED BY <1>4, <2>3, <3>1, <3>2, IdleOK
    <2>6. ASSUME NEW v \in Firm(T, D, Mates(a)) PROVE L[T[v].k] = Kernel(a)[T[v].k] /\ T[v].k \notin Keeps(D[a])
      <3>1. v \in Firm(T, call, Mates(a))
        BY <1>1, <2>3 DEF Firm
      <3>2. T[v].k \in Fds /\ T[v].k # c.k
        BY <2>1, <2>2, <2>4, <3>1 DEF Right, Firm, Fits
      <3> QED BY <1>4, <2>3, <3>2, IdleOK
    <2>7. CallOK(D[a], T, L) /\ Avoids(a, D[a], call, Mates(a)) /\ call[a].pc # "install"
      BY <1>1, <2>3, IdleOK DEF Avoids
    <2> QED BY <2>1, <2>2, <2>3, <2>5, <2>6, <2>7, KernelStep
  <1> QED BY <1>1, <1>2, <1>3, <1>4, <1>5 DEF Turn, Outcome

\* A flush, of close or of dup2, goes from step to step, or fails and is given up.
LEMMA FlushOutcome ==
    ASSUME RightInv, TypeInv, NEW a \in Threads, fsync(a) \/ fsync_pwrite(a) \/ fsync_truncate(a)
    PROVE  Outcome(a)
PROOF
  <1> DEFINE c == call[a]
             T == Table(a).entries
  <1>1. c.pc \in {"flush", "pwrite", "truncate"} /\ UNCHANGED <<World, tables, files>>
    BY DEF fsync, fsync_pwrite, fsync_truncate, At
  <1>2. Sound(c) /\ (~rude => CallOK(c, T, Kernel(a)))
    BY <1>1, Underway
  <1>3. rude' = rude
    <2>1. ASSUME NEW d, Goto(a, d) PROVE rude' = rude
      BY <2>1 DEF Goto
    <2>2. Abandon(a) \/ Fail(a) => rude' = rude
      BY <2>1 DEF Abandon, Fail
    <2> QED BY <2>1, <2>2 DEF fsync, fsync_pwrite, fsync_truncate
  <1>4. ASSUME NEW d, Becomes(a, d), d.pc \in {c.next, "pwrite", "truncate"},
               d.to = c.to, d.e = c.e, d.old = c.old, d.k = c.k, d.next = c.next, d.t = c.t
        PROVE  Outcome(a)
    <2>1. ASSUME ~rude PROVE c.next \in {"idle", "install"}
      BY <1>1, <1>2, <2>1 DEF CallOK
    <2>2. Turn(a, d, Touches(c), Replaces(c))
      BY <1>1, <1>3, <1>4, <2>1, GotoTurn DEF Becomes
    <2>3. ASSUME ~rude PROVE Covers(d, Touches(c), Replaces(c)) /\ Keeps(d) \subseteq Keeps(c)
      <3>1. d.pc \in {"idle", "install", "pwrite", "truncate"} /\ Replaces(d) = Replaces(c)
        BY <1>4, <2>1, <2>3 DEF Replaces
      <3>2. Touches(d) = Replaces(c)
        BY <3>1 DEF Touches
      <3>3. Keeps(d) \subseteq Keeps(c)
        BY <1>1, <1>4, <2>1, <2>3 DEF Keeps, Makes, Installing
      <3> QED BY <3>1, <3>2, <3>3 DEF Covers
    <2>4. ASSUME ~rude PROVE CallOK(d, T, Kernel(a))
      <3>1. CASE c.next = "install"
        <4>1. /\ Installing(c) /\ Makes(c) /\ c.to \in Fds /\ ShapedEntry(c.e) /\ c.e.kind \in {"pass", "virt"}
              /\ c.e.kind = "pass" => c.k \in Fds /\ Kernel(a)[c.k] = c.e.desc /\ c.e.desc # Closed
              /\ c.old = EntryAt(T, c.to)
          BY <1>1, <1>2, <2>4, <3>1 DEF CallOK, Installing, Makes
        <4>2. d.pc \in {"install", "pwrite", "truncate"} /\ d.next = "install"
          BY <1>4, <3>1
        <4> QED BY <1>4, <4>1, <4>2 DEF CallOK, Makes, Installing
      <3>2. CASE c.next # "install"
        <4>1. d.pc \in {"idle", "pwrite", "truncate"} /\ d.next = "idle"
          BY <1>4, <2>1, <2>4, <3>2
        <4> QED BY <1>4, <4>1 DEF CallOK, Makes, Installing
      <3> QED BY <3>1, <3>2
    <2>5. call[a].pc # "install"
      BY <1>1
    <2> QED BY <1>1, <2>2, <2>3, <2>4, <2>5, Changing1
  <1>5. LowestInv
    BY DEF RightInv
  <1>6. Becomes(a, Settled(c)) => Outcome(a)
    BY <1>2, <1>4, FlushFields
  <1>7. Becomes(a, Overwriting(c)) => Outcome(a)
    BY <1>2, <1>4, FlushFields
  <1>8. ASSUME NEW s, NEW i, Becomes(a, WritingOut(c, s, i)) PROVE Outcome(a)
    BY <1>2, <1>4, <1>8, FlushFields
  <1>9. CASE fsync(a)
    <2>1. Becomes(a, Settled(c)) \/ \E i : Becomes(a, WritingOut(c, ops[c.o].data, i))
      BY <1>5, <1>9, FsyncCases
    <2> QED BY <1>6, <1>8, <2>1
  <1>10. CASE fsync_pwrite(a) \/ fsync_truncate(a)
    <2>1. Becomes(a, Settled(c)) \/ Becomes(a, Overwriting(c))
      BY <1>5, <1>10, StoreCases
    <2> QED BY <1>6, <1>7, <2>1
  <1> QED BY <1>9, <1>10

LEMMA ResumeOutcome ==
    ASSUME RightInv, TypeInv, NEW a \in Threads, Resume(a), ~insert_fd_table(a)
    PROVE  Outcome(a)
PROOF
  <1>1. CASE inject(a)
    BY <1>1, EndOutcome DEF inject, At
  <1>2. CASE open_result(a) \/ allocate_fd(a) \/ allocate_min_fd(a) \/ pipe_result(a) \/ Duplicate(a)
    BY <1>2, OpenResultOutcome, AllocateOutcome, PipeResultOutcome, DuplicateOutcome
  <1>3. CASE close_old(a) \/ install(a) \/ close_kernel_fd(a) \/ fsync(a) \/ fsync_pwrite(a) \/ fsync_truncate(a)
    BY <1>3, CloseOldOutcome, InstallOutcome, CloseKernelOutcome, FlushOutcome
  <1> QED BY <1>1, <1>2, <1>3 DEF Resume


-----------------------------------------------------------------------------
(* Processes: between the kernel's fork and the tracer's the child has the *)
(* kernel descriptors but no table.                                        *)

\* Calls that rely on nothing.
AtRest(c) == c.pc = "idle" /\ c.next = "idle"

LEMMA RestOK ==
    ASSUME NEW c, AtRest(c), NEW T, NEW K
    PROVE  CallOK(c, T, K) /\ Keeps(c) = {} /\ Touches(c) = {} /\ Replaces(c) = {}
BY DEF AtRest, CallOK, Keeps, Touches, Replaces, Makes, Installing

LEMMA MirrorsRight ==
    ASSUME NEW T, NEW K, \A v \in DOMAIN T : v \in Fds /\ Fits(T[v]), Mirrors(T, K),
           NEW D, NEW B, \A b \in B : AtRest(D[b])
    PROVE  Right(T, K, D, B)
PROOF
  <1>1. \A v \in Firm(T, D, B) : v \in DOMAIN T /\ T[v].kind = "pass"
    BY DEF Firm
  <1>2. \A v \in Firm(T, D, B) : K[T[v].k] = T[v].desc
    BY <1>1 DEF Mirrors
  <1>3. \A v, w \in Firm(T, D, B) : T[v].k = T[w].k => v = w
    BY <1>1 DEF Mirrors
  <1>4. \A b \in B : CallOK(D[b], T, K) /\ Keeps(D[b]) = {} /\ Touches(D[b]) = {}
    BY RestOK
  <1> QED BY <1>2, <1>3, <1>4 DEF Right

\* More threads share the table, none of them in a call.
LEMMA MoreAtRest ==
    ASSUME NEW T, NEW K, NEW D, NEW A, NEW B, Right(T, K, D, A), A \subseteq B, \A b \in B \ A : AtRest(D[b])
    PROVE  Right(T, K, D, B)
PROOF
  <1>1. Firm(T, D, B) \subseteq Firm(T, D, A)
    BY DEF Firm
  <1>2. \A b \in B \ A : CallOK(D[b], T, K) /\ Keeps(D[b]) = {} /\ Touches(D[b]) = {} /\ Replaces(D[b]) = {}
    BY RestOK
  <1>3. \A v \in DOMAIN T : v \in Fds /\ Fits(T[v])
    BY DEF Right
  <1>4. \A v \in Firm(T, D, B) : K[T[v].k] = T[v].desc
    BY <1>1 DEF Right
  <1>5. \A v, w \in Firm(T, D, B) : T[v].k = T[w].k => v = w
    BY <1>1 DEF Right
  <1>6. \A b \in B : CallOK(D[b], T, K)
    BY <1>2 DEF Right
  <1>7. ASSUME NEW b \in B, NEW v \in Firm(T, D, B) PROVE T[v].k \notin Keeps(D[b])
    BY <1>1, <1>2 DEF Right
  <1>8. ASSUME NEW b \in B, NEW e \in B, b # e
        PROVE  Keeps(D[b]) \cap Keeps(D[e]) = {} /\ Touches(D[b]) \cap Replaces(D[e]) = {}
    <2>1. CASE b \in A /\ e \in A
      BY <1>8, <2>1 DEF Right
    <2>2. CASE ~(b \in A /\ e \in A)
      BY <1>2, <2>2
    <2> QED BY <2>1, <2>2
  <1> QED BY <1>3, <1>4, <1>5, <1>6, <1>7, <1>8 DEF Right

\* One element more.
LEMMA Appended ==
    ASSUME NEW s, IsSeq(s), NEW x
    PROVE  /\ IsSeq(Append(s, x)) /\ Len(Append(s, x)) = Len(s) + 1 /\ Len(s) \in Nat
           /\ Append(s, x)[Len(s) + 1] = x
           /\ \A m \in 1 .. Len(s) : Append(s, x)[m] = s[m]
PROOF
  <1>1. PICK S : s \in Seq(S)
    BY DEF IsSeq
  <1>2. s \in Seq(S \cup {x}) /\ Len(s) \in Nat
    BY <1>1
  <1>3. Append(s, x) \in Seq(S \cup {x})
    BY <1>2
  <1> QED BY <1>2, <1>3 DEF IsSeq

\* The kernel's fork; the call that will copy the table relies on nothing.
LEMMA SpawnRight ==
    ASSUME RightInv, LowestInv', NEW a \in Threads, NEW fs \in BOOLEAN, NEW then \in {"share", "copy", "wait"}, Ready(a),
           Spawn(a, fs, then)
    PROVE  RightInv'
PROOF
  <1> DEFINE c == [Idle EXCEPT !.pc = "inherit", !.next = then]
  <1>1. /\ c.pc = "inherit" /\ c.next = then /\ c.t = 0
        /\ ProcOf[a] = First /\ ProcOf[a] \in known \cap Living /\ call[a].pc = "idle" /\ life[Child] = "none"
        /\ call' = [call EXCEPT ![a] = c] /\ UNCHANGED <<known, tableOf, tables>>
        /\ life' = [life EXCEPT ![Child] = "running"]
    BY DEF Spawn, Start, Ready, CanCall, Idle
  <1>2. /\ rude' = (rude \/ fs # (then = "share") \/ \E b \in Others(a) : call[b].pc = "install")
        /\ files' = IF fs THEN files ELSE Append(files, Kernel(a))
        /\ filesOf' = [filesOf EXCEPT ![Child] = IF fs THEN filesOf[First] ELSE Len(files')]
    BY DEF Spawn
  <1> HIDE DEF c
  <1>3. \A b \in Threads : call'[b] = IF b = a THEN c ELSE call[b]
    BY <1>1 DEF RightInv, LowestInv, CallsInv
  <1>4. First \in Procs /\ Child \in Procs /\ Child # First
    BY SandboxAssumption
  <1>5. /\ IsSeq(files) /\ filesOf \in [Procs -> 1 .. Len(files)] /\ known \subseteq {First, Child} /\ First \in known
        /\ \A n \in 1 .. Len(files) : files[n] = [k \in Fds |-> files[n][k]]
        /\ life \in [Procs -> {"none", "running", "execed", "exited"}]
    BY DEF RightInv, KernelInv
  <1>6. filesOf[First] \in 1 .. Len(files) /\ Kernel(a) = files[filesOf[First]]
    BY <1>1, <1>4, <1>5 DEF Kernel
  <1>7. /\ IsSeq(files') /\ Len(files) \in Nat
        /\ Len(files') = IF fs THEN Len(files) ELSE Len(files) + 1
        /\ \A m \in 1 .. Len(files) : files'[m] = files[m]
        /\ ~fs => files'[Len(files) + 1] = Kernel(a)
    BY <1>2, <1>5, Appended
  <1>8. /\ filesOf' \in [Procs -> 1 .. Len(files')] /\ filesOf'[First] = filesOf[First]
        /\ filesOf'[Child] = IF fs THEN filesOf[First] ELSE Len(files')
    BY <1>2, <1>4, <1>5, <1>6, <1>7
  <1>9. /\ life' \in [Procs -> {"none", "running", "execed", "exited"}] /\ life'[Child] = "running"
        /\ \A p \in Procs : p # Child => life'[p] = life[p]
    BY <1>1, <1>4, <1>5
  <1>10. KernelInv'
    <2>1. \A m \in 1 .. Len(files') : files'[m] = [k \in Fds |-> files'[m][k]]
      <3> SUFFICES ASSUME NEW m \in 1 .. Len(files') PROVE files'[m] = [k \in Fds |-> files'[m][k]]
        OBVIOUS
      <3>1. CASE m \in 1 .. Len(files)
        BY <1>5, <1>7, <3>1
      <3>2. CASE m \notin 1 .. Len(files)
        <4>1. ~fs /\ m = Len(files) + 1
          BY <1>7, <3>2
        <4> QED BY <1>5, <1>6, <1>7, <4>1
      <3> QED BY <3>1, <3>2
    <2>2. \A b \in Threads : ProcOf[b] \notin known => call'[b] = Idle
      BY <1>1, <1>3 DEF RightInv, KernelInv
    <2>3. \A p \in Procs \ {First, Child} : life'[p] = "none"
      BY <1>9 DEF RightInv, KernelInv
    <2> QED BY <1>1, <1>5, <1>7, <1>8, <1>9, <2>1, <2>2, <2>3 DEF KernelInv
  <1>11. ASSUME ~rude' PROVE CallsHere' /\ ForkInv' /\ FilesInv'
    <2>1. ~rude /\ fs = (then = "share") /\ ForkInv /\ FilesInv /\ CallsHere
      BY <1>2, <1>11 DEF RightInv
    <2>2. /\ Len(files) = Len(tables) /\ Child \notin known /\ filesOf[First] = tableOf[First]
          /\ \A b \in Threads : call[b].pc # "inherit" /\ tableOf[Child] = tableOf[First]
      BY <1>1, <1>5, <2>1 DEF ForkInv
    <2>3. CallsHere'
      <3>1. Living \subseteq Living'
        BY <1>1, <1>9 DEF Living
      <3> QED BY <1>1, <1>3, <2>1, <3>1 DEF CallsHere
    <2>4. Mirrors(tables[tableOf[First]].entries, Kernel(a))
      <3>1. a \in Mates(a) /\ RightHere(a) /\ Ix(a) = tableOf[First]
        BY <1>1, <2>1, Here
      <3>2. \A b \in Mates(a) : call[b].pc # "install"
        <4> SUFFICES ASSUME NEW b \in Mates(a), call[b].pc = "install" PROVE FALSE
          OBVIOUS
        <4>1. b \in Others(a)
          BY <1>1 DEF Others, Mates, On
        <4> QED BY <1>2, <1>11, <4>1
      <3>3. \A v \in DOMAIN Table(a).entries : Table(a).entries[v].kind = "pass" => v \in Firm(Table(a).entries, call, Mates(a))
        BY <3>2 DEF Firm
      <3>4. Mirrors(Table(a).entries, Kernel(a))
        BY <3>1, <3>3 DEF RightHere, Right, Mirrors
      <3> QED BY <3>1, <3>4 DEF Table
    <2>5. ForkInv'
      <3>1. \A p \in known : filesOf'[p] = tableOf[p]
        BY <1>5, <1>8, <2>2
      <3>2. Len(tables) <= Len(files') /\ tableOf[Child] = tableOf[First]
        BY <1>1, <1>7, <2>1, <2>2 DEF ForkInv
      <3>3. \A b \in Threads : call'[b].pc = "inherit" <=> b = a
        BY <1>1, <1>3, <2>2
      <3>4. call'[a].next = "share" <=> fs
        BY <1>1, <1>3, <2>1
      <3>5. fs => filesOf'[Child] = filesOf'[First] /\ Len(files') = Len(tables)
        BY <1>7, <1>8, <2>2
      <3>6. ~fs => /\ Len(files') = Len(tables) + 1 /\ filesOf'[Child] = Len(files')
                   /\ files'[filesOf'[Child]] = Kernel(a)
        BY <1>7, <1>8, <2>2
      <3> QED BY <1>1, <1>9, <2>2, <2>4, <3>1, <3>2, <3>3, <3>4, <3>5, <3>6 DEF ForkInv
    <2>6. ASSUME NEW m \in 1 .. Len(tables) PROVE Right(tables[m].entries, files'[m], call', On(m))
      <3>1. files'[m] = files[m] /\ Right(tables[m].entries, files[m], call, On(m))
        BY <1>7, <2>1, <2>2 DEF FilesInv
      <3>2. CASE a \in On(m)
        <4>1. CallOK(c, tables[m].entries, files[m]) /\ Keeps(c) = {} /\ Touches(c) = {} /\ Replaces(c) = {}
          BY <1>1 DEF CallOK, Keeps, Touches, Replaces, Makes, Installing
        <4>2. call'[a] = c /\ \A b \in On(m) : b # a => call'[b] = call[b]
          BY <1>3 DEF On
        <4>3. call[a].pc # "install" /\ Avoids(a, call'[a], call, On(m))
          BY <1>1, <4>1, <4>2 DEF Avoids
        <4>4. Right(tables[m].entries, files[m], call', On(m))
          BY <3>1, <3>2, <4>1, <4>2, <4>3, Opens
        <4> QED BY <3>1, <4>4
      <3>3. CASE a \notin On(m)
        <4>1. \A b \in On(m) : call'[b] = call[b]
          BY <1>3, <3>3 DEF On
        <4> QED BY <3>1, <4>1, OtherTable
      <3> QED BY <3>2, <3>3
    <2>7. FilesInv'
      <3>1. \A m : On(m)' = On(m)
        BY <1>1 DEF On
      <3> QED BY <1>1, <2>6, <3>1 DEF FilesInv
    <2> QED BY <2>3, <2>5, <2>7
  <1> QED BY <1>10, <1>11 DEF RightInv

\* The tracer copies, or shares, the table.
LEMMA InheritRight ==
    ASSUME RightInv, LowestInv', NEW a \in Threads, insert_fd_table(a)
    PROVE  RightInv'
PROOF
  <1> DEFINE share == call[a].next = "share"
  <1>1. /\ call[a].pc = "inherit" /\ UNCHANGED <<life, filesOf, files, rude>> /\ known' = known \cup {Child}
        /\ tables' = IF share THEN tables ELSE Append(tables, Table(a))
        /\ tableOf' = [tableOf EXCEPT ![Child] = IF share THEN tableOf[First] ELSE Len(tables')]
    BY DEF insert_fd_table, At
  <1>2. /\ call'[a] = Idle
        /\ \A b \in Threads : b # a /\ (ProcOf[b] # Child \/ call[b].pc = "idle") => call'[b] = call[b]
    BY DEF insert_fd_table
  <1> HIDE DEF share
  <1>3. First \in Procs /\ Child \in Procs /\ Child # First
    BY SandboxAssumption
  <1>4. KernelInv'
    <2>1. First \in known' /\ known' \subseteq {First, Child}
      BY <1>1 DEF RightInv, KernelInv
    <2>2. \A b \in Threads : ProcOf[b] \notin known' => call'[b] = Idle
      BY <1>1, <1>2 DEF RightInv, KernelInv
    <2> QED BY <1>1, <2>1, <2>2 DEF RightInv, KernelInv
  <1>5. ASSUME ~rude' PROVE CallsHere' /\ ForkInv' /\ FilesInv'
    <2>1. ~rude /\ ForkInv /\ FilesInv /\ CallsHere
      BY <1>1, <1>5 DEF RightInv
    <2>2. /\ ProcOf[a] = First /\ Child \notin known /\ life[Child] # "none"
          /\ \A b \in Threads : b # a => call[b].pc # "inherit"
          /\ share => filesOf[Child] = filesOf[First] /\ Len(files) = Len(tables)
          /\ ~share => /\ Len(files) = Len(tables) + 1 /\ filesOf[Child] = Len(files)
                       /\ Mirrors(tables[tableOf[First]].entries, files[filesOf[Child]])
      BY <1>1, <2>1 DEF ForkInv, share
    <2>3. known = {First} /\ filesOf[First] = tableOf[First] /\ tableOf[First] \in 1 .. Len(tables)
      BY <1>3, <2>1, <2>2 DEF RightInv, KernelInv, LowestInv, TablesInv, ForkInv
    <2>4. ProcOf[a] \in known /\ Ix(a) = tableOf[First] /\ Table(a) = tables[tableOf[First]]
      BY <2>1, <2>2, <2>3 DEF Ix, CallsHere, Table
    <2>5. \A b \in Threads : /\ call'[b] = IF b = a THEN Idle ELSE call[b]
                             /\ ProcOf[b] = Child => call'[b] = Idle
      <3>1. \A b \in Threads : ProcOf[b] = Child => call[b] = Idle
        BY <2>2 DEF RightInv, KernelInv
      <3> QED BY <1>2, <3>1, IdleSound
    <2>6. IsSeq(tables) /\ tableOf = [p \in Procs |-> tableOf[p]]
      BY DEF RightInv, LowestInv, TablesInv
    <2>7. /\ Len(tables) \in Nat /\ Len(tables') = IF share THEN Len(tables) ELSE Len(tables) + 1
          /\ \A m \in 1 .. Len(tables) : tables'[m] = tables[m]
          /\ ~share => tables'[Len(tables) + 1] = Table(a)
      BY <1>1, <2>6, Appended
    <2>8. tableOf'[First] = tableOf[First] /\ tableOf'[Child] = IF share THEN tableOf[First] ELSE Len(tables')
      BY <1>1, <1>3, <2>6
    <2>9. CallsHere'
      <3>1. Living' = Living
        BY <1>1 DEF Living
      <3> QED BY <2>1, <2>5, <3>1, IdleSound DEF CallsHere
    <2>10. ForkInv'
      <3>1. \A p \in known' : filesOf'[p] = tableOf'[p]
        BY <1>1, <2>2, <2>3, <2>7, <2>8
      <3>2. Len(tables') <= Len(files')
        BY <1>1, <2>2, <2>7
      <3>3. Child \in known' /\ life'[Child] # "none" /\ \A b \in Threads : call'[b].pc # "inherit"
        BY <1>1, <2>2, <2>5, IdleSound
      <3> QED BY <3>1, <3>2, <3>3 DEF ForkInv
    <2>11. ASSUME NEW m \in 1 .. Len(tables') PROVE Right(tables'[m].entries, files'[m], call', On(m)')
      <3>1. \A b \in On(m)' : b \in On(m) \/ AtRest(call'[b])
        <4> SUFFICES ASSUME NEW b \in On(m)', b \notin On(m) PROVE AtRest(call'[b])
          OBVIOUS
        <4>1. b \in Threads /\ ProcOf[b] = Child
          BY <1>1, <2>3, <2>8 DEF On
        <4> QED BY <2>5, <4>1, IdleSound DEF AtRest
      <3>2. CASE m \in 1 .. Len(tables)
        <4>1. Right(tables[m].entries, files[m], call, On(m)) /\ On(m) \subseteq Threads
          BY <2>1, <3>2 DEF FilesInv, On
        <4>2. Right(tables[m].entries, files[m], call', On(m))
          <5>1. CASE a \in On(m)
            <6>1. /\ call'[a] = Idle /\ call[a].pc # "install" /\ CallOK(Idle, tables[m].entries, files[m])
                  /\ Keeps(Idle) = {} /\ Avoids(a, Idle, call, On(m))
              BY <1>1, <1>2, IdleOK DEF Avoids
            <6>2. \A b \in On(m) : b # a => call'[b] = call[b]
              BY <2>5, <4>1
            <6> QED BY <4>1, <5>1, <6>1, <6>2, Opens
          <5>2. CASE a \notin On(m)
            <6>1. \A b \in On(m) : call'[b] = call[b]
              BY <2>5, <4>1, <5>2
            <6> QED BY <4>1, <6>1, OtherTable
          <5> QED BY <5>1, <5>2
        <4>3. On(m) \subseteq On(m)'
          BY <1>1, <2>3, <2>8 DEF On
        <4>4. Right(tables[m].entries, files[m], call', On(m)')
          BY <3>1, <4>2, <4>3, MoreAtRest
        <4> QED BY <1>1, <2>7, <3>2, <4>4
      <3>3. CASE m \notin 1 .. Len(tables)
        <4>1. ~share /\ m = Len(tables) + 1
          BY <2>7, <3>3
        <4>2. tables'[m] = Table(a) /\ files'[m] = files[filesOf[Child]]
          BY <1>1, <2>2, <2>7, <4>1
        <4>3. Mirrors(Table(a).entries, files[filesOf[Child]])
          BY <2>2, <2>4, <4>1
        <4>4. \A v \in DOMAIN Table(a).entries : v \in Fds /\ Fits(Table(a).entries[v])
          BY <2>1, <2>4, Here DEF RightHere, Right
        <4>5. \A b \in On(m)' : AtRest(call'[b])
          <5>1. On(m) = {}
            BY <2>3, <3>3 DEF On
          <5> QED BY <3>1, <5>1
        <4> QED BY <4>2, <4>3, <4>4, <4>5, MirrorsRight
      <3> QED BY <3>2, <3>3
    <2>12. FilesInv'
      BY <2>11 DEF FilesInv
    <2> QED BY <2>9, <2>10, <2>12
  <1> QED BY <1>4, <1>5 DEF RightInv

\* A child's early call makes the guest rude.
LEMMA GetRight ==
    ASSUME RightInv, LowestInv', NEW a \in Threads, get_fd_table(a)
    PROVE  RightInv'
PROOF
  <1>1. /\ rude' /\ UNCHANGED <<life, filesOf, files, call>> /\ known' = known \cup {ProcOf[a]}
        /\ ProcOf[a] \in Living /\ ProcOf[a] \in Procs
    BY SandboxAssumption DEF get_fd_table
  <1>2. ProcOf[a] \in {First, Child}
    BY <1>1 DEF RightInv, KernelInv, Living
  <1>3. KernelInv'
    BY <1>1, <1>2 DEF RightInv, KernelInv
  <1> QED BY <1>1, <1>3 DEF RightInv

\* A process that goes: its calls are over.
LEMMA ExitRight ==
    ASSUME RightInv, LowestInv', NEW a \in Threads, Exit(a)
    PROVE  RightInv'
PROOF
  <1> DEFINE p == ProcOf[a]
  <1>1. UNCHANGED <<known, tableOf, tables, call, filesOf, files>> /\ rude' = (rude \/ Siblings(a) # {})
    BY LeavesSame DEF Exit
  <1>2. life' = [life EXCEPT ![p] = "exited"] /\ p \in Living /\ call[a].pc = "idle"
    BY DEF Exit, Leaves, CanCall
  <1>3. p \in Procs /\ Child \in Procs /\ ProcOf \in [Threads -> Procs]
    BY SandboxAssumption
  <1>4. life' \in [Procs -> {"none", "running", "execed", "exited"}] /\ \A q \in Procs : life'[q] = "none" <=> life[q] = "none"
    BY <1>2, <1>3 DEF RightInv, KernelInv, Living
  <1>5. KernelInv'
    BY <1>1, <1>4 DEF RightInv, KernelInv
  <1>6. ASSUME ~rude' PROVE CallsHere' /\ ForkInv' /\ FilesInv'
    <2>1. ~rude /\ ForkInv /\ FilesInv /\ CallsHere /\ Siblings(a) = {}
      BY <1>1, <1>6 DEF RightInv
    <2>2. ASSUME NEW b \in Threads, call[b].pc # "idle" PROVE ProcOf[b] \in Living'
      <3>1. ProcOf[b] \in Living /\ ProcOf[b] \in Procs
        BY <1>3, <2>1, <2>2 DEF CallsHere
      <3>2. ProcOf[b] # p
        BY <1>2, <2>1, <2>2 DEF Siblings
      <3>3. life'[ProcOf[b]] = life[ProcOf[b]]
        BY <1>2, <3>1, <3>2 DEF RightInv, KernelInv
      <3> QED BY <3>1, <3>3 DEF Living
    <2>3. CallsHere'
      BY <1>1, <2>1, <2>2 DEF CallsHere
    <2>4. ForkInv'
      BY <1>1, <1>3, <1>4, <2>1 DEF ForkInv
    <2>5. FilesInv'
      BY <1>1, <2>1 DEF FilesInv, On
    <2> QED BY <2>3, <2>4, <2>5
  <1> QED BY <1>5, <1>6 DEF RightInv

\* exec closes descriptors the table does not have.
LEMMA ExecRight ==
    ASSUME RightInv, LowestInv', NEW a \in Threads, Exec(a)
    PROVE  RightInv'
PROOF
  <1> DEFINE p == ProcOf[a]
             f == filesOf[p]
             n == tableOf[p]
  <1>1. UNCHANGED <<known, tableOf, tables, call>>
    BY LeavesSame
  <1>2. life' = [life EXCEPT ![p] = "execed"] /\ p \in Living /\ call[a].pc = "idle"
    BY DEF Exec, Leaves, CanCall
  <1>3. PICK S, L :
          /\ L = [k \in Fds |-> IF k \in S THEN Closed ELSE Kernel(a)[k]]
          /\ IF Shared(p) THEN files' = Append(files, L) /\ filesOf' = [filesOf EXCEPT ![p] = Len(files')]
                          ELSE SetKernel(a, L) /\ UNCHANGED filesOf
          /\ rude' = (\/ rude \/ Shared(p) \/ Siblings(a) # {}
                      \/ \E v \in DOMAIN Table(a).entries : /\ Table(a).entries[v].kind = "pass"
                                                            /\ Table(a).entries[v].k \in S)
    BY Zenon DEF Exec
  <1>4. p \in Procs /\ First \in Procs /\ Child \in Procs /\ Child # First /\ ProcOf \in [Threads -> Procs]
    BY SandboxAssumption
  <1>5. /\ life' \in [Procs -> {"none", "running", "execed", "exited"}] /\ Living' = Living
        /\ \A q \in Procs : life'[q] = "none" <=> life[q] = "none"
    BY <1>2, <1>4 DEF RightInv, KernelInv, Living
  <1>6. L = [k \in Fds |-> L[k]] /\ IsSeq(files) /\ f \in 1 .. Len(files)
    BY <1>3, <1>4 DEF RightInv, KernelInv
  <1>7. KernelInv'
    <2>1. /\ IsSeq(files') /\ filesOf' \in [Procs -> 1 .. Len(files')]
          /\ \A m \in 1 .. Len(files') : files'[m] = [k \in Fds |-> files'[m][k]]
      <3>1. CASE Shared(p)
        <4>1. files' = Append(files, L) /\ filesOf' = [filesOf EXCEPT ![p] = Len(files')]
          BY <1>3, <3>1
        <4>2. /\ IsSeq(files') /\ Len(files') = Len(files) + 1 /\ Len(files) \in Nat /\ files'[Len(files) + 1] = L
              /\ \A m \in 1 .. Len(files) : files'[m] = files[m]
          BY <1>6, <4>1, Appended
        <4>3. filesOf' \in [Procs -> 1 .. Len(files')]
          <5>1. filesOf \in [Procs -> 1 .. Len(files)]
            BY DEF RightInv, KernelInv
          <5>2. Len(files') \in 1 .. Len(files') /\ 1 .. Len(files) \subseteq 1 .. Len(files')
            BY <4>2
          <5> QED BY <4>1, <5>1, <5>2
        <4>4. ASSUME NEW m \in 1 .. Len(files') PROVE files'[m] = [k \in Fds |-> files'[m][k]]
          <5>1. CASE m \in 1 .. Len(files)
            BY <4>2, <5>1 DEF RightInv, KernelInv
          <5>2. CASE m \notin 1 .. Len(files)
            BY <1>6, <4>2, <5>2
          <5> QED BY <5>1, <5>2
        <4> QED BY <4>2, <4>3, <4>4
      <3>2. CASE ~Shared(p)
        <4>1. SetKernel(a, L) /\ filesOf' = filesOf
          BY <1>3, <3>2
        <4> QED BY <1>6, <4>1, KernelSet DEF RightInv, KernelInv
      <3> QED BY <3>1, <3>2
    <2> QED BY <1>1, <1>5, <2>1 DEF RightInv, KernelInv
  <1>8. ASSUME ~rude' PROVE CallsHere' /\ ForkInv' /\ FilesInv'
    <2>1. ~rude /\ ForkInv /\ FilesInv /\ CallsHere /\ ~Shared(p) /\ Siblings(a) = {}
      BY <1>3, <1>8 DEF RightInv
    <2>2. SetKernel(a, L) /\ filesOf' = filesOf
      BY <1>3, <2>1
    <2>3. /\ Len(files') = Len(files) /\ Len(files) \in Nat
          /\ \A m \in 1 .. Len(files) : files'[m] = IF m = f THEN L ELSE files[m]
      BY <1>6, <2>2, KernelSet DEF RightInv
    <2>4. Ix(a) = n /\ Table(a) = tables[n]
      BY <2>1 DEF Ix, CallsHere, Table
    <2>5. ASSUME NEW v \in DOMAIN tables[n].entries, tables[n].entries[v].kind = "pass", tables[n].entries[v].k \in Fds
          PROVE  L[tables[n].entries[v].k] = files[f][tables[n].entries[v].k]
      <3>1. tables[n].entries[v].k \notin S
        <4> HIDE DEF f, n, p
        <4> QED BY Zenon, <1>3, <1>8, <2>4, <2>5
      <3> QED BY <1>3, <2>5, <3>1 DEF Kernel
    <2>6. p \in {First, Child}
      BY <1>2, <1>4 DEF RightInv, KernelInv, Living
    <2>7. n \in 1 .. Len(tables) /\ tableOf[First] \in 1 .. Len(tables) /\ Len(tables) \in Nat
      <3>1. IsSeq(tables) /\ tableOf \in [Procs -> 1 .. Len(tables)]
        BY DEF RightInv, LowestInv, TablesInv
      <3>2. Len(tables) \in Nat
        BY <3>1 DEF IsSeq
      <3> QED BY <1>4, <3>1, <3>2
    <2>8. CallsHere'
      BY <1>1, <1>5, <2>1 DEF CallsHere
    <2>9. ASSUME NEW b \in Threads, call[b].pc = "inherit", call[b].next # "share"
          PROVE  Mirrors(tables[tableOf[First]].entries, files'[filesOf[Child]])
      <3> DEFINE T == tables[tableOf[First]].entries
      <3>1. /\ Child \notin known /\ filesOf[Child] = Len(files) /\ Len(files) = Len(tables) + 1
            /\ tableOf[Child] = tableOf[First] /\ Mirrors(T, files[filesOf[Child]]) /\ filesOf[First] = tableOf[First]
        BY <2>1, <2>9 DEF ForkInv, RightInv, KernelInv
      <3>2. \A v \in DOMAIN T : T[v].kind = "pass" => T[v].k \in Fds
        BY <2>1, <2>7 DEF FilesInv, Right, Fits
      <3>3. filesOf[Child] \in 1 .. Len(files)
        BY <2>3, <2>7, <3>1
      <3>4. CASE p = First
        <4>1. f # filesOf[Child]
          BY <2>7, <3>1, <3>4
        <4>2. files'[filesOf[Child]] = files[filesOf[Child]]
          BY <2>3, <3>3, <4>1
        <4> QED BY <3>1, <4>2
      <3>5. CASE p = Child
        <4>1. files'[filesOf[Child]] = L /\ T = tables[n].entries /\ f = filesOf[Child]
          BY <2>3, <3>1, <3>3, <3>5
        <4>2. \A v \in DOMAIN T : T[v].kind = "pass" => L[T[v].k] = files[filesOf[Child]][T[v].k]
          BY <2>5, <3>2, <4>1
        <4> HIDE DEF T, f, n, p
        <4>3. Mirrors(T, L)
          BY <3>1, <4>2 DEF Mirrors
        <4> QED BY <4>1, <4>3 DEF T
      <3> QED BY <2>6, <3>4, <3>5
    <2>10. ForkInv'
      <3> HIDE DEF f, n, p
      <3>1. \A b \in Threads : call[b].pc = "inherit" /\ call[b].next # "share" =>
               Mirrors(tables[tableOf[First]].entries, files'[filesOf[Child]])
        BY <2>9
      <3>2. life'[Child] = "none" <=> life[Child] = "none"
        BY <1>4, <1>5
      <3> QED BY <1>1, <2>1, <2>2, <2>3, <3>1, <3>2 DEF ForkInv
    <2>11. ASSUME NEW m \in 1 .. Len(tables) PROVE Right(tables[m].entries, files'[m], call, On(m))
      <3>1. m \in 1 .. Len(files) /\ Right(tables[m].entries, files[m], call, On(m))
        BY <2>1, <2>3, <2>7 DEF ForkInv, FilesInv
      <3>2. CASE m # f
        BY <2>3, <3>1, <3>2
      <3>3. CASE m = f /\ p \in known
        <4>1. n = m /\ files'[m] = L /\ a \in On(m)
          BY <2>1, <2>3, <3>1, <3>3 DEF ForkInv, On
        <4>2. ASSUME NEW b \in On(m) PROVE call[b].pc = "idle"
          <5>1. b \in Threads /\ ProcOf[b] \in known /\ tableOf[ProcOf[b]] = m
            BY DEF On
          <5>2. CASE ProcOf[b] = p
            BY <1>2, <2>1, <5>1, <5>2 DEF Siblings
          <5>3. CASE ProcOf[b] # p
            <6>1. filesOf[ProcOf[b]] = f
              BY <2>1, <3>3, <5>1 DEF ForkInv
            <6>2. ProcOf[b] \notin Living
              BY <2>1, <5>3, <6>1 DEF Shared
            <6> QED BY <2>1, <5>1, <6>2 DEF CallsHere
          <5> QED BY <5>2, <5>3
        <4>3. \A b \in On(m) : AtRest(call[b]) /\ CallOK(call[b], tables[m].entries, files[m])
          BY <3>1, <4>2 DEF Right, CallOK, AtRest
        <4>4. \A b \in On(m) : /\ CallOK(call[b], tables[m].entries, L) /\ Keeps(call[b]) = {}
                               /\ Touches(call[b]) = {} /\ Replaces(call[b]) = {}
          BY <4>3, RestOK
        <4>5. \A v \in Firm(tables[m].entries, call, On(m)) :
                 L[tables[m].entries[v].k] = files[m][tables[m].entries[v].k]
          BY <2>5, <3>1, <3>3, <4>1 DEF Firm, Right, Fits
        <4>6. Avoids(a, call[a], call, On(m))
          BY <4>1, <4>4 DEF Avoids
        <4> HIDE DEF f, n, p
        <4>7. Right(tables[m].entries, L, call, On(m))
          <5>1. Right(tables[m].entries, files[m], call, On(m)) /\ a \in On(m)
            BY <3>1, <4>1
          <5>2. CallOK(call[a], tables[m].entries, L) /\ Keeps(call[a]) = {}
            BY <4>1, <4>4
          <5>3. \A b \in On(m) : b # a => \A k \in Keeps(call[b]) : L[k] = files[m][k] /\ k \notin Keeps(call[a])
            BY <4>4
          <5>4. \A v \in Firm(tables[m].entries, call, On(m)) :
                   /\ L[tables[m].entries[v].k] = files[m][tables[m].entries[v].k]
                   /\ tables[m].entries[v].k \notin Keeps(call[a])
            BY <4>5, <5>2
          <5> QED BY <4>6, <5>1, <5>2, <5>3, <5>4, KernelStep
        <4> QED BY <4>1, <4>7
      <3>4. CASE m = f /\ p \notin known
        <4>1. p = Child /\ life[Child] # "none"
          BY <1>2, <2>6, <3>4 DEF RightInv, KernelInv, Living
        <4>2. PICK b \in Threads : call[b].pc = "inherit"
          BY <2>1, <3>4, <4>1 DEF ForkInv
        <4>3. CASE call[b].next = "share"
          <5>1. filesOf[Child] = filesOf[First] /\ First \in Living
            BY <2>1, <4>2, <4>3 DEF ForkInv, CallsHere
          <5> QED BY <1>4, <2>1, <4>1, <5>1 DEF Shared
        <4>4. CASE call[b].next # "share"
          <5>1. f = Len(tables) + 1
            BY <2>1, <4>1, <4>2, <4>4 DEF ForkInv
          <5> QED BY <2>7, <3>4, <5>1
        <4> QED BY <4>3, <4>4
      <3> QED BY <3>2, <3>3, <3>4
    <2>12. FilesInv'
      BY <1>1, <2>11 DEF FilesInv, On
    <2> QED BY <2>8, <2>10, <2>12
  <1> QED BY <1>7, <1>8 DEF RightInv

-----------------------------------------------------------------------------
LEMMA RightInit == Init => RightInv
PROOF
  <1> SUFFICES ASSUME Init PROVE RightInv
    OBVIOUS
  <1>1. /\ known = {First} /\ tableOf = [p \in Procs |-> 1] /\ tables = <<new_table(Std)>>
        /\ life = [p \in Procs |-> IF p = First THEN "running" ELSE "none"]
        /\ filesOf = [p \in Procs |-> 1] /\ files = <<StdFiles>> /\ call = [a \in Threads |-> Idle]
    BY DEF Init
  <1>2. First \in Procs /\ Child \in Procs /\ Child # First /\ ProcOf \in [Threads -> Procs]
    BY SandboxAssumption
  <1>3. IsSeq(files) /\ Len(files) = 1 /\ files[1] = StdFiles /\ Len(tables) = 1 /\ tables[1].entries = Std
    <2>1. files \in Seq({StdFiles})
      BY <1>1
    <2> QED BY <1>1, <2>1 DEF IsSeq, new_table
  <1>4. \A a \in Threads : call[a] = Idle /\ call[a].pc = "idle" /\ call[a].t = 0 /\ AtRest(call[a])
    BY <1>1, IdleSound DEF AtRest
  <1>5. KernelInv
    <2>1. StdFiles = [k \in Fds |-> StdFiles[k]]
      BY DEF StdFiles
    <2>2. life \in [Procs -> {"none", "running", "execed", "exited"}] /\ \A p \in Procs \ {First, Child} : life[p] = "none"
      BY <1>1
    <2> QED BY <1>1, <1>2, <1>3, <1>4, <2>1, <2>2 DEF KernelInv
  <1>6. ForkInv /\ CallsHere
    BY <1>1, <1>2, <1>3, <1>4 DEF ForkInv, CallsHere
  <1>7. (\A v \in DOMAIN Std : v \in Fds /\ Fits(Std[v])) /\ Mirrors(Std, StdFiles)
    <2>1. <<"std">> # Closed
      BY DEF Closed
    <2>2. StdFds \subseteq Fds
      BY FdAssumption DEF StdFds, Fds
    <2>3. DOMAIN Std = StdFds /\ \A v \in StdFds : Std[v] = Pass(v, <<"std">>) /\ StdFiles[v] = <<"std">>
      BY <2>2 DEF Std, StdFiles
    <2>4. ASSUME NEW v \in StdFds
          PROVE  Std[v].k = v /\ Std[v].desc = <<"std">> /\ Std[v].kind = "pass" /\ ShapedEntry(Std[v])
      BY <2>3 DEF Pass, ShapedEntry
    <2> QED BY <2>1, <2>2, <2>3, <2>4 DEF Mirrors, Fits
  <1>8. FilesInv
    <2>1. \A b \in On(1) : AtRest(call[b])
      BY <1>4 DEF On
    <2>2. Right(Std, StdFiles, call, On(1))
      BY <1>7, <2>1, MirrorsRight
    <2> QED BY <1>3, <2>2 DEF FilesInv
  <1> QED BY <1>5, <1>6, <1>8, LowestInit DEF RightInv

LEMMA RightStep == RightInv /\ TypeInv /\ [Next]_vars => RightInv'
PROOF
  <1> SUFFICES ASSUME RightInv, TypeInv, [Next]_vars PROVE RightInv'
    OBVIOUS
  <1>0. LowestInv'
    BY LowestStep DEF RightInv
  <1>1. ASSUME NEW a \in Threads, dispatch_syscall(a) PROVE RightInv'
    <2>1. CASE Ready(a) /\ MakesDescriptors(a)
      BY <1>0, <2>1, MakesOutcome, OutcomeKeeps
    <2>2. CASE Ready(a) /\ MakesProcess(a)
      <3>1. PICK fs \in BOOLEAN, then \in {"share", "copy", "wait"} : Spawn(a, fs, then)
        BY <2>2 DEF MakesProcess, handle_fork, handle_vfork, handle_clone, handle_clone3
      <3> QED BY <1>0, <2>2, <3>1, SpawnRight
    <2>3. CASE Ready(a) /\ (UsesDescriptor(a) \/ NamesPath(a))
      <3>1. Quiet(a) \/ Forwarded(a)
        BY <2>3, Calls DEF RightInv
      <3> QED BY <1>0, <2>3, <3>1, QuietOutcome, ForwardedOutcome, OutcomeKeeps
    <2>4. CASE Exec(a) \/ Exit(a)
      BY <1>0, <2>4, ExecRight, ExitRight
    <2> QED BY <1>1, <2>1, <2>2, <2>3, <2>4 DEF dispatch_syscall
  <1>2. ASSUME NEW a \in Threads, Resume(a) PROVE RightInv'
    BY <1>0, <1>2, ResumeOutcome, InheritRight, OutcomeKeeps
  <1>3. ASSUME NEW a \in Threads, get_fd_table(a) PROVE RightInv'
    BY <1>0, <1>3, GetRight
  <1>4. CASE UNCHANGED vars
    <2>1. UNCHANGED <<known, life, tableOf, tables, filesOf, files, call, rude>>
      BY <1>4 DEF vars
    <2>2. KernelInv'
      BY <2>1 DEF RightInv, KernelInv
    <2>3. CallsHere => CallsHere'
      BY <2>1 DEF CallsHere, Living
    <2>4. ForkInv => ForkInv'
      BY <2>1 DEF ForkInv
    <2>5. FilesInv => FilesInv'
      BY <2>1 DEF FilesInv, On
    <2> QED BY <1>0, <2>1, <2>2, <2>3, <2>4, <2>5 DEF RightInv
  <1> QED BY <1>1, <1>2, <1>3, <1>4 DEF Next

LEMMA RightInvImplies == RightInv => RightFile
PROOF
  <1> SUFFICES ASSUME RightInv, ~rude PROVE RightFile
    BY DEF RightFile
  <1>1. ASSUME NEW p \in known
        PROVE  LET t == tables[tableOf[p]].entries
                   S == {v \in DOMAIN t \ Changing(p) : t[v].kind = "pass"}
               IN /\ \A v \in S : files[filesOf[p]][t[v].k] = t[v].desc
                  /\ \A v, w \in S : v # w => t[v].k # t[w].k
    <2> DEFINE n == tableOf[p]
               t == tables[n].entries
               S == {v \in DOMAIN t \ Changing(p) : t[v].kind = "pass"}
    <2>1. p \in Procs /\ n \in 1 .. Len(tables) /\ filesOf[p] = n
      BY SandboxAssumption DEF RightInv, KernelInv, LowestInv, TablesInv, ForkInv
    <2>2. Right(t, files[n], call, On(n))
      BY <2>1 DEF RightInv, FilesInv
    <2>3. ASSUME NEW v \in S PROVE v \in Firm(t, call, On(n))
      BY DEF Firm, On, Changing
    <2> HIDE DEF n, t, S
    <2>4. /\ \A v \in S : files[filesOf[p]][t[v].k] = t[v].desc
          /\ \A v, w \in S : v # w => t[v].k # t[w].k
      BY <2>1, <2>2, <2>3 DEF Right
    <2> QED BY <2>4 DEF n, t, S
  <1>2. ASSUME NEW a \in Threads, call[a].pc \in {"fwd", "dup"} PROVE Kernel(a)[call[a].e.k] = call[a].e.desc
    <2> DEFINE c == call[a]
    <2>1. a \in Mates(a) /\ Right(Table(a).entries, Kernel(a), call, Mates(a))
      BY <1>2, Underway DEF RightHere
    <2>2. c.fd \in DOMAIN Table(a).entries /\ Table(a).entries[c.fd] = c.e /\ c.e.kind = "pass"
      BY <1>2, <2>1 DEF Right, CallOK
    <2>3. c.fd \in Touches(c)
      BY <1>2 DEF Touches
    <2>4. Kernel(a)[Table(a).entries[c.fd].k] = Table(a).entries[c.fd].desc
      BY <1>2, <2>1, <2>2, <2>3, FirmEntry
    <2> QED BY <2>2, <2>4
  <1> QED BY <1>1, <1>2 DEF RightFile

\* A guest descriptor stands for the file it was opened on, for any number of
\* threads and descriptors and whatever calls of other threads run between two
\* awaits of a handler: also while another thread opens, closes, duplicates or
\* replaces other descriptors, forks, or exits.  Two entries never share a kernel
\* descriptor, and the one a handler took out of the table before an await is
\* still that file's when the kernel gets it (file.rs, fdtable.rs, process.rs).
\* What the code does not follow is left out by `rude`, case by case: two threads
\* changing one descriptor at once, a table changed while fork copies it, a child's
\* call before it has its table, clone3 with CLONE_FILES, exec that closes or
\* unshares, and numbers the table never had.
THEOREM DescriptorsKeepTheirFiles == Spec => []RightFile
PROOF
  <1>1. Init => RightInv /\ TypeInv
    BY RightInit, TypeInit
  <1>2. RightInv /\ TypeInv /\ [Next]_vars => (RightInv /\ TypeInv)'
    BY RightStep, TypeStep DEF RightInv
  <1> QED BY <1>1, <1>2, RightInvImplies, PTL DEF Spec

-----------------------------------------------------------------------------
(* Type correctness, which holds of a guest that races as well.            *)

\* The tracer's state stays well formed whatever the guest does: a table's entry
\* has a kernel descriptor or an open file, a file an inode the database has and
\* content within its bound, a call the table it was begun with, and a handler
\* that flushes a file over its awaits keeps a file there is and an inode that is
\* that file's (file.rs, sqlite.rs).
THEOREM SandboxTyped == Spec => []TypeOK
PROOF
  <1>1. RightInv /\ TypeInv => TypeOK
    <2> SUFFICES ASSUME RightInv, TypeInv PROVE TypeOK
      OBVIOUS
    <2>1. /\ known \subseteq Procs /\ life \in [Procs -> {"none", "running", "execed", "exited"}]
          /\ tableOf \in [Procs -> 1 .. Len(tables)] /\ filesOf \in [Procs -> 1 .. Len(files)]
      BY SandboxAssumption DEF RightInv, KernelInv, LowestInv, TablesInv
    <2>2. ASSUME NEW n \in 1 .. Len(tables), NEW v \in Fds, Has(tables[n], v)
          PROVE  LET e == tables[n].entries[v] IN IF e.kind = "pass" THEN e.k \in Fds ELSE e.o \in 1 .. Len(ops)
      BY <2>2 DEF TypeInv, EntryOK, Has
    <2>3. ASSUME NEW o \in 1 .. Len(ops)
          PROVE  ops[o].ino \in 0 .. Len(db.data) /\ Len(ops[o].data) <= MaxLen /\ (ops[o].kind = "dir" => ~ops[o].dirty)
      <3>1. FileOK(ops[o], db)
        BY DEF TypeInv, DataOK, OpsOK
      <3> QED BY <3>1 DEF FileOK, Contents
    <2>4. \A n \in DOMAIN db.names : db.names[n] \in 1 .. Len(db.data)
      BY DEF TypeInv, DataOK, DbOK
    <2>5. ASSUME NEW a \in Threads
          PROVE  /\ call[a].t \in 0 .. Len(tables)
                 /\ call[a].pc \in {"flush", "pwrite", "truncate"} => call[a].o \in 1 .. Len(ops) /\ IsFile(call[a].o)
                 /\ call[a].pc \in {"pwrite", "truncate"} => call[a].ino \in StoredAs(call[a].o)
      <3>0. call[a].t \in 0 .. Len(tables)
        BY DEF RightInv, LowestInv, TablesInv
      <3>1. CallTyped(call[a], ops, db)
        BY DEF TypeInv
      <3>2. Flushes(call[a]) => call[a].o \in 1 .. Len(ops) /\ ops[call[a].o].kind = "file"
        BY <3>1 DEF CallTyped
      <3>3. \A o \in 1 .. Len(ops) : o # 0
        OBVIOUS
      <3>4. Writes(call[a]) => call[a].ino \in StoredAs(call[a].o)
        BY <3>1 DEF CallTyped, Inos, StoredAs
      <3> QED BY <3>0, <3>2, <3>3, <3>4 DEF Flushes, Writes, IsFile
    <2> QED BY <2>1, <2>2, <2>3, <2>4, <2>5 DEF TypeOK
  <1>2. RightInv /\ TypeInv /\ [Next]_vars => TypeInv'
    BY TypeStep DEF RightInv
  <1> QED BY <1>1, <1>2, RightInit, RightStep, TypeInit, PTL DEF Spec

(* NothingLost.  A stored file that is dirty is being flushed, or some     *)
(* descriptor will still flush it: one that no dup2 is about to overwrite, *)
(* since dup2 has flushed the file of its target by then; or the database  *)
(* has failed its last flush.                                              *)

Refers(T, v, o) == v \in DOMAIN T /\ T[v].kind = "virt" /\ T[v].o = o
Unreplaced(v, C, A) == \A b \in A : C[b].pc = "install" => C[b].to # v
Owed(P, o) == P[o].kind = "file" /\ P[o].ino # 0 /\ P[o].dirty /\ ~P[o].failed

Kept(o) ==
    \/ \E b \in Threads : Flushes(call[b]) /\ call[b].o = o
    \/ \E n \in 1 .. Len(tables) : \E v : Refers(tables[n].entries, v, o) /\ Unreplaced(v, call, On(n))
KeptInv == \A o \in 1 .. Len(ops) : Owed(ops, o) => Kept(o)

\* A step of thread a, whose call becomes c and whose table becomes t, leaves file
\* o somebody who flushes it.
Spares(a, c, t, o) ==
    /\ Flushes(call[a]) /\ call[a].o = o => Flushes(c) /\ c.o = o
    /\ \A v : Refers(Table(a).entries, v, o) /\ Unreplaced(v, call, Mates(a)) =>
          \/ Refers(t.entries, v, o) /\ (c.pc = "install" => c.to # v)
          \/ Flushes(c) /\ c.o = o

LEMMA KeptOn ==
    ASSUME LowestInv, NEW a \in Threads, ProcOf[a] \in known, call[a].t = 0, NEW c, Becomes(a, c), NEW t, SetTable(a, t),
           UNCHANGED <<known, tableOf>>, NEW o, Kept(o), Spares(a, c, t, o)
    PROVE  Kept(o)'
PROOF
  <1> DEFINE n == tableOf[ProcOf[a]]
  <1>1. IsSeq(tables) /\ n \in 1 .. Len(tables) /\ tables' = Replace(tables, n, t) /\ Table(a) = tables[n]
    BY TableIn DEF LowestInv, TablesInv, SetTable, Replace, Ix
  <1>2. Len(tables') = Len(tables) /\ \A m \in 1 .. Len(tables) : tables'[m] = IF m = n THEN t ELSE tables[m]
    BY <1>1, Replaced
  <1>3. \A b \in Threads : call'[b] = IF b = a THEN c ELSE call[b]
    BY DEF LowestInv, CallsInv, Becomes
  <1>4. \A m : On(m)' = On(m) /\ On(m) \subseteq Threads /\ (a \in On(m) => m = n)
    BY DEF On
  <1>5. ASSUME Flushes(c), c.o = o PROVE Kept(o)'
    BY <1>3, <1>5 DEF Kept
  <1>6. ASSUME NEW b \in Threads, Flushes(call[b]), call[b].o = o PROVE Kept(o)'
    <2>1. CASE b = a
      BY <1>5, <1>6, <2>1 DEF Spares
    <2>2. CASE b # a
      BY <1>3, <1>6, <2>2 DEF Kept
    <2> QED BY <2>1, <2>2
  <1>7. ASSUME NEW m \in 1 .. Len(tables), NEW v, Refers(tables[m].entries, v, o), Unreplaced(v, call, On(m))
        PROVE  Kept(o)'
    <2>1. CASE m = n
      <3>1. Refers(Table(a).entries, v, o) /\ Unreplaced(v, call, Mates(a))
        BY <1>1, <1>7, <2>1 DEF Mates
      <3>2. CASE Refers(t.entries, v, o) /\ (c.pc = "install" => c.to # v)
        <4>1. Unreplaced(v, call', On(m)')
          BY <1>3, <1>4, <1>7, <3>2 DEF Unreplaced
        <4>2. m \in 1 .. Len(tables') /\ Refers(tables'[m].entries, v, o)
          BY <1>2, <2>1, <3>2
        <4> QED BY <4>1, <4>2 DEF Kept
      <3> QED BY <1>5, <3>1, <3>2 DEF Spares
    <2>2. CASE m # n
      <3>1. Unreplaced(v, call', On(m)')
        BY <1>3, <1>4, <1>7, <2>2 DEF Unreplaced
      <3>2. m \in 1 .. Len(tables') /\ Refers(tables'[m].entries, v, o)
        BY <1>2, <1>7, <2>2
      <3> QED BY <3>1, <3>2 DEF Kept
    <2> QED BY <2>1, <2>2
  <1> QED BY <1>6, <1>7 DEF Kept

\* The step leaves the files alone, or some of them less dirty.
LEMMA KeptMove ==
    ASSUME LowestInv, KeptInv, NEW a \in Threads, ProcOf[a] \in known, call[a].t = 0, NEW c, Becomes(a, c), NEW t, SetTable(a, t),
           UNCHANGED <<known, tableOf>>,
           \A o \in 1 .. Len(ops') : Owed(ops', o) => o \in 1 .. Len(ops) /\ Owed(ops, o) /\ Spares(a, c, t, o)
    PROVE  KeptInv'
BY KeptOn DEF KeptInv

LEMMA PlainSpares ==
    ASSUME NEW a, NEW c, ~Flushes(call[a]), c.pc # "install", NEW o
    PROVE  Spares(a, c, Table(a), o)
BY DEF Spares

\* The table only gets more entries.
Extends(t, u) == \A v \in DOMAIN t.entries : v \in DOMAIN u.entries /\ u.entries[v] = t.entries[v]

LEMMA ExtendsSpares ==
    ASSUME NEW a, NEW c, ~Flushes(call[a]), c.pc # "install", NEW t, Extends(Table(a), t), NEW o
    PROVE  Spares(a, c, t, o)
BY DEF Spares, Extends, Refers

\* Nothing but the call changes.
LEMMA PlainKept ==
    ASSUME RightInv, KeptInv, NEW a \in Threads, ProcOf[a] \in known, call[a].t = 0, NEW c, Becomes(a, c),
           ~Flushes(call[a]), c.pc # "install", UNCHANGED <<known, tableOf, tables, ops>>
    PROVE  KeptInv'
PROOF
  <1>1. SetTable(a, Table(a)) /\ LowestInv
    BY Same DEF SetTable, RightInv
  <1> QED BY <1>1, PlainSpares, KeptMove

\* The call of a thread, at its beginning.
LEMMA Beginning ==
    ASSUME RightInv, ~rude, NEW a \in Threads, Ready(a)
    PROVE  /\ LowestInv /\ ProcOf[a] \in known /\ call[a].t = 0 /\ ~Flushes(call[a]) /\ call[a].pc = "idle"
           /\ Idle.pc # "install"
BY IdleSound DEF RightInv, CallsHere, Ready, CanCall, Flushes

\* A descriptor that a call uses, or is given, is no other call's target.
LEMMA NotReplaced ==
    ASSUME RightInv, ~rude, NEW a \in Threads, Ready(a), NEW c, Becomes(a, c), c.pc # "install",
           NEW S, NEW W, ~Clash(a, S, W), NEW v \in S \cup W
    PROVE  Unreplaced(v, call', Mates(a))
PROOF
  <1>1. ASSUME NEW b \in Mates(a), call'[b].pc = "install" PROVE call'[b].to # v
    <2>1. b \in Threads /\ call'[b] = IF b = a THEN c ELSE call[b]
      BY DEF Mates, On, RightInv, LowestInv, CallsInv, Becomes
    <2>2. b # a /\ call'[b] = call[b] /\ call[b].pc = "install"
      BY <1>1, <2>1
    <2>3. Replaces(call[b]) \cap S = {} /\ Touches(call[b]) \cap W = {}
      BY <2>2, Untouched DEF Ready
    <2>4. call[b].next \in {"closeold", "install"}
      BY <2>1, <2>2, Underway DEF CallOK, Installing
    <2>5. call[b].to \in Replaces(call[b]) /\ call[b].to \in Touches(call[b])
      BY <2>4 DEF Replaces, Touches
    <2> QED BY <2>2, <2>3, <2>5
  <1> QED BY <1>1 DEF Unreplaced

LEMMA CallsKept ==
    ASSUME RightInv, TypeInv, KeptInv, ~rude, ~rude', NEW a \in Threads, Ready(a), UsesDescriptor(a) \/ NamesPath(a)
    PROVE  KeptInv'
PROOF
  <1>1. LowestInv /\ ProcOf[a] \in known /\ ~Flushes(call[a]) /\ call[a].t = 0
    BY Beginning
  <1>2. UNCHANGED <<known, tableOf, tables>> /\ \E c : c.pc \in {"idle", "fwd"} /\ Becomes(a, c)
    <2>1. CASE Quiet(a)
      <3>1. Becomes(a, Idle) /\ UNCHANGED <<known, tableOf, tables>>
        BY <2>1 DEF Quiet, Becomes, World
      <3> QED BY <3>1, IdleSound
    <2>2. CASE Forwarded(a)
      <3>1. PICK v \in Fds : /\ Begin(a, [Idle EXCEPT !.pc = "fwd", !.fd = v, !.e = Entry(a, v)], {v}, {})
                             /\ UNCHANGED <<known, tableOf, tables>>
        BY Zenon, <2>2 DEF Forwarded, World
      <3> DEFINE c == [Idle EXCEPT !.pc = "fwd", !.fd = v, !.e = Entry(a, v)]
      <3>2. c.pc = "fwd" /\ Becomes(a, c)
        BY <3>1 DEF Begin, Start, Becomes, Idle
      <3> HIDE DEF c
      <3> QED BY <3>1, <3>2
    <2> QED BY <1>1, <2>1, <2>2, Calls
  <1>3. PICK c : c.pc \in {"idle", "fwd"} /\ Becomes(a, c)
    BY <1>2
  <1>4. CASE ops' = ops
    BY <1>1, <1>2, <1>3, <1>4, PlainKept
  <1>5. ASSUME NEW v \in Fds, NEW f, Touch(a, v, f) PROVE KeptInv'
    <2>0. PICK o : o = Entry(a, v).o
      OBVIOUS
    <2>1. o \in 1 .. Len(ops) /\ ops' = [ops EXCEPT ![o] = f] /\ Ops(a, v) = ops[o] /\ Has(Table(a), v)
      BY <1>1, <1>5, <2>0, VirtualFile DEF Touch, OnVirtual, Ops
    <2>2. Refers(Table(a).entries, v, o)
      BY <1>5, <2>0, <2>1 DEF Refers, Touch, VirtualFd, Entry, Has
    <2>3. /\ Len(ops') = Len(ops) /\ \A u \in 1 .. Len(ops) : u # o => ops'[u] = ops[u]
      <3>1. PICK S : ops \in Seq(S)
        BY DEF TypeInv, DataOK, OpsOK, IsSeq
      <3>2. ops \in [1 .. Len(ops) -> S] /\ Len(ops) \in Nat
        BY <3>1
      <3> QED BY <2>1, <3>1, <3>2
    <2>4. ~Clash(a, {v}, {})
      BY <1>5 DEF Touch, OnVirtual, AtOnce, Begin
    <2>5. Kept(o)'
      <3>1. Unreplaced(v, call', Mates(a))
        BY <1>3, <2>4, NotReplaced
      <3>2. PICK n : n = tableOf[ProcOf[a]]
        OBVIOUS
      <3>3. Mates(a) = On(n)' /\ n \in 1 .. Len(tables') /\ Refers(tables'[n].entries, v, o)
        BY <1>1, <1>2, <2>2, <3>2, TableIn DEF Mates, On, Table, Ix
      <3> QED BY <3>1, <3>2, <3>3 DEF Kept
    <2>6. ASSUME NEW u \in 1 .. Len(ops), u # o, Owed(ops', u) PROVE Kept(u)'
      <3>1. Kept(u)
        BY <2>3, <2>6 DEF KeptInv, Owed
      <3>2. SetTable(a, Table(a)) /\ Spares(a, c, Table(a), u)
        BY <1>1, <1>2, <1>3, Same, PlainSpares DEF SetTable, RightInv
      <3> QED BY <1>1, <1>2, <1>3, <3>1, <3>2, KeptOn
    <2> QED BY <2>3, <2>5, <2>6 DEF KeptInv
  <1> QED BY <1>1, <1>4, <1>5, CallsData DEF NamesOne

LEMMA AllocateExtends ==
    ASSUME NEW t, Good(t), CanAllocate(t), NEW e
    PROVE  /\ Extends(t, allocate(t, e)) /\ allocated(t) \in DOMAIN allocate(t, e).entries
           /\ allocate(t, e).entries[allocated(t)] = e
PROOF
  <1>1. /\ allocate(t, e).entries = [x \in DOMAIN t.entries \cup {allocated(t)} |-> IF x = allocated(t) THEN e ELSE t.entries[x]]
    BY AllocateGood
  <1>2. allocated(t) \notin DOMAIN t.entries
    BY AllocatedFree DEF Has
  <1> QED BY <1>1, <1>2 DEF Extends

LEMMA OpenatKept ==
    ASSUME RightInv, TypeInv, KeptInv, ~rude, ~rude', NEW a \in Threads, Ready(a), handle_openat(a)
    PROVE  KeptInv'
PROOF
  <1>1. LowestInv /\ ProcOf[a] \in known /\ ~Flushes(call[a]) /\ Idle.pc # "install" /\ call[a].t = 0
    BY Beginning
  <1>2. ASSUME NEW f, NEW used, NEW path, OpensOne(a, f, used, path) PROVE KeptInv'
    <2>0. PICK last, n : last = Len(ops') /\ n = tableOf[ProcOf[a]]
      OBVIOUS
    <2> DEFINE e == Virt(last, path)
               t == allocate(Table(a), e)
               w == allocated(Table(a))
    <2>1. Len(ops') = Len(ops) + 1 /\ Len(ops) \in Nat
      BY <1>2, OpenedOK DEF OpensOne, Fresh, TypeInv
    <2>2. Becomes(a, Idle) /\ SetTable(a, t) /\ UNCHANGED <<known, tableOf>> /\ CanAllocate(Table(a)) /\ ~Clash(a, used, {w})
      BY <1>2, <2>0 DEF OpensOne, Retable, Start, Becomes, World
    <2>3. \A o \in 1 .. Len(ops) : ops'[o] = ops[o]
      <3>1. PICK S : ops \in Seq(S)
        BY DEF TypeInv, DataOK, OpsOK, IsSeq
      <3>2. ops \in Seq(S \cup {f}) /\ ops' = Append(ops, f)
        BY <1>2, <3>1 DEF OpensOne
      <3> QED BY <3>2
    <2>4. Good(Table(a)) /\ IsSeq(tables) /\ n \in 1 .. Len(tables)
      BY <1>1, <2>0, TableIn DEF LowestInv, TablesInv
    <2>5. Extends(Table(a), t) /\ w \in DOMAIN t.entries /\ t.entries[w] = e
      BY <2>2, <2>4, AllocateExtends
    <2>6. w \in Fds /\ e.kind = "virt" /\ e.o = last
      BY <2>2, <2>4, AllocatedFree DEF Virt
    <2>7. tables' = Replace(tables, n, t)
      BY <1>1, <2>0, <2>2 DEF SetTable, Replace, Ix
    <2> HIDE DEF e, t, w
    <2>8. Kept(last)'
      <3>1. Unreplaced(w, call', Mates(a))
        <4>1. w \in used \cup {w}
          OBVIOUS
        <4> QED BY <1>1, <2>2, <4>1, NotReplaced
      <3>2. n \in 1 .. Len(tables') /\ tables'[n] = t
        BY <2>4, <2>7, Replaced
      <3>3. Refers(tables'[n].entries, w, last)
        BY <2>5, <2>6, <3>2 DEF Refers
      <3>4. Mates(a) = On(n)'
        BY <2>0, <2>2 DEF Mates, On
      <3> QED BY <3>1, <3>2, <3>3, <3>4 DEF Kept
    <2>9. ASSUME NEW o \in 1 .. Len(ops), Owed(ops', o) PROVE Kept(o)'
      <3>1. Kept(o)
        BY <2>3, <2>9 DEF KeptInv, Owed
      <3>2. Spares(a, Idle, t, o)
        BY <1>1, <2>5, ExtendsSpares
      <3> QED BY <1>1, <2>2, <3>1, <3>2, KeptOn
    <2>10. \A o \in 1 .. Len(ops') : o \in 1 .. Len(ops) \/ o = last
      BY <2>0, <2>1
    <2> QED BY <2>8, <2>9, <2>10 DEF KeptInv
  <1>3. ASSUME NEW used, AtOnce(a, used), UNCHANGED <<World, tables, ops>> PROVE KeptInv'
    BY <1>1, <1>3, BeginBecomes, PlainKept DEF World, AtOnce
  <1>4. ASSUME NEW fd, NEW dir, NEW target, UNCHANGED <<World, tables, ops>>,
               Start(a, [Idle EXCEPT !.pc = "open", !.fd = fd, !.e = dir, !.desc = target])
        PROVE  KeptInv'
    <2> DEFINE c == [Idle EXCEPT !.pc = "open", !.fd = fd, !.e = dir, !.desc = target]
    <2>1. c.pc = "open" /\ Becomes(a, c)
      BY <1>4 DEF Idle, Start, Becomes
    <2> HIDE DEF c
    <2> QED BY <1>1, <1>4, <2>1, PlainKept DEF World
  <1> QED BY Zenon, <1>2, <1>3, <1>4, OpenatCases

LEMMA MakesKept ==
    ASSUME RightInv, TypeInv, KeptInv, ~rude, ~rude', NEW a \in Threads, Ready(a), MakesDescriptors(a) \/ MakesProcess(a)
    PROVE  KeptInv'
PROOF
  <1>1. /\ LowestInv /\ ProcOf[a] \in known /\ ~Flushes(call[a]) /\ Idle.pc # "install" /\ call[a].pc = "idle"
        /\ call[a].t = 0
    BY Beginning
  <1>2. ASSUME UNCHANGED <<known, tableOf, tables, ops>>, NEW c, Becomes(a, c), c.pc = "install" => At(a, "closeold")
        PROVE  KeptInv'
    BY <1>1, <1>2, PlainKept DEF At
  <1>3. ASSUME handle_socket(a) \/ handle_pipe2(a) \/ handle_fcntl(a) \/ handle_dup2(a) \/ handle_dup3(a) \/ MakesProcess(a)
        PROVE  KeptInv'
    <2>1. UNCHANGED <<known, tableOf, tables>>
      <3>1. ASSUME NEW v, Forward(a, v) PROVE UNCHANGED <<known, tableOf, tables>>
        BY <3>1 DEF Forward, Untranslated, World
      <3>2. ASSUME handle_fcntl(a) PROVE UNCHANGED <<known, tableOf, tables>>
        BY Zenon, <3>1, <3>2 DEF handle_fcntl, Translate, DupUnknown, World
      <3>3. ASSUME MakesProcess(a) PROVE UNCHANGED <<known, tableOf, tables>>
        <4>1. PICK fs, then : Spawn(a, fs, then)
          BY <3>3 DEF MakesProcess, handle_fork, handle_vfork, handle_clone, handle_clone3
        <4> QED BY Zenon, <4>1 DEF Spawn
      <3>4. ASSUME DupTo(a) PROVE UNCHANGED <<known, tableOf, tables>>
        BY Zenon, <3>4 DEF DupTo, World
      <3>5. ASSUME handle_socket(a) \/ handle_pipe2(a) PROVE UNCHANGED <<known, tableOf, tables>>
        BY <3>5 DEF handle_socket, handle_pipe2, World
      <3> QED BY <1>3, <3>2, <3>3, <3>4, <3>5 DEF handle_dup2, handle_dup3
    <2>2. UNCHANGED ops /\ \E c : Becomes(a, c) /\ (c.pc = "install" => At(a, "closeold"))
      BY <1>1, <1>3, LeavesData
    <2> QED BY <1>2, <2>1, <2>2
  <1>4. ASSUME handle_dup(a) PROVE KeptInv'
    <2>0. UNCHANGED <<known, tableOf>>
      BY Zenon, <1>4 DEF handle_dup, DupUnknown, World
    <2>1. UNCHANGED <<known, tableOf, ops>> /\ \E c : Becomes(a, c) /\ (c.pc = "install" => At(a, "closeold"))
      BY <1>1, <1>4, <2>0, LeavesData
    <2>2. \/ UNCHANGED tables
          \/ \E v \in Fds : /\ CanAllocate(Table(a))
                            /\ Retable(a, Idle, {v}, allocated(Table(a)), allocate(Table(a), Entry(a, v)))
      BY <1>4 DEF handle_dup, DupUnknown
    <2>3. ASSUME NEW v \in Fds, CanAllocate(Table(a)),
                 Retable(a, Idle, {v}, allocated(Table(a)), allocate(Table(a), Entry(a, v)))
          PROVE  KeptInv'
      <3> DEFINE t == allocate(Table(a), Entry(a, v))
      <3>1. Extends(Table(a), t) /\ SetTable(a, t) /\ Becomes(a, Idle)
        BY <1>1, <2>3, Same, AllocateExtends, RetableBecomes DEF RightInv
      <3> HIDE DEF t
      <3>2. \A o : Spares(a, Idle, t, o)
        BY <1>1, <3>1, ExtendsSpares
      <3> QED BY <1>1, <2>1, <3>1, <3>2, KeptMove
    <2> QED BY <1>2, <2>1, <2>2, <2>3
  <1>5. ASSUME handle_close(a) PROVE KeptInv'
    <2>1. PICK v \in Fds :
             \/ Entry(a, v).kind # "none" /\ Retable(a, Closing(Entry(a, v)), {}, v, deallocate(Table(a), v))
             \/ AtOnce(a, {v}) /\ UNCHANGED tables
      BY <1>5 DEF handle_close
    <2>2. UNCHANGED <<known, tableOf, ops>>
      BY <1>5 DEF handle_close, World
    <2>3. CASE AtOnce(a, {v}) /\ UNCHANGED tables
      BY <1>1, <1>2, <2>2, <2>3, BeginBecomes DEF AtOnce
    <2>4. ASSUME Entry(a, v).kind # "none", Retable(a, Closing(Entry(a, v)), {}, v, deallocate(Table(a), v))
          PROVE  KeptInv'
      <3> DEFINE t == deallocate(Table(a), v)
                 e == Entry(a, v)
                 c == Closing(e)
      <3>1. v \in DOMAIN Table(a).entries /\ e = Table(a).entries[v] /\ Good(Table(a)) /\ Becomes(a, c)
        BY <1>1, <2>4, Same, RetableBecomes DEF RightInv, Entry, Has, NoEntry
      <3>2. t.entries = [x \in DOMAIN Table(a).entries \ {v} |-> Table(a).entries[x]]
        BY <3>1, DeallocateGood DEF Has
      <3> HIDE DEF t, e
      <3>3. ASSUME e.kind = "virt", IsFile(e.o) PROVE Flushes(c) /\ c.o = e.o
        BY <3>3 DEF Closing, Idle, Flushes
      <3>4. c.pc # "install"
        BY DEF Closing, Idle
      <3> HIDE DEF c
      <3>5. ASSUME NEW o \in 1 .. Len(ops), ops[o].kind = "file" PROVE Spares(a, c, t, o)
        <4>1. IsFile(o)
          BY <3>5 DEF IsFile
        <4>2. ASSUME NEW w, Refers(Table(a).entries, w, o)
              PROVE  (Refers(t.entries, w, o) /\ c.pc # "install") \/ (Flushes(c) /\ c.o = o)
          <5>1. CASE w = v
            BY <3>1, <3>3, <4>1, <4>2, <5>1 DEF Refers
          <5>2. CASE w # v
            BY <3>2, <3>4, <4>2, <5>2 DEF Refers
          <5> QED BY <5>1, <5>2
        <4> QED BY <1>1, <4>2 DEF Spares
      <3>6. SetTable(a, t)
        BY <2>4, RetableBecomes DEF t
      <3>7. \A o \in 1 .. Len(ops) : Owed(ops, o) => Spares(a, c, t, o)
        BY <3>5 DEF Owed
      <3> QED BY <1>1, <2>2, <3>1, <3>6, <3>7, KeptMove
    <2> QED BY <2>1, <2>3, <2>4
  <1> QED BY <1>3, <1>4, <1>5, OpenatKept DEF MakesDescriptors

\* dup2 replaces the entry it has read and, if that was a file's, flushed.
LEMMA TargetSpares ==
    ASSUME RightInv, ~rude, NEW a \in Threads, Installing(call[a]), NEW c, c.pc = "install", c.to = call[a].to,
           NEW o, ~(Flushes(call[a]) /\ call[a].o = o),
           call[a].old.kind = "virt" => call[a].old.o # o
    PROVE  Spares(a, c, Table(a), o)
PROOF
  <1>1. call[a].pc \notin {"idle", "inherit"}
    BY DEF Installing
  <1>2. CallOK(call[a], Table(a).entries, Kernel(a))
    BY <1>1, Underway
  <1>3. call[a].old = EntryAt(Table(a).entries, call[a].to)
    BY <1>2 DEF CallOK
  <1> QED BY <1>3 DEF Spares, Refers, EntryAt

LEMMA ResumeKept ==
    ASSUME RightInv, TypeInv, KeptInv, ~rude, NEW a \in Threads,
           \/ open_result(a) \/ allocate_fd(a) \/ pipe_result(a) \/ Duplicate(a) \/ allocate_min_fd(a)
           \/ close_old(a) \/ install(a) \/ close_kernel_fd(a) \/ inject(a)
    PROVE  KeptInv'
PROOF
  <1>1. /\ call[a].pc \notin {"idle", "inherit", "flush", "pwrite", "truncate"} /\ UNCHANGED <<known, tableOf, ops>>
    BY DEF open_result, allocate_fd, pipe_result, Duplicate, allocate_min_fd, close_old, install, close_kernel_fd,
           inject, At, World
  <1>2. /\ LowestInv /\ ProcOf[a] \in known /\ ~Flushes(call[a]) /\ Idle.pc # "install" /\ a \in Mates(a) /\ Sound(call[a])
        /\ call[a].t = 0
    BY <1>1, Underway, IdleSound DEF RightInv, Flushes
  <1>3. Good(Table(a)) /\ SetTable(a, Table(a)) <=> Good(Table(a)) /\ tables' = tables
    BY Same DEF RightInv, SetTable
  <1>4. ASSUME NEW t, Extends(Table(a), t), Give(a, t) PROVE KeptInv'
    <2>1. SetTable(a, t) /\ Becomes(a, Idle)
      BY <1>4 DEF Give, Becomes
    <2>2. \A o : Spares(a, Idle, t, o)
      BY <1>2, <1>4, ExtendsSpares
    <2> QED BY <1>1, <1>2, <2>1, <2>2, KeptMove
  <1>5. Good(Table(a))
    BY Same DEF RightInv
  <1>6. ASSUME open_result(a) \/ Duplicate(a) \/ close_kernel_fd(a) \/ inject(a) PROVE KeptInv'
    <2>1. tables' = tables /\ ~At(a, "closeold")
      BY <1>6 DEF open_result, Duplicate, close_kernel_fd, inject, At
    <2>2. \E c : Becomes(a, c) /\ c.pc # "install"
      BY <1>2, <1>6, <2>1, LeavesData
    <2> QED BY <1>1, <1>2, <2>1, <2>2, PlainKept
  <1>7. ASSUME allocate_fd(a) PROVE KeptInv'
    BY <1>4, <1>5, <1>7, AllocateExtends DEF allocate_fd
  <1>8. ASSUME pipe_result(a) PROVE KeptInv'
    <2> DEFINE t == allocate(Table(a), call[a].e)
               u == allocate(t, call[a].old)
    <2>1. CanAllocate(Table(a)) /\ CanAllocate(t) /\ Give(a, u)
      BY <1>8 DEF pipe_result
    <2>2. Extends(Table(a), t) /\ Good(t)
      BY <1>5, <2>1, AllocateExtends, AllocateGood
    <2> HIDE DEF t
    <2>3. Extends(t, u)
      BY <2>1, <2>2, AllocateExtends
    <2> HIDE DEF u
    <2>4. Extends(Table(a), u)
      BY <2>2, <2>3 DEF Extends
    <2> QED BY <1>4, <2>1, <2>4
  <1>9. ASSUME allocate_min_fd(a) PROVE KeptInv'
    <2> DEFINE e == [call[a].e EXCEPT !.k = call[a].k]
               t == allocate_min(Table(a), call[a].to, e)
               w == allocated_min(Table(a), call[a].to)
    <2>1. (\E v \in Fds : v >= call[a].to /\ ~Has(Table(a), v)) /\ Give(a, t)
      BY <1>9 DEF allocate_min_fd
    <2> HIDE DEF e
    <2>2. w \in Fds /\ ~Has(Table(a), w) /\ t = allocate_at(Table(a), w, e)
      BY <1>5, <2>1, AllocateMinGood
    <2> HIDE DEF w, t
    <2>3. t.entries = [x \in DOMAIN Table(a).entries \cup {w} |-> IF x = w THEN e ELSE Table(a).entries[x]]
      BY <1>5, <2>2, AllocateAtGood
    <2>4. Extends(Table(a), t)
      BY <2>2, <2>3 DEF Extends, Has
    <2> QED BY <1>4, <2>1, <2>4
  <1>10. ASSUME close_old(a) PROVE KeptInv'
    <2> DEFINE c == call[a]
               go == [c EXCEPT !.pc = "install"]
               fl == [c EXCEPT !.pc = "flush", !.o = c.old.o, !.next = "install"]
    <2>1. c.pc = "closeold" /\ tables' = tables /\ Installing(c)
      BY <1>10 DEF close_old, At, Installing
    <2>2. go.pc = "install" /\ go.to = c.to /\ fl.pc = "flush"
      BY <1>2 DEF Sound, ShapedCall
    <2>3. Goto(a, Idle) \/ (Goto(a, go) /\ ~(c.old.kind = "virt" /\ IsFile(c.old.o))) \/ Goto(a, fl)
      BY <1>10 DEF close_old
    <2> HIDE DEF go, fl
    <2>4. ASSUME Goto(a, go), ~(c.old.kind = "virt" /\ IsFile(c.old.o)) PROVE KeptInv'
      <3>1. ASSUME NEW o \in 1 .. Len(ops), ops[o].kind = "file" PROVE Spares(a, go, Table(a), o)
        <4>1. IsFile(o)
          BY <3>1 DEF IsFile
        <4> QED BY <1>2, <2>1, <2>2, <2>4, <4>1, TargetSpares
      <3>2. SetTable(a, Table(a)) /\ Becomes(a, go)
        BY <1>3, <1>5, <2>1, <2>4, GotoBecomes
      <3>3. \A o \in 1 .. Len(ops) : Owed(ops, o) => Spares(a, go, Table(a), o)
        BY <3>1 DEF Owed
      <3> QED BY <1>1, <1>2, <3>2, <3>3, KeptMove
    <2> QED BY <1>1, <1>2, <2>1, <2>2, <2>3, <2>4, PlainKept, GotoBecomes
  <1>11. ASSUME install(a) PROVE KeptInv'
    <2> DEFINE w == call[a].to
               e == NewEntry(call[a])
               t == allocate_at(Table(a), w, e)
    <2>1. call[a].pc = "install" /\ SetTable(a, t) /\ Becomes(a, Idle)
      BY <1>11 DEF install, At, NewEntry, Becomes
    <2>2. w \in Fds
      BY <1>2, <2>1 DEF Sound, Installs
    <2> HIDE DEF e
    <2>3. t.entries = [x \in DOMAIN Table(a).entries \cup {w} |-> IF x = w THEN e ELSE Table(a).entries[x]]
      BY <1>5, <2>2, AllocateAtGood
    <2> HIDE DEF t
    <2>4. ASSUME NEW o PROVE Spares(a, Idle, t, o)
      <3>1. ASSUME NEW v, Refers(Table(a).entries, v, o), Unreplaced(v, call, Mates(a)) PROVE Refers(t.entries, v, o)
        <4>1. v # w
          BY <1>2, <2>1, <3>1 DEF Unreplaced
        <4> QED BY <2>3, <3>1, <4>1 DEF Refers
      <3> QED BY <1>2, <3>1 DEF Spares
    <2> QED BY <1>1, <1>2, <2>1, <2>4, KeptMove
  <1> QED BY <1>6, <1>7, <1>8, <1>9, <1>10, <1>11

\* A step of a flush goes on with it, or ends it when the file is clean.
FlushesOn(a) == \E d : Becomes(a, d) /\ Flushes(d) /\ d.o = call[a].o /\ ops' = ops
FlushesOff(a) ==
    \E d : /\ Becomes(a, d) /\ d.pc = call[a].next /\ d.to = call[a].to
           /\ \A o \in 1 .. Len(ops') : Owed(ops', o) => o \in 1 .. Len(ops) /\ Owed(ops, o) /\ o # call[a].o

LEMMA FlushKept ==
    ASSUME RightInv, TypeInv, KeptInv, ~rude, NEW a \in Threads, fsync(a) \/ fsync_pwrite(a) \/ fsync_truncate(a)
    PROVE  KeptInv'
PROOF
  <1> DEFINE c == call[a]
  <1>1. LowestInv /\ Flushes(c) /\ CallTyped(c, ops, db) /\ Sound(c) /\ DataOK(ops, db)
    BY TypedTable DEF fsync, fsync_pwrite, fsync_truncate, At, Flushes, TypeInv, RightInv
  <1>2. c.o \in 1 .. Len(ops) /\ c.next \in {"idle", "install"} /\ (c.next = "install" => c.old.kind = "virt" /\ c.old.o = c.o)
    BY <1>1 DEF CallTyped
  <1>3. ProcOf[a] \in known /\ c.t = 0
    BY <1>1, Underway DEF Flushes
  <1>4. UNCHANGED <<known, tableOf, tables>>
    BY FsyncCases, StoreCases, <1>1 DEF World
  <1>5. SetTable(a, Table(a))
    BY <1>4, Same DEF RightInv
  <1>6. FlushesOn(a) \/ FlushesOff(a)
    <2>1. /\ Settled(c).pc = c.next /\ Settled(c).to = c.to
          /\ Overwriting(c).pc = "truncate" /\ Overwriting(c).o = c.o
          /\ \A s, i : WritingOut(c, s, i).pc = "pwrite" /\ WritingOut(c, s, i).o = c.o
      BY <1>1, FlushFields
    <2>2. ASSUME NEW f, ~f.dirty \/ f.failed, ops' = [ops EXCEPT ![c.o] = f], Becomes(a, Settled(c))
          PROVE  FlushesOff(a)
      <3>1. PICK S : ops \in Seq(S)
        BY <1>1 DEF DataOK, OpsOK, IsSeq
      <3> HIDE DEF c
      <3>2. Len(ops') = Len(ops) /\ ops'[c.o] = f /\ \A u \in 1 .. Len(ops) : u # c.o => ops'[u] = ops[u]
        <4>1. ops \in Seq(S \cup {f})
          BY <3>1
        <4>2. ops \in [1 .. Len(ops) -> S] /\ Len(ops) \in Nat
          BY <3>1
        <4> QED BY <1>2, <2>2, <4>1, <4>2
      <3>3. \A o \in 1 .. Len(ops') : Owed(ops', o) => o \in 1 .. Len(ops) /\ Owed(ops, o) /\ o # c.o
        BY <2>2, <3>2 DEF Owed
      <3> QED BY <2>1, <2>2, <3>3 DEF FlushesOff, c
    <2>3. FileOK(ops[c.o], db) /\ Failing(ops[c.o]).failed /\ ~Clean(ops[c.o]).dirty
      <3>1. FileOK(ops[c.o], db)
        BY <1>1, <1>2 DEF DataOK, OpsOK
      <3> QED BY <3>1 DEF FileOK, Failing, Clean
    <2>4. CASE fsync(a)
      <3>1. \/ (~ops[c.o].dirty \/ ops[c.o].ino = 0) /\ Becomes(a, Settled(c)) /\ ops' = ops
            \/ (\E s, i : Becomes(a, WritingOut(c, s, i))) /\ ops' = ops
            \/ Becomes(a, Settled(c)) /\ ops' = [ops EXCEPT ![c.o] = Failing(ops[c.o])]
        BY <1>1, <2>4, FsyncCases
      <3>2. CASE (\E s, i : Becomes(a, WritingOut(c, s, i))) /\ ops' = ops
        BY <2>1, <3>2 DEF FlushesOn, Flushes
      <3>3. CASE (~ops[c.o].dirty \/ ops[c.o].ino = 0) /\ Becomes(a, Settled(c)) /\ ops' = ops
        BY <2>1, <3>3 DEF FlushesOff, Owed
      <3>4. CASE Becomes(a, Settled(c)) /\ ops' = [ops EXCEPT ![c.o] = Failing(ops[c.o])]
        BY <2>2, <2>3, <3>4
      <3> QED BY <3>1, <3>2, <3>3, <3>4
    <2>5. CASE fsync_pwrite(a) \/ fsync_truncate(a)
      <3>1. \/ Becomes(a, Overwriting(c)) /\ ops' = ops
            \/ Becomes(a, Settled(c)) /\ ops' = [ops EXCEPT ![c.o] = Clean(ops[c.o])]
            \/ Becomes(a, Settled(c)) /\ ops' = [ops EXCEPT ![c.o] = Failing(ops[c.o])]
        BY <1>1, <2>5, StoreCases
      <3>2. CASE Becomes(a, Overwriting(c)) /\ ops' = ops
        BY <2>1, <3>2 DEF FlushesOn, Flushes
      <3> QED BY <2>2, <2>3, <3>1, <3>2
    <2> QED BY <1>1, <2>4, <2>5
  <1>7. CASE FlushesOn(a)
    <2>1. PICK d : Becomes(a, d) /\ Flushes(d) /\ d.o = c.o /\ ops' = ops
      BY <1>7 DEF FlushesOn
    <2>2. \A o : Spares(a, d, Table(a), o)
      BY <2>1 DEF Spares, Flushes
    <2> QED BY <1>1, <1>3, <1>4, <1>5, <2>1, <2>2, KeptMove
  <1>8. CASE FlushesOff(a)
    <2>1. PICK d : /\ Becomes(a, d) /\ d.pc = c.next /\ d.to = c.to
                   /\ \A o \in 1 .. Len(ops') : Owed(ops', o) => o \in 1 .. Len(ops) /\ Owed(ops, o) /\ o # c.o
      BY <1>8 DEF FlushesOff
    <2>2. ASSUME NEW o, o # c.o PROVE Spares(a, d, Table(a), o)
      <3>1. CASE c.next = "install"
        <4>1. Installing(c)
          BY <1>1, <3>1 DEF Installing, Flushes
        <4> QED BY <1>2, <2>1, <2>2, <3>1, <4>1, TargetSpares
      <3>2. CASE c.next # "install"
        BY <2>1, <2>2, <3>2 DEF Spares
      <3> QED BY <3>1, <3>2
    <2>3. \A o \in 1 .. Len(ops') : Owed(ops', o) => o \in 1 .. Len(ops) /\ Owed(ops, o) /\ Spares(a, d, Table(a), o)
      BY <2>1, <2>2
    <2> QED BY <1>1, <1>3, <1>4, <1>5, <2>1, <2>3, KeptMove
  <1> QED BY <1>6, <1>7, <1>8

\* A fork adds a table; the calls of the child's threads have not begun.
LEMMA InheritKept ==
    ASSUME RightInv, KeptInv, ~rude, NEW a \in Threads, insert_fd_table(a)
    PROVE  KeptInv'
PROOF
  <1>1. /\ LowestInv /\ KernelInv /\ call[a].pc = "inherit" /\ ops' = ops
        /\ Child \notin known /\ known' = known \cup {Child} /\ ProcOf[a] = First
    BY DEF RightInv, ForkInv, insert_fd_table, At
  <1>2. \A b \in Threads : call'[b] = IF b = a THEN Idle ELSE call[b]
    <2>1. \A b \in Threads : ProcOf[b] = Child => call[b].pc = "idle"
      BY <1>1, IdleSound DEF KernelInv
    <2> QED BY <2>1 DEF insert_fd_table
  <1>3. Len(tables) <= Len(tables') /\ Len(tables) \in Nat /\ Len(tables') \in Nat /\ \A m \in 1 .. Len(tables) : tables'[m] = tables[m]
    <2>1. PICK S : tables \in Seq(S)
      BY <1>1 DEF LowestInv, TablesInv, IsSeq
    <2>2. tables' = tables \/ tables' = Append(tables, Table(a))
      BY DEF insert_fd_table
    <2>3. tables \in Seq(S \cup {Table(a)})
      BY <2>1
    <2> QED BY <2>2, <2>3
  <1>4. ASSUME NEW m, NEW b \in On(m)', call'[b].pc = "install" PROVE b \in On(m) /\ call[b].pc = "install"
    <2>1. b \in Threads /\ call'[b] = call[b] /\ call[b].pc = "install"
      BY <1>2, <1>4, IdleSound DEF On
    <2>2. ProcOf[b] \in known
      BY <1>1, <2>1, IdleSound DEF KernelInv
    <2>3. tableOf'[ProcOf[b]] = tableOf[ProcOf[b]]
      BY <1>1, <2>2, SandboxAssumption DEF insert_fd_table, LowestInv, TablesInv
    <2> QED BY <1>4, <2>1, <2>2, <2>3 DEF On
  <1>5. ASSUME NEW o, Kept(o) PROVE Kept(o)'
    <2>1. ASSUME NEW b \in Threads, Flushes(call[b]), call[b].o = o PROVE Kept(o)'
      <3>1. b # a
        BY <1>1, <2>1 DEF Flushes
      <3> QED BY <1>2, <2>1, <3>1 DEF Kept
    <2>2. ASSUME NEW m \in 1 .. Len(tables), NEW v, Refers(tables[m].entries, v, o), Unreplaced(v, call, On(m)) PROVE Kept(o)'
      <3>1. Unreplaced(v, call', On(m)')
        <4>1. ASSUME NEW b \in On(m)', call'[b].pc = "install" PROVE call'[b].to # v
          <5>1. b \in On(m) /\ call[b].pc = "install" /\ b \in Threads
            BY <1>4, <4>1 DEF On
          <5>2. call'[b] = call[b]
            BY <1>1, <1>2, <5>1
          <5> QED BY <2>2, <5>1, <5>2 DEF Unreplaced
        <4> QED BY <4>1 DEF Unreplaced
      <3>2. m \in 1 .. Len(tables') /\ Refers(tables'[m].entries, v, o)
        BY <1>3, <2>2
      <3> QED BY <3>1, <3>2 DEF Kept
    <2> QED BY <1>5, <2>1, <2>2 DEF Kept
  <1> QED BY <1>1, <1>5 DEF KeptInv

-----------------------------------------------------------------------------
LostInv == RightInv /\ TypeInv /\ FlushInv /\ (~rude => KeptInv)

LEMMA LostInit == Init => LostInv
PROOF
  <1>1. Init => KeptInv
    BY DEF Init, KeptInv
  <1> QED BY <1>1, RightInit, TypeInit, FlushInit DEF LostInv

LEMMA StaysRude ==
    ASSUME NEW a \in Threads, RightInv, TypeInv, dispatch_syscall(a) \/ Resume(a) \/ get_fd_table(a), ~rude'
    PROVE  ~rude
PROOF
  <1>1. ASSUME Outcome(a) PROVE ~rude
    BY Zenon, <1>1 DEF Outcome
  <1>2. ASSUME Ready(a), UsesDescriptor(a) \/ NamesPath(a) PROVE ~rude
    BY <1>1, <1>2, Calls, QuietOutcome, ForwardedOutcome DEF RightInv
  <1>3. ASSUME Ready(a), MakesProcess(a) PROVE ~rude
    <2>1. PICK fs, then : Spawn(a, fs, then)
      BY <1>3 DEF MakesProcess, handle_fork, handle_vfork, handle_clone, handle_clone3
    <2> QED BY Zenon, <2>1 DEF Spawn
  <1>4. ASSUME Exec(a) \/ Exit(a) PROVE ~rude
    BY Zenon, <1>4 DEF Exec, Exit
  <1>5. ASSUME Resume(a) PROVE ~rude
    BY <1>1, <1>5, ResumeOutcome DEF insert_fd_table
  <1>6. ~get_fd_table(a)
    BY DEF get_fd_table
  <1> QED BY <1>1, <1>2, <1>3, <1>4, <1>5, <1>6, MakesOutcome DEF dispatch_syscall

LEMMA LostStep == LostInv /\ [Next]_vars => LostInv'
PROOF
  <1> SUFFICES ASSUME LostInv, [Next]_vars PROVE LostInv'
    OBVIOUS
  <1>1. RightInv' /\ TypeInv' /\ FlushInv'
    BY RightStep, TypeStep, FlushStep DEF LostInv, RightInv
  <1>2. ASSUME ~rude', NEW a \in Threads, dispatch_syscall(a) \/ Resume(a) \/ get_fd_table(a) PROVE KeptInv'
    <2>1. ~rude /\ KeptInv /\ RightInv /\ TypeInv
      BY <1>2, StaysRude DEF LostInv
    <2>2. CASE Exec(a) \/ Exit(a)
      <3>1. UNCHANGED <<known, tableOf, tables, ops, db, call>>
        BY <2>2, LeavesSame
      <3>2. \A n : On(n)' = On(n)
        BY <3>1 DEF On
      <3>3. \A o : Kept(o) => Kept(o)'
        BY <3>1, <3>2 DEF Kept
      <3> QED BY <2>1, <3>1, <3>3 DEF KeptInv
    <2>3. CASE Ready(a) /\ (MakesDescriptors(a) \/ UsesDescriptor(a) \/ NamesPath(a) \/ MakesProcess(a))
      BY <1>2, <2>1, <2>3, CallsKept, MakesKept
    <2>4. CASE Resume(a)
      BY <2>1, <2>4, ResumeKept, InheritKept, FlushKept DEF Resume
    <2>5. ~get_fd_table(a)
      BY <1>2 DEF get_fd_table
    <2> QED BY <1>2, <2>2, <2>3, <2>4, <2>5 DEF dispatch_syscall
  <1>3. ASSUME ~rude', UNCHANGED vars PROVE KeptInv'
    BY <1>3 DEF LostInv, vars, KeptInv, Kept, On
  <1>4. \/ UNCHANGED vars
        \/ \E a \in Threads : dispatch_syscall(a) \/ Resume(a) \/ get_fd_table(a)
    BY Zenon DEF Next
  <1>5. ~rude' => KeptInv'
    BY <1>2, <1>3, <1>4
  <1> QED BY <1>1, <1>5 DEF LostInv

\* What the guest wrote to a stored file that nobody else opened, no write having
\* met a flush, is in the database once no descriptor and no handler holds the
\* file, unless the last flush of it failed: for any number of threads, whichever
\* of close, dup2 and dup3 closed the last descriptor, before or after a fork, with
\* any calls between the three steps of a flush, each of which may fail, and with
\* an earlier failure made up for by the next flush (sqlite.rs: SqliteFileOps::fsync
\* and close; file.rs, which drops the errors).  `rude` leaves out what it does in
\* DescriptorsKeepTheirFiles.
THEOREM NothingIsLost == Spec => []NothingLost
PROOF
  <1>1. LostInv => NothingLost
    <2> SUFFICES ASSUME LostInv, ~rude, NEW o \in 1 .. Len(ops), ops[o].kind = "file", ops[o].ino # 0,
                        ~ops[o].overlapped, ~ops[o].failed, ~Held(o), Alone(o)
                 PROVE  db.data[ops[o].ino] = ops[o].data
      BY DEF NothingLost
    <2>1. Own(ops, db, o)
      BY DEF Own, Apart, Alone, SameFile, StoredAs, Inos
    <2>2. ~Kept(o)
      <3>1. \A n \in 1 .. Len(tables) : \A v : ~Refers(tables[n].entries, v, o)
        BY DEF Held, Refers
      <3> QED BY <3>1 DEF Kept, Held
    <2>3. ~ops[o].dirty
      BY <2>2 DEF LostInv, KeptInv, Owed
    <2> QED BY <2>1, <2>3 DEF LostInv, FlushInv, Backed
  <1> QED BY <1>1, LostInit, LostStep, PTL DEF Spec
=============================================================================
