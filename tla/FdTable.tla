-------------------------------- MODULE FdTable --------------------------------
(***************************************************************************)
(* sandbox/src/vfs/fdtable.rs: the descriptors a sandboxed process sees.   *)
(* A table is a record                                                     *)
(*     entries: descriptor -> entry     next_vfd: the next one never used  *)
(*     free_fds: descriptors below next_vfd that were given back           *)
(* The heap free_fds is a set: what is pushed has just left `entries` or   *)
(* is at least next_vfd, so TableOK rules a second copy out.  Every        *)
(* operator is one holding of the table's mutex.                           *)
(***************************************************************************)
EXTENDS Integers, FiniteSets, FiniteSetsExt

CONSTANTS FIRST_USER_FD,   \* 3 in the code
          MaxFd            \* stands for i32::MAX
ASSUME FdAssumption == FIRST_USER_FD \in Nat /\ MaxFd \in Nat /\ FIRST_USER_FD < MaxFd

Fds == 0..(MaxFd - 1)
StdFds == 0..(FIRST_USER_FD - 1)

new_table(std) == [entries |-> std, next_vfd |-> FIRST_USER_FD, free_fds |-> {}]

Has(t, v) == v \in DOMAIN t.entries
Insert(t, v, e) == [t EXCEPT !.entries = [x \in DOMAIN @ \cup {v} |-> IF x = v THEN e ELSE @[x]]]

CanAllocate(t) == t.free_fds # {} \/ t.next_vfd < MaxFd

\* The descriptor `allocate` takes: the lowest one given back, else a new one.
allocated(t) == IF t.free_fds # {} THEN Min(t.free_fds) ELSE t.next_vfd
allocate(t, e) ==
    LET v == allocated(t)
    IN Insert([t EXCEPT !.free_fds = @ \ {v}, !.next_vfd = IF v = @ THEN @ + 1 ELSE @], v, e)

\* v is taken out of turn: what lies between becomes free.
Skip_NoGap(t, v) == [t EXCEPT !.free_fds = @ \ {v}, !.next_vfd = IF v >= @ THEN v + 1 ELSE @]
Skip(t, v) ==
    IF v < t.next_vfd THEN [t EXCEPT !.free_fds = @ \ {v}]
    ELSE [t EXCEPT !.free_fds = (@ \cup {x \in t.next_vfd..(v - 1) : x >= FIRST_USER_FD /\ ~Has(t, x)}) \ {v},
                   !.next_vfd = v + 1]

allocated_min(t, min) == Min({v \in Fds : v >= min /\ ~Has(t, v)})
allocate_min(t, min, e) == Insert(Skip(t, allocated_min(t, min)), allocated_min(t, min), e)

allocate_at(t, v, e) == Insert(Skip(t, v), v, e)

deallocate(t, v) ==
    [t EXCEPT !.entries = [x \in DOMAIN @ \ {v} |-> @[x]],
              !.free_fds = IF v >= FIRST_USER_FD THEN @ \cup {v} ELSE @]

\* `allocate` gives the lowest descriptor that is free: what lies below
\* next_vfd is in use or given back, never neither and never both.
TableOK(t) ==
    /\ t.next_vfd \in FIRST_USER_FD..MaxFd
    /\ \A v \in DOMAIN t.entries : v \in 0..(t.next_vfd - 1)
    /\ t.free_fds = (FIRST_USER_FD..(t.next_vfd - 1)) \ DOMAIN t.entries
================================================================================
