--------------------------- MODULE ConnectionPool ---------------------------
(***************************************************************************)
(* sdk/rust/src/connection_pool.rs: a semaphore of MAX_CONNECTIONS         *)
(* permits, a mutex-protected vector of idle connections, and a guard      *)
(* whose Drop returns the connection (if it gets the mutex without         *)
(* waiting) before its permit field is dropped.                            *)
(*                                                                         *)
(* Tasks run in parallel; a future may be dropped at any of its awaits     *)
(* (Cancel), and the time-out of get_connection may fire for any waiter.   *)
(* tokio's Semaphore is external: permits go to the waiters in the order   *)
(* in which they queued, and dropping a future that was handed one passes  *)
(* it on.                                                                  *)
(***************************************************************************)
EXTENDS Integers, Sequences, FiniteSets

CONSTANTS
    Tasks,
    NoTask,          \* the mutex is free
    MaxConnections,  \* MAX_CONNECTIONS
    MaxCreated       \* bound: calls of db.connect()

ASSUME PoolAssumption ==
    /\ NoTask \notin Tasks
    /\ MaxConnections \in Nat \ {0}
    /\ MaxCreated \in Nat

VARIABLES
    pc,       \* where each task is in get_connection and Drop
    queue,    \* tasks waiting for a permit
    permits,  \* free permits
    pool,     \* idle connections in the vector
    lock,     \* holder of the vector's mutex
    created   \* connections opened so far

vars == <<pc, queue, permits, pool, lock, created>>

\* "permit": waits for the mutex; "locked": holds it; "connect": opens a
\* connection; "held": uses one; "release": Drop has run, the permit field not.
States == {"idle", "waiting", "permit", "locked", "connect", "held", "release"}

TypeOK ==
    /\ pc \in [Tasks -> States]
    /\ queue \in Seq(Tasks)
    /\ permits \in 0 .. MaxConnections
    /\ pool \in Nat
    /\ lock \in Tasks \cup {NoTask}
    /\ created \in 0 .. MaxCreated

Init ==
    /\ pc = [t \in Tasks |-> "idle"]
    /\ queue = <<>>
    /\ permits = MaxConnections
    /\ pool = 0
    /\ lock = NoTask
    /\ created = 0

\* The permit of t goes to the first waiter, or back to the semaphore; t goes on at s.
PassPermit_Lost(t, s) ==
    /\ pc' = [pc EXCEPT ![t] = s]
    /\ IF queue = <<>> THEN permits' = permits + 1 ELSE UNCHANGED permits
    /\ UNCHANGED queue

PassPermit(t, s) ==
    IF queue = <<>>
    THEN /\ pc' = [pc EXCEPT ![t] = s]
         /\ permits' = permits + 1
         /\ UNCHANGED queue
    ELSE /\ pc' = [pc EXCEPT ![t] = s, ![Head(queue)] = "permit"]
         /\ queue' = Tail(queue)
         /\ UNCHANGED permits

\* The waiter takes its node out of the semaphore's list.
LeaveQueue(t) ==
    /\ \E i \in DOMAIN queue :
          /\ queue[i] = t
          /\ queue' = SubSeq(queue, 1, i - 1) \o SubSeq(queue, i + 1, Len(queue))
    /\ pc' = [pc EXCEPT ![t] = "idle"]

(***************************************************************************)
(* get_connection.                                                         *)
(***************************************************************************)
Acquire_PermitDropped(t) ==
    /\ pc[t] = "idle"
    /\ permits > 0
    /\ pc' = [pc EXCEPT ![t] = "permit"]
    /\ UNCHANGED <<queue, permits, pool, lock, created>>

Acquire(t) ==
    /\ pc[t] = "idle"
    /\ IF permits > 0
       THEN /\ permits' = permits - 1
            /\ pc' = [pc EXCEPT ![t] = "permit"]
            /\ UNCHANGED queue
       ELSE /\ queue' = Append(queue, t)
            /\ pc' = [pc EXCEPT ![t] = "waiting"]
            /\ UNCHANGED permits
    /\ UNCHANGED <<pool, lock, created>>

\* Error::ConnectionPoolTimeout.
Timeout(t) ==
    /\ pc[t] = "waiting"
    /\ LeaveQueue(t)
    /\ UNCHANGED <<permits, pool, lock, created>>

LockPool(t) ==
    /\ pc[t] = "permit"
    /\ lock = NoTask
    /\ lock' = t
    /\ pc' = [pc EXCEPT ![t] = "locked"]
    /\ UNCHANGED <<queue, permits, pool, created>>

Pop(t) ==
    /\ pc[t] = "locked"
    /\ lock' = NoTask
    /\ IF pool > 0
       THEN pool' = pool - 1 /\ pc' = [pc EXCEPT ![t] = "held"]
       ELSE UNCHANGED pool /\ pc' = [pc EXCEPT ![t] = "connect"]
    /\ UNCHANGED <<queue, permits, created>>

Connect(t) ==
    /\ pc[t] = "connect"
    /\ created < MaxCreated
    /\ created' = created + 1
    /\ pc' = [pc EXCEPT ![t] = "held"]
    /\ UNCHANGED <<queue, permits, pool, lock>>

ConnectFails(t) ==
    /\ pc[t] = "connect"
    /\ PassPermit(t, "idle")
    /\ UNCHANGED <<pool, lock, created>>

(***************************************************************************)
(* The end of a borrower: Drop, then the drop of its fields.               *)
(***************************************************************************)
DropConnection_NotReturned(t) ==
    /\ pc[t] = "held"
    /\ pc' = [pc EXCEPT ![t] = "release"]
    /\ UNCHANGED <<queue, permits, pool, lock, created>>

DropConnection(t) ==
    /\ pc[t] = "held"
    /\ pool' = IF lock = NoTask THEN pool + 1 ELSE pool
    /\ pc' = [pc EXCEPT ![t] = "release"]
    /\ UNCHANGED <<queue, permits, lock, created>>

ReleasePermit(t) ==
    /\ pc[t] = "release"
    /\ PassPermit(t, "idle")
    /\ UNCHANGED <<pool, lock, created>>

\* The future is dropped while it waits for a permit, for the mutex or for the
\* new connection.
Cancel(t) ==
    /\ \/ pc[t] = "waiting" /\ LeaveQueue(t) /\ UNCHANGED permits
       \/ pc[t] \in {"permit", "connect"} /\ PassPermit(t, "idle")
    /\ UNCHANGED <<pool, lock, created>>

Run(t) ==
    \/ LockPool(t) \/ Pop(t) \/ Connect(t) \/ ConnectFails(t)
    \/ DropConnection(t) \/ ReleasePermit(t)

Next == \E t \in Tasks : Acquire(t) \/ Timeout(t) \/ Run(t) \/ Cancel(t)

(***************************************************************************)
(* The runtime runs every task that can run, and a borrower ends its       *)
(* operation: every function that borrows does so for a finite number of   *)
(* statements.  Nobody is obliged to call, to be cancelled or to time out. *)
(***************************************************************************)
Spec == Init /\ [][Next]_vars /\ \A t \in Tasks : WF_vars(Run(t))

-----------------------------------------------------------------------------
Borrowers == {t \in Tasks : pc[t] \in {"permit", "locked", "connect", "held", "release"}}

\* Permits are neither lost nor duplicated by cancellations, time-outs and
\* failed connects in any order; so with one permit no two operations of AgentFS,
\* KvStore and ToolCalls, which take no other lock, interleave their statements.
PermitsConserved == permits + Cardinality(Borrowers) = MaxConnections

\* A caller that waits for the connection gets it (or gives up): the queue moves
\* on past cancelled, timed-out and failed callers.
WaiterServed == \A t \in Tasks : pc[t] = "waiting" ~> pc[t] # "waiting"
=============================================================================
