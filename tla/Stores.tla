------------------------------- MODULE Stores -------------------------------
(***************************************************************************)
(* One database file: AgentFS::open (lib.rs), the schema it checks and     *)
(* creates (schema.rs, agentfs.rs), the migration command (migrate.rs), and*)
(* the key-value store and tool-call log that work on it through the pool  *)
(* of ConnectionPool.                                                      *)
(*                                                                         *)
(* An operation is the list of the connections it borrows one after the    *)
(* other, each with the list of the statements it runs on it.  A statement *)
(* is a tuple, commits by itself and is one step.  Between two statements  *)
(* the operation may fail or its future be dropped (Abandon), the process  *)
(* may die (Crash), and another process may run: a second AgentFS::open or *)
(* agentfs migrate, each on a connection of its own.                       *)
(***************************************************************************)
EXTENDS ConnectionPool

CONSTANTS
    Keys,      \* keys of kv_store
    MaxCalls,  \* bound: rows of tool_calls
    MaxTime    \* bound: seconds of the clock

ASSUME StoresAssumption == MaxCalls \in Nat /\ MaxTime \in Nat

VARIABLES
    job,      \* what each task still has to do
    conn,     \* pragmas set on the connection: "off" (synchronous), "busy"
    tables,   \* tables that exist, and "root" for the root's row
    columns,  \* the columns of fs_inode that came after version 0.0
    kv,       \* kv_store: created_at and updated_at of each key
    calls,    \* tool_calls, by id
    now,      \* unixepoch()
    opened,   \* the processes whose AgentFS::open has returned Ok
    cli       \* what the other process still has to do

stores == <<tables, columns, kv, calls>>
svars == <<pc, queue, permits, pool, lock, created,
           job, conn, tables, columns, kv, calls, now, opened, cli>>

Nsec == {"atime_nsec", "mtime_nsec", "ctime_nsec"}
Columns == {"nlink", "rdev"} \cup Nsec
FsTables == {"fs_config", "fs_inode", "fs_dentry", "fs_data", "fs_symlink"}
AllTables == FsTables \cup {"kv_store", "tool_calls", "root"}
Null == -1

Call(st, s, c, d, r, e) ==
    [status |-> st, started |-> s, completed |-> c, duration |-> d, result |-> r, error |-> e]

StoresTypeOK ==
    /\ TypeOK
    /\ DOMAIN job = Tasks
    /\ \A t \in Tasks : pc[t] \notin {"idle", "release"} => job[t] # <<>>
    /\ conn \subseteq {"off", "busy"}
    /\ tables \subseteq AllTables
    /\ columns \subseteq Columns
    /\ "fs_inode" \notin tables => columns = {} /\ "root" \notin tables
    /\ kv \in [Keys -> {<<>>} \cup ((0 .. MaxTime) \X (0 .. MaxTime))]
    /\ Len(calls) <= MaxCalls
    /\ now \in 0 .. MaxTime
    /\ opened \subseteq {"here", "there"}

(***************************************************************************)
(* The operations, as the statements they run.                             *)
(***************************************************************************)
detect == <<<<"exists">>, <<"version">>>>
kv_initialize == <<<<"create", "kv_store">>>>
tools_initialize == <<<<"create", "tool_calls">>>>

initialize_schema ==
    <<<<"create", "fs_config">>, <<"create", "fs_inode">>,
      <<"alter", "atime_nsec">>, <<"alter", "mtime_nsec">>, <<"alter", "ctime_nsec">>,
      <<"create", "fs_dentry">>, <<"create", "fs_data">>, <<"create", "fs_symlink">>,
      <<"root">>>>

from_pool == initialize_schema \o <<<<"pragma", "off">>, <<"pragma", "busy">>>>

open_with_pool == <<kv_initialize, from_pool, tools_initialize>>
AgentFSOpen == <<detect>> \o open_with_pool

migrate_v0_0_to_v0_2 == <<<<"migrate", "nlink">>>>
migrate_v0_2_to_v0_4 ==
    <<<<"migrate", "atime_nsec">>, <<"migrate", "mtime_nsec">>,
      <<"migrate", "ctime_nsec">>, <<"migrate", "rdev">>>>

apply_migrations_NewestFirst(v) ==
    (IF v = "0.4" THEN <<>> ELSE migrate_v0_2_to_v0_4)
        \o (IF v = "0.0" THEN migrate_v0_0_to_v0_2 ELSE <<>>)

apply_migrations(v) ==
    (IF v = "0.0" THEN migrate_v0_0_to_v0_2 ELSE <<>>)
        \o (IF v = "0.4" THEN <<>> ELSE migrate_v0_2_to_v0_4)

\* "set", "delete" and "read" (get, keys) of KvStore.
KvJobs == {<<<<<<op, k>>>>>> : op \in {"set", "delete"}, k \in Keys} \cup {<<<<<<"read">>>>>>}

\* success and error take the time first and read started_at before they update.
Report(id, st) == <<<<<<"started", id>>, <<"finish", id, st, now, Null>>>>>>

\* start, success, error, record; get, recent, stats_for and stats are reads.
LogJobs ==
    {<<<<<<"start", now>>>>>>, <<<<<<"read">>>>>>}
    \cup {Report(id, st) : id \in 1 .. MaxCalls, st \in {"success", "error"}}
    \cup {<<<<<<"record", s, c, e>>>>>> : s \in 0 .. MaxTime, c \in {now}, e \in BOOLEAN}

fsync == <<<<<<"pragma", "full">>, <<"begin">>, <<"commit">>, <<"pragma", "off">>>>>>

\* An operation of which nothing has run yet.
AnyJob == <<<<<<"any">>>>>>

(***************************************************************************)
(* One statement.                                                          *)
(***************************************************************************)
\* detect_schema_version, once fs_inode is known to exist.
Version ==
    IF Nsec \cup {"rdev"} \subseteq columns THEN "0.4"
    ELSE IF "nlink" \in columns THEN "0.2" ELSE "0.0"

\* The statement is run and returns Ok; otherwise its operation returns an error.
Succeeds(s) ==
    /\ s[1] = "version" => Version = "0.4"
    /\ s[1] = "migrate" => "fs_inode" \in tables
    /\ s[1] = "stored"  => "fs_config" \in tables
    /\ s[1] = "root"    => "root" \in tables \/ Nsec \cup {"nlink"} \subseteq columns
    /\ s[1] = "started" => s[2] <= Len(calls)
    /\ s[1] \in {"start", "record"} => Len(calls) < MaxCalls

CreateTable(tab) ==
    /\ tables' = tables \cup {tab}
    /\ columns' = IF tab = "fs_inode" /\ tab \notin tables THEN {"nlink", "rdev"} ELSE columns
    /\ UNCHANGED <<kv, calls>>

\* ALTER TABLE; when the table is open elsewhere it may fail, and .ok() drops the error.
add_column(c, optional) ==
    /\ columns' \in {columns \cup {c}} \cup (IF optional THEN {columns} ELSE {})
    /\ UNCHANGED <<tables, kv, calls>>

RootRow == tables' = tables \cup {"root"} /\ UNCHANGED <<columns, kv, calls>>

kv_set(k) ==
    /\ kv' = [kv EXCEPT ![k] = <<IF @ = <<>> THEN now ELSE @[1], now>>]
    /\ UNCHANGED <<tables, columns, calls>>

kv_delete(k) == kv' = [kv EXCEPT ![k] = <<>>] /\ UNCHANGED <<tables, columns, calls>>

start(s) ==
    /\ calls' = Append(calls, Call("pending", s, Null, Null, FALSE, FALSE))
    /\ UNCHANGED <<tables, columns, kv>>

record(s, c, e) ==
    /\ calls' = Append(calls,
         Call(IF e THEN "error" ELSE "success", s, c, (c - s) * 1000, ~e, e))
    /\ UNCHANGED <<tables, columns, kv>>

finish_StatusKept(id, st, c, s) ==
    /\ calls' = [calls EXCEPT ![id].completed = c, ![id].duration = (c - s) * 1000]
    /\ UNCHANGED <<tables, columns, kv>>

finish(id, st, c, s) ==
    /\ calls' = [calls EXCEPT ![id] =
         Call(st, @.started, c, (c - s) * 1000, @.result \/ st = "success", @.error \/ st = "error")]
    /\ UNCHANGED <<tables, columns, kv>>

Writes == {"create", "alter", "migrate", "root", "set", "delete", "start", "record", "finish"}

Execute(s) ==
    \/ s[1] = "create"  /\ CreateTable(s[2])
    \/ s[1] = "alter"   /\ add_column(s[2], TRUE)
    \/ s[1] = "migrate" /\ add_column(s[2], FALSE)
    \/ s[1] = "root"    /\ RootRow
    \/ s[1] = "set"     /\ kv_set(s[2])
    \/ s[1] = "delete"  /\ kv_delete(s[2])
    \/ s[1] = "start"   /\ start(s[2])
    \/ s[1] = "record"  /\ record(s[2], s[3], s[4])
    \/ s[1] = "finish"  /\ finish(s[2], s[3], s[4], s[5])
    \/ s[1] \notin Writes /\ UNCHANGED stores

\* What is left of the section after its first statement s has run.
Rest(sec) ==
    LET s == Head(sec) IN
    IF s[1] = "exists" /\ "fs_inode" \notin tables THEN Tail(Tail(sec))
    ELSE IF s[1] = "started" THEN <<[sec[2] EXCEPT ![5] = calls[s[2]].started]>>
    ELSE Tail(sec)

(***************************************************************************)
(* The tasks of this process.                                              *)
(***************************************************************************)
Idle(t) == pc[t] = "idle"
Others == UNCHANGED <<now, opened, cli>>

\* One caller opens the instance, on a pool made for it; once it is open all use it.
\* Bound: not while the other process still runs, which finds everything in place.
Invoke(t) ==
    /\ Idle(t) /\ job[t] = <<>>
    /\ IF "here" \in opened THEN cli = <<>> ELSE \A u \in Tasks : Idle(u) /\ job[u] = <<>>
    /\ Acquire(t)
    /\ job' = [job EXCEPT ![t] = IF "here" \in opened THEN AnyJob ELSE AgentFSOpen]
    /\ UNCHANGED <<conn, stores>> /\ Others

\* No operation looks at its arguments or the clock before it has its connection.
Choose(t) ==
    /\ pc[t] = "held" /\ job[t] = AnyJob
    /\ \E j \in KvJobs \cup LogJobs \cup {fsync} : job' = [job EXCEPT ![t] = j]
    /\ UNCHANGED <<vars, conn, stores>> /\ Others

\* AgentFS::open borrows its next connection.
Again(t) ==
    /\ Idle(t) /\ job[t] # <<>>
    /\ Acquire(t)
    /\ UNCHANGED <<job, conn, stores>> /\ Others

GetConnection(t) ==
    /\ LockPool(t) \/ Pop(t)
    /\ UNCHANGED <<job, conn, stores>> /\ Others

NewConnection(t) ==
    /\ Connect(t)
    /\ conn' = {}
    /\ UNCHANGED <<job, stores>> /\ Others

\* Error::ConnectionPoolTimeout, a failing connect, or the future dropped in get_connection.
GiveUp(t) ==
    /\ Timeout(t) \/ ConnectFails(t) \/ Cancel(t)
    /\ job' = [job EXCEPT ![t] = <<>>]
    /\ UNCHANGED <<conn, stores>> /\ Others

Pragma(s) ==
    IF s[1] # "pragma" THEN conn ELSE IF s[2] = "full" THEN conn \ {"off"} ELSE conn \cup {s[2]}

\* t is about to run a statement.
AtStatement(t) == pc[t] = "held" /\ Head(job[t]) # <<>> /\ job[t] # AnyJob

Statement(t) ==
    /\ AtStatement(t)
    /\ Succeeds(Head(Head(job[t])))
    /\ Execute(Head(Head(job[t])))
    /\ conn' = Pragma(Head(Head(job[t])))
    /\ job' = [job EXCEPT ![t][1] = Rest(@)]
    /\ UNCHANGED vars /\ Others

\* The PooledConnection goes out of scope; the operation ends, or has connections to come.
EndSection(t) ==
    /\ pc[t] = "held" /\ Head(job[t]) = <<>>
    /\ DropConnection(t)
    /\ job' = [job EXCEPT ![t] = Tail(@)]
    /\ opened' = IF Len(job[t]) = 1 THEN opened \cup {"here"} ELSE opened
    /\ UNCHANGED <<conn, stores, now, cli>>

\* A statement fails, or the future is dropped at its await.
Abandon(t) ==
    /\ pc[t] = "held"
    /\ DropConnection(t)
    /\ job' = [job EXCEPT ![t] = <<>>]
    /\ UNCHANGED <<conn, stores>> /\ Others

Release(t) == ReleasePermit(t) /\ UNCHANGED <<job, conn, stores>> /\ Others

Crash ==
    /\ \E t \in Tasks : job[t] # <<>>
    /\ pc' = [t \in Tasks |-> "idle"] /\ queue' = <<>> /\ permits' = MaxConnections
    /\ pool' = 0 /\ lock' = NoTask /\ created' = 0
    /\ job' = [t \in Tasks |-> <<>>]
    /\ conn' = {}
    /\ opened' = opened \ {"here"}
    /\ UNCHANGED <<stores, now, cli>>

\* Only the log and kv_store look at the clock.
Tick == "here" \in opened /\ now < MaxTime /\ now' = now + 1 /\ UNCHANGED <<vars, job, conn, stores, opened, cli>>

(***************************************************************************)
(* The other process.                                                      *)
(***************************************************************************)
Elsewhere == UNCHANGED <<vars, job, conn, kv, calls, now>>

handle_migrate_command == <<<<"exists">>, <<"detect">>>>

\* Bound: it starts only while something is missing; later every statement of
\* either program finds its table and its column in place.
CliStart ==
    /\ cli = <<>>
    /\ tables # AllTables \/ columns # Columns
    /\ \/ cli' = handle_migrate_command
       \/ cli' = detect \o kv_initialize \o from_pool \o tools_initialize \o <<<<"opened">>>>
    /\ UNCHANGED <<tables, columns, opened>> /\ Elsewhere

\* handle_migrate_command takes a database without fs_inode for version 0.0.
CliRest ==
    LET s == Head(cli) IN
    IF s = <<"exists">> /\ cli[2] = <<"detect">> /\ "fs_inode" \notin tables
    THEN apply_migrations("0.0") \o <<<<"stored">>>>
    ELSE IF s = <<"detect">>
    THEN apply_migrations(Version) \o (IF Version = "0.4" THEN <<>> ELSE <<<<"stored">>>>)
    ELSE Rest(cli)

CliStatement ==
    /\ cli # <<>>
    /\ IF Succeeds(Head(cli))
       THEN /\ Execute(Head(cli))
            /\ cli' = CliRest
            /\ opened' = IF Head(cli) = <<"opened">> THEN opened \cup {"there"} ELSE opened
       ELSE cli' = <<>> /\ UNCHANGED <<tables, columns, opened>>
    /\ Elsewhere

\* The other process is killed, or its statement fails.
CliStops ==
    /\ cli # <<>> /\ cli' = <<>>
    /\ UNCHANGED <<tables, columns, opened>> /\ Elsewhere

(***************************************************************************)
(* A new file, or one left by version 0.0 or 0.2 of the schema.            *)
(***************************************************************************)
StoresInit ==
    /\ Init
    /\ job = [t \in Tasks |-> <<>>]
    /\ conn = {}
    /\ \/ tables = {} /\ columns = {}
       \/ tables = AllTables /\ columns \in {{}, {"nlink"}}
    /\ kv = [k \in Keys |-> <<>>]
    /\ calls = <<>>
    /\ now = 0
    /\ opened = {}
    /\ cli = <<>>

Serve(t) ==
    \/ Again(t) \/ GetConnection(t) \/ NewConnection(t)
    \/ Statement(t) \/ EndSection(t) \/ Release(t)
    \/ Choose(t)
    \/ AtStatement(t) /\ ~Succeeds(Head(Head(job[t]))) /\ Abandon(t)

StoresNext ==
    \/ \E t \in Tasks : Invoke(t) \/ Serve(t) \/ GiveUp(t) \/ Abandon(t)
    \/ Crash \/ Tick \/ CliStart \/ CliStatement \/ CliStops

\* The runtime goes on with every task that can; callers, clocks, crashes and
\* the other process are free.  A connect that never succeeds fails in the end.
StoresSpec ==
    /\ StoresInit /\ [][StoresNext]_svars
    /\ \A t \in Tasks : WF_svars(Serve(t) \/ (pc[t] = "connect" /\ GiveUp(t)))

-----------------------------------------------------------------------------
\* An AgentFS::open that returned Ok left a database with every table, the root's
\* row and every column of fs_inode that the file system's statements name: old
\* databases are refused, and no migration or creation that was cut short, or
\* that another process runs at the same time, is taken for a complete one.
OpenIsComplete == opened # {} => tables = AllTables /\ columns = Columns

\* Once open has returned, the operations of this process run on a connection that
\* waits for locks (busy_timeout), through cancellations, errors and lost permits:
\* the pool never replaces the connection from_pool configured.
SettingsKept == \A t \in Tasks : "here" \in opened /\ pc[t] = "held" => "busy" \in conn

\* A row of tool_calls has an end exactly when it is not pending, its duration is
\* that between its times, and the outcome its status names is stored, whatever
\* reports of the same call, failures and crashes came between the two statements
\* of success and error; a key of kv_store is not older than its creation.
RecordsConsistent ==
    /\ \A id \in DOMAIN calls : LET c == calls[id] IN
          /\ c.status = "pending" <=> c.completed = Null
          /\ c.completed # Null => c.duration = (c.completed - c.started) * 1000
          /\ c.status = "success" => c.result
          /\ c.status = "error" => c.error
    /\ \A k \in Keys : kv[k] # <<>> => kv[k][1] <= kv[k][2]
=============================================================================
