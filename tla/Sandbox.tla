-------------------------------- MODULE Sandbox --------------------------------
(***************************************************************************)
(* The ptrace sandbox (sandbox/src): every system call of a guest thread   *)
(* that concerns a descriptor or a path is handled in the tracer before,   *)
(* or instead of, the kernel.  A guest descriptor is an index into the     *)
(* process's FdTable, whose entry is a kernel descriptor ("pass") or a     *)
(* file of the SQLite mount ("virt").                                      *)
(*                                                                         *)
(* A handler runs without interruption up to its next await: a call        *)
(* injected into the guest or a call of the database.  What it keeps over  *)
(* the await is in call[a].  The kernel and its descriptors are external.  *)
(* A new child may call before the tracer has its table.                   *)
(***************************************************************************)
EXTENDS FdTable, MountTable

CONSTANTS Threads, Procs,
          ProcOf,      \* thread -> process
          First,       \* the process there is at the beginning
          Child,       \* the one it may fork
          Paths,       \* paths the guest names
          Relative,    \* paths it names relative to a directory descriptor
          OpenFlags,   \* flags it opens files with: sets of O_CREAT, O_TRUNC, O_APPEND
          HostFiles,   \* files of the host, paths of at least one name
          Stored,      \* the database at the beginning
          MaxOps,      \* bound: virtual files opened
          MaxLen,      \* bound: length of a virtual file
          MaxCalls     \* bound: system calls
ASSUME SandboxAssumption ==
    /\ ProcOf \in [Threads -> Procs] /\ First \in Procs /\ Child \in Procs \ {First}
    /\ MaxOps \in Nat /\ MaxLen \in Nat /\ MaxCalls \in Nat /\ <<>> \notin HostFiles
ASSUME PathsAssumption == Paths \subseteq Seq(STRING) /\ Relative \subseteq Seq(STRING)
ASSUME StoredAssumption ==
    /\ Stored = [names |-> Stored.names, data |-> Stored.data]
    /\ Stored.names \in [DOMAIN Stored.names -> 1..Len(Stored.data)]
    /\ Stored.data \in Seq(Seq(Nat)) /\ \A i \in 1..Len(Stored.data) : Len(Stored.data[i]) <= MaxLen

VARIABLES
    known,     \* FD_TABLES: processes it has a table for
    life,      \* process -> "none", "running", "execed", "exited"
    tableOf,   \* process -> index of its table
    tables,
    filesOf,   \* process -> index of its kernel descriptors
    files,     \* these: kernel descriptor -> host file, or Closed
    ops,       \* FileOps of the virtual files opened so far
    db,        \* names: name -> inode, data: inode -> content
    call,      \* thread -> what its handler keeps
    asked,     \* latest call on paths: the paths named, with what the kernel was given
    calls,     \* calls so far
    rude       \* history: the guest did what the tracer does not cope with

vars == <<known, life, tableOf, tables, filesOf, files, ops, db, call, asked, calls, rude>>

AT_FDCWD == -1
None == -1
Closed == <<>>
Pass(k, desc) == [kind |-> "pass", k |-> k, o |-> 0, desc |-> desc]
Virt(o, path) == [kind |-> "virt", k |-> None, o |-> o, desc |-> path]
NoEntry == [kind |-> "none", k |-> None, o |-> 0, desc |-> <<>>]
Idle == [pc |-> "idle", fd |-> None, to |-> None, e |-> NoEntry, old |-> NoEntry, k |-> None,
         desc |-> <<>>, o |-> 0, ino |-> 0, data |-> <<>>, next |-> "idle", t |-> 0]

Std == [v \in StdFds |-> Pass(v, <<"std">>)]
StdFiles == [k \in Fds |-> IF k \in StdFds THEN <<"std">> ELSE Closed]

Init ==
    /\ known = {First} /\ life = [p \in Procs |-> IF p = First THEN "running" ELSE "none"]
    /\ tableOf = [p \in Procs |-> 1] /\ tables = <<new_table(Std)>>
    /\ filesOf = [p \in Procs |-> 1] /\ files = <<StdFiles>>
    /\ ops = <<>>
    /\ db = Stored
    /\ call = [a \in Threads |-> Idle] /\ asked = {} /\ calls = 0 /\ rude = FALSE

-----------------------------------------------------------------------------
\* The table a handler was given is its to the end, even if the process has
\* got another one since (t).
Ix(a) == IF call[a].t # 0 THEN call[a].t ELSE tableOf[ProcOf[a]]
Table(a) == tables[Ix(a)]
Entry(a, v) == IF Has(Table(a), v) THEN Table(a).entries[v] ELSE NoEntry
SetTable(a, t) == tables' = [tables EXCEPT ![Ix(a)] = t]
Kernel(a) == files[filesOf[ProcOf[a]]]
SetKernel(a, K) == files' = [files EXCEPT ![filesOf[ProcOf[a]]] = K]
FreeKfds(a) == {k \in Fds : Kernel(a)[k] = Closed}
IsFile(o) == o # 0 /\ ops[o].kind = "file"
Living == {p \in Procs : life[p] \in {"running", "execed"}}

\* Calls of other threads on the same table that are under way, the descriptor
\* call c is to replace, and those whose entry it has read and will still use.
Others(a) == {b \in Threads \ {a} : /\ call[b].pc # "idle" /\ ProcOf[b] \in known
                                    /\ tableOf[ProcOf[b]] = tableOf[ProcOf[a]]}
Replaces(c) == IF c.next \in {"closeold", "install"} THEN {c.to} ELSE {}
Touches(c) == Replaces(c) \cup (IF c.pc \in {"fwd", "dup", "open"} THEN {c.fd} ELSE {})
Clash(a, used, changed) ==
    \E b \in Others(a) : Touches(call[b]) \cap changed # {} \/ Replaces(call[b]) \cap used # {}
\* Numbers not in the table that reach a descriptor of the kernel all the same.
Stray(a, used) == \E v \in used : ~Has(Table(a), v) /\ Kernel(a)[v] # Closed
\* The table is to be copied for a child whose descriptors were copied before.
Copying(a) == \E b \in Threads : /\ call[b].pc = "inherit" /\ call[b].next # "share"
                                 /\ tableOf[ProcOf[b]] = tableOf[ProcOf[a]]

\* handle_syscall_event: thread a makes a call, which uses the descriptors `used`
\* and will change `changed`.
CanCall(a) == ProcOf[a] \in Living /\ call[a].pc = "idle" /\ calls < MaxCalls
Ready(a) == CanCall(a) /\ ProcOf[a] \in known
Start(a, c) ==
    /\ Ready(a) /\ calls' = calls + 1
    /\ call' = [call EXCEPT ![a] = c]
Begin(a, c, used, changed) ==
    /\ Start(a, c) /\ asked' = {}
    /\ rude' = (rude \/ Clash(a, used, changed) \/ Stray(a, used))
AtOnce(a, used) == Begin(a, Idle, used, {})
Goto(a, c) == call' = [call EXCEPT ![a] = c] /\ asked' = {} /\ UNCHANGED <<calls, rude>>
At(a, pc) == call[a].pc = pc
World == <<known, life, tableOf, filesOf>>

\* A call that changes the table to t at once, the entry of v.
Retable(a, c, used, v, t) ==
    /\ Start(a, c) /\ asked' = {} /\ SetTable(a, t)
    /\ rude' = (rude \/ Clash(a, used, {v}) \/ Stray(a, used) \/ Copying(a))

\* The call ends with the table t; a number it gives away may be the target of
\* another thread's dup2.
Give(a, t) ==
    /\ SetTable(a, t) /\ call' = [call EXCEPT ![a] = Idle] /\ asked' = {} /\ UNCHANGED calls
    /\ rude' = (rude \/ Clash(a, {}, DOMAIN t.entries \ DOMAIN Table(a).entries) \/ Copying(a))

\* A kernel descriptor for desc in call c, which goes on at pc.
KernelOpen(a, c, desc, pc) ==
    IF FreeKfds(a) = {} THEN Goto(a, Idle) /\ UNCHANGED files
    ELSE LET k == Min(FreeKfds(a))
         IN SetKernel(a, [Kernel(a) EXCEPT ![k] = desc]) /\ Goto(a, [c EXCEPT !.pc = pc, !.k = k])

-----------------------------------------------------------------------------
(* Virtual files: SqliteVfs and SqliteFileOps.                             *)

NewOps(kind, name, ino, data, flags) ==
    [kind |-> kind, name |-> name, ino |-> ino, data |-> data, off |-> 0,
     dirty |-> kind = "file" /\ (ino = 0 \/ "trunc" \in flags), append |-> "append" \in flags,
     listed |-> FALSE, overlapped |-> FALSE, failed |-> FALSE]

\* SqliteVfs::open: the file's content is read here and written back when it
\* is closed; a file that is not there is not created until then.
OpenVirtual(rel, flags) ==
    IF rel = <<>> THEN {NewOps("dir", "", 0, <<>>, flags)}
    ELSE IF Len(rel) > 1 THEN {}
    ELSE LET n == rel[1]
         IN IF n \in DOMAIN db.names
            THEN {NewOps("file", n, db.names[n], IF "trunc" \in flags THEN <<>> ELSE db.data[db.names[n]], flags)}
            ELSE IF "creat" \in flags THEN {NewOps("file", n, 0, <<>>, flags)} ELSE {}

CreateName(n, data) ==
    LET i == Cardinality(DOMAIN db.data) + 1
    IN [names |-> [m \in DOMAIN db.names \cup {n} |-> IF m = n THEN i ELSE db.names[m]],
        data |-> Append(db.data, data)]

\* get_or_create_ino: `ino` is never assigned, so a new file is created again
\* by every call that needs its inode, which fails the second time.
CanCreate(o) == ops[o].ino # 0 \/ ops[o].name \notin DOMAIN db.names
InoOf(o) == IF ops[o].ino # 0 THEN ops[o].ino ELSE db'.names[ops[o].name]
get_or_create_ino(o) == db' = IF ops[o].ino # 0 THEN db ELSE CreateName(ops[o].name, <<>>)

\* The database fails, or the file has been created by somebody else: the call
\* goes on, its caller drops the error, and the file stays dirty.
Abandon(a) == Goto(a, [call[a] EXCEPT !.pc = call[a].next, !.o = 0, !.ino = 0, !.data = <<>>])
Fail(a) == Abandon(a) /\ ops' = [ops EXCEPT ![call[a].o].failed = TRUE]

\* fsync, which close calls: nothing if clean, else the content is copied and
\* the file opened ...
fsync(a) ==
    /\ At(a, "flush")
    /\ LET o == call[a].o
       IN \/ ~(ops[o].dirty /\ CanCreate(o)) /\ Abandon(a) /\ UNCHANGED <<ops, db>>
          \/ /\ ops[o].dirty /\ CanCreate(o) /\ get_or_create_ino(o)
             /\ Goto(a, [call[a] EXCEPT !.pc = "pwrite", !.data = ops[o].data, !.ino = InoOf(o)])
             /\ UNCHANGED ops
          \/ ops[o].dirty /\ CanCreate(o) /\ (get_or_create_ino(o) \/ UNCHANGED db) /\ Fail(a)
    /\ UNCHANGED <<World, tables, files>>

\* ... written over the file's beginning ...
Overwritten(d, old) == d \o SubSeq(old, Len(d) + 1, Len(old))
fsync_pwrite(a) ==
    /\ At(a, "pwrite")
    /\ LET d == call[a].data
       IN \/ /\ db' = [db EXCEPT !.data[call[a].ino] = Overwritten(d, @)]
             /\ Goto(a, [call[a] EXCEPT !.pc = "truncate"]) /\ UNCHANGED ops
          \/ \E n \in 0..Len(d) : /\ db' = [db EXCEPT !.data[call[a].ino] = Overwritten(SubSeq(d, 1, n), @)]
                                  /\ Fail(a)
    /\ UNCHANGED <<World, tables, files>>

\* ... and cut to its length, or extended if another flush has just cut it
\* shorter; only then is the file clean.
fsync_truncate(a) ==
    /\ At(a, "truncate")
    /\ LET cut == [db EXCEPT !.data[call[a].ino] =
                       [k \in 1..Len(call[a].data) |-> IF k <= Len(@) THEN @[k] ELSE 0]]
       IN \/ db' = cut /\ Abandon(a) /\ ops' = [ops EXCEPT ![call[a].o].dirty = FALSE, ![call[a].o].failed = FALSE]
          \/ db' \in {db, cut} /\ Fail(a)
    /\ UNCHANGED <<World, tables, files>>

Flushing(o) == \E b \in Threads : call[b].pc \in {"pwrite", "truncate"} /\ call[b].o = o

-----------------------------------------------------------------------------
(* Calls that make descriptors.                                            *)

\* What openat takes p relative to v for.
FullPath(dir, p) == IF dir.kind = "virt" THEN dir.desc \o p ELSE p
IsVirtual(dir, p) == IF dir.kind = "pass" THEN FALSE ELSE Virtual(FullPath(dir, p))

\* The kernel's file for it: a path below a virtual directory that is not
\* virtual itself goes to the kernel as it was given.
HostTarget(dir, p) == IF dir.kind = "none" THEN translate_path(p)
                      ELSE IF dir.kind = "pass" THEN dir.desc \o p ELSE p

OpenedAs(a) == {<<AT_FDCWD, p>> : p \in Paths} \cup {<<v, p>> : v \in DOMAIN Table(a).entries, p \in Relative}

handle_openat(a) ==
    \/ \E vp \in OpenedAs(a), flags \in OpenFlags :
          LET dir == Entry(a, vp[1])
              path == FullPath(dir, vp[2])
              new == IF Inside(path) THEN OpenVirtual(translate_to_relative(path), flags) ELSE {}
          IN /\ IsVirtual(dir, vp[2]) /\ Len(ops) < MaxOps /\ CanAllocate(Table(a))
             /\ IF new = {} THEN AtOnce(a, {vp[1]} \ {AT_FDCWD}) /\ UNCHANGED <<ops, tables>>
                ELSE /\ ops' = ops \o SetToSeq(new)
                     /\ Retable(a, Idle, {vp[1]} \ {AT_FDCWD}, allocated(Table(a)),
                                allocate(Table(a), Virt(Len(ops'), path)))
             /\ UNCHANGED <<World, files, db>>
    \/ \E vp \in OpenedAs(a) :
          LET dir == Entry(a, vp[1])
              path == FullPath(dir, vp[2])
              target == HostTarget(dir, vp[2])
          IN /\ ~IsVirtual(dir, vp[2])
             /\ Start(a, [Idle EXCEPT !.pc = "open", !.fd = vp[1], !.e = dir, !.desc = target])
             /\ rude' = (rude \/ Clash(a, {vp[1]}, {}))
             /\ asked' = IF dir.kind = "pass" THEN {} ELSE {<<path, target>>}
             /\ UNCHANGED <<World, tables, files, ops, db>>
open_result(a) ==
    /\ At(a, "open")
    /\ IF call[a].desc \in HostFiles
       THEN KernelOpen(a, [Idle EXCEPT !.e = Pass(None, call[a].desc), !.t = call[a].t], call[a].desc, "alloc")
       ELSE Goto(a, Idle) /\ UNCHANGED files
    /\ UNCHANGED <<World, tables, ops, db>>

\* The kernel descriptor that was made gets a guest descriptor.
allocate_fd(a) ==
    /\ At(a, "alloc") /\ CanAllocate(Table(a))
    /\ Give(a, allocate(Table(a), [call[a].e EXCEPT !.k = call[a].k]))
    /\ UNCHANGED <<World, files, ops, db>>

handle_socket(a) ==
    /\ FreeKfds(a) # {}
    /\ LET k == Min(FreeKfds(a))
       IN /\ SetKernel(a, [Kernel(a) EXCEPT ![k] = <<"socket">>])
          /\ Begin(a, [Idle EXCEPT !.pc = "alloc", !.e = Pass(None, <<"socket">>), !.k = k], {}, {})
    /\ UNCHANGED <<World, tables, ops, db>>

handle_pipe2(a) ==
    /\ Cardinality(FreeKfds(a)) > 1
    /\ LET k == Min(FreeKfds(a))
           l == Min(FreeKfds(a) \ {k})
       IN /\ SetKernel(a, [Kernel(a) EXCEPT ![k] = <<"reader">>, ![l] = <<"writer">>])
          /\ Begin(a, [Idle EXCEPT !.pc = "pipe", !.e = Pass(k, <<"reader">>), !.old = Pass(l, <<"writer">>)], {}, {})
    /\ UNCHANGED <<World, tables, ops, db>>
pipe_result(a) ==
    /\ At(a, "pipe") /\ CanAllocate(Table(a))
    /\ LET t == allocate(Table(a), call[a].e)
       IN CanAllocate(t) /\ Give(a, allocate(t, call[a].old))
    /\ UNCHANGED <<World, files, ops, db>>

\* The call goes to the kernel with the entry's kernel descriptor; the number
\* of a virtual file, or an unknown one, goes there as it is.
Untranslated(a, v) == AtOnce(a, {v}) /\ UNCHANGED <<World, tables, files, ops, db>>
Forward(a, v) ==
    IF Entry(a, v).kind = "pass"
    THEN /\ Begin(a, [Idle EXCEPT !.pc = "fwd", !.fd = v, !.e = Entry(a, v)], {v}, {})
         /\ UNCHANGED <<World, tables, files, ops, db>>
    ELSE Untranslated(a, v)
Translate(a) == \E v \in Fds : Forward(a, v)

\* The kernel's dup of the entry that was read, after which the call goes on.
Duplicate_Shared(a) ==
    /\ At(a, "dup") /\ Goto(a, [call[a] EXCEPT !.pc = call[a].next, !.k = call[a].e.k])
    /\ UNCHANGED <<World, tables, files, ops, db>>
Duplicate_Unchecked(a) ==
    /\ At(a, "dup")
    /\ IF FreeKfds(a) = {} THEN Goto(a, [call[a] EXCEPT !.pc = call[a].next]) /\ UNCHANGED files
       ELSE KernelOpen(a, call[a], Kernel(a)[call[a].e.k], call[a].next)
    /\ UNCHANGED <<World, tables, ops, db>>
Duplicate(a) ==
    /\ At(a, "dup")
    /\ IF Kernel(a)[call[a].e.k] = Closed THEN Goto(a, Idle) /\ UNCHANGED files
       ELSE KernelOpen(a, call[a], Kernel(a)[call[a].e.k], call[a].next)
    /\ UNCHANGED <<World, tables, ops, db>>

\* The kernel's dup of a number that is not in the table: the guest gets the
\* kernel's number, the lowest from `min` on.
DupUnknown(a, v, min) ==
    LET free == {k \in FreeKfds(a) : k >= min}
    IN /\ AtOnce(a, {v})
       /\ IF Kernel(a)[v] = Closed \/ free = {} THEN UNCHANGED files
          ELSE SetKernel(a, [Kernel(a) EXCEPT ![Min(free)] = Kernel(a)[v]])
       /\ UNCHANGED <<World, tables, ops, db>>

handle_dup(a) ==
    \E v \in Fds :
       \/ /\ Entry(a, v).kind = "pass"
          /\ Begin(a, [Idle EXCEPT !.pc = "dup", !.fd = v, !.e = Entry(a, v), !.next = "alloc"], {v}, {})
          /\ UNCHANGED <<World, tables, files, ops, db>>
       \/ /\ Entry(a, v).kind = "virt" /\ CanAllocate(Table(a))
          /\ Retable(a, Idle, {v}, allocated(Table(a)), allocate(Table(a), Entry(a, v)))
          /\ UNCHANGED <<World, files, ops, db>>
       \/ Entry(a, v).kind = "none" /\ DupUnknown(a, v, 0)

\* F_DUPFD: the lowest descriptor from `to` on; other commands only translate.
\* A virtual file has no kernel descriptor: the call reaches the kernel with the
\* guest's number.
handle_fcntl(a) ==
    \/ Translate(a)
    \/ \E v, min \in Fds :
          IF Entry(a, v).kind = "pass"
          THEN /\ Begin(a, [Idle EXCEPT !.pc = "dup", !.fd = v, !.to = min, !.e = Entry(a, v), !.next = "allocmin"], {v}, {})
               /\ UNCHANGED <<World, tables, files, ops, db>>
          ELSE DupUnknown(a, v, min)

allocate_min_fd(a) ==
    /\ At(a, "allocmin") /\ \E v \in Fds : v >= call[a].to /\ ~Has(Table(a), v)
    /\ Give(a, allocate_min(Table(a), call[a].to, [call[a].e EXCEPT !.k = call[a].k]))
    /\ UNCHANGED <<World, files, ops, db>>

\* dup2 and dup3: both entries are read, the source duplicated, the target
\* closed, and the target's entry replaced.
DupTo(a) ==
    \E v, w \in Fds :
       /\ IF Has(Table(a), v)
          THEN /\ Begin(a, [Idle EXCEPT !.pc = IF Entry(a, v).kind = "pass" THEN "dup" ELSE "closeold", !.fd = v, !.to = w,
                                        !.e = Entry(a, v), !.old = Entry(a, w), !.next = "closeold"], {v}, {w})
               /\ UNCHANGED files
          ELSE /\ Begin(a, Idle, {v}, {w})
               /\ SetKernel(a, IF Kernel(a)[v] = Closed THEN Kernel(a) ELSE [Kernel(a) EXCEPT ![w] = Kernel(a)[v]])
       /\ UNCHANGED <<World, tables, ops, db>>
handle_dup2(a) == DupTo(a)
handle_dup3(a) == DupTo(a)

\* If the kernel cannot close the old descriptor, the call ends here.
close_old_Dropped(a) ==
    /\ At(a, "closeold") /\ Goto(a, [call[a] EXCEPT !.pc = "install"])
    /\ SetKernel(a, IF call[a].old.kind = "pass" THEN [Kernel(a) EXCEPT ![call[a].old.k] = Closed] ELSE Kernel(a))
    /\ UNCHANGED <<World, tables, ops, db>>
close_old(a) ==
    /\ At(a, "closeold")
    /\ LET c == call[a]
           go == [c EXCEPT !.pc = "install"]
       IN IF c.old.kind = "pass"
          THEN IF Kernel(a)[c.old.k] = Closed THEN Goto(a, Idle) /\ UNCHANGED files
               ELSE SetKernel(a, [Kernel(a) EXCEPT ![c.old.k] = Closed]) /\ Goto(a, go)
          ELSE /\ Goto(a, IF c.old.kind = "virt" /\ IsFile(c.old.o)
                          THEN [c EXCEPT !.pc = "flush", !.o = c.old.o, !.next = "install"] ELSE go)
               /\ UNCHANGED files
    /\ UNCHANGED <<World, tables, ops, db>>

install(a) ==
    /\ At(a, "install")
    /\ SetTable(a, allocate_at(Table(a), call[a].to,
                      IF call[a].e.kind = "pass" THEN [call[a].e EXCEPT !.k = call[a].k] ELSE call[a].e))
    /\ call' = [call EXCEPT ![a] = Idle] /\ asked' = {} /\ rude' = (rude \/ Copying(a))
    /\ UNCHANGED <<World, files, ops, db, calls>>

\* close gives the descriptor up first; errors of a virtual file's close are
\* dropped.
Closing(e) == IF e.kind = "pass" THEN [Idle EXCEPT !.pc = "kclose", !.k = e.k]
              ELSE IF IsFile(e.o) THEN [Idle EXCEPT !.pc = "flush", !.o = e.o] ELSE Idle
handle_close(a) ==
    \E v \in Fds :
       /\ LET e == Entry(a, v)
          IN IF e.kind # "none"
             THEN Retable(a, Closing(e), {}, v, deallocate(Table(a), v)) /\ UNCHANGED files
             ELSE AtOnce(a, {v}) /\ SetKernel(a, [Kernel(a) EXCEPT ![v] = Closed]) /\ UNCHANGED tables
       /\ UNCHANGED <<World, ops, db>>
close_kernel_fd(a) ==
    /\ At(a, "kclose")
    /\ SetKernel(a, [Kernel(a) EXCEPT ![call[a].k] = Closed])
    /\ Goto(a, Idle) /\ UNCHANGED <<World, tables, ops, db>>

-----------------------------------------------------------------------------
(* Calls on a descriptor.                                                  *)

\* The kernel's answer.
inject(a) == At(a, "fwd") /\ Goto(a, Idle) /\ UNCHANGED <<World, tables, files, ops, db>>

handle_ioctl(a) == Translate(a)
handle_pread64(a) == Translate(a)
handle_pwrite64(a) == Translate(a)
handle_mmap(a) == Translate(a)
handle_readv(a) == Translate(a)
handle_writev(a) == Translate(a)
handle_sendto(a) == Translate(a)
handle_connect(a) == Translate(a)
handle_getpeername(a) == Translate(a)
handle_pselect6(a) == Translate(a)
handle_poll(a) == Translate(a)

\* A call that the virtual file answers, whose next value is o2 (and db unchanged).
OnVirtual(a, v, o2) ==
    /\ AtOnce(a, {v}) /\ ops' = [ops EXCEPT ![Entry(a, v).o] = o2]
    /\ UNCHANGED <<World, tables, files, db>>
VirtualFd(a, v) == Entry(a, v).kind = "virt"
Ops(a, v) == ops[Entry(a, v).o]

handle_read(a) ==
    \E v \in Fds :
       IF ~VirtualFd(a, v) THEN Forward(a, v)
       ELSE LET f == Ops(a, v)
            IN OnVirtual(a, v, IF f.off < Len(f.data) THEN [f EXCEPT !.off = @ + 1] ELSE f)

\* One byte (b) is written at the offset, or at the end with O_APPEND; a gap
\* is filled with zeros.
Written(f, b) ==
    LET at == IF f.append THEN Len(f.data) ELSE f.off
        n == IF at + 1 > Len(f.data) THEN at + 1 ELSE Len(f.data)
    IN [f EXCEPT !.data = [k \in 1..n |-> IF k = at + 1 THEN b ELSE IF k <= Len(f.data) THEN @[k] ELSE 0],
                 !.off = at + 1, !.dirty = TRUE]

handle_write(a) ==
    \E v \in Fds :
       IF ~VirtualFd(a, v) THEN Forward(a, v)
       ELSE IF ~IsFile(Entry(a, v).o) THEN OnVirtual(a, v, Ops(a, v))
       ELSE LET f == Written(Ops(a, v), 1)
            IN Len(f.data) <= MaxLen /\ OnVirtual(a, v, [f EXCEPT !.overlapped = @ \/ Flushing(Entry(a, v).o)])

handle_lseek(a) ==
    \E v \in Fds :
       IF ~VirtualFd(a, v) THEN Forward(a, v)
       ELSE IF ~IsFile(Entry(a, v).o) THEN OnVirtual(a, v, Ops(a, v))
       ELSE \E to \in 0..MaxLen : OnVirtual(a, v, [Ops(a, v) EXCEPT !.off = to])

\* fstat needs an inode: a new file is created for it.
handle_fstat(a) ==
    \E v \in Fds :
       IF VirtualFd(a, v) /\ IsFile(Entry(a, v).o) /\ CanCreate(Entry(a, v).o)
       THEN /\ AtOnce(a, {v}) /\ get_or_create_ino(Entry(a, v).o)
            /\ UNCHANGED <<World, tables, files, ops>>
       ELSE IF VirtualFd(a, v) THEN OnVirtual(a, v, Ops(a, v)) ELSE Forward(a, v)

\* The whole listing is handed out by the first call.
handle_getdents64(a) ==
    \E v \in Fds :
       IF ~VirtualFd(a, v) THEN Forward(a, v)
       ELSE OnVirtual(a, v, IF IsFile(Entry(a, v).o) THEN Ops(a, v) ELSE [Ops(a, v) EXCEPT !.listed = TRUE])

-----------------------------------------------------------------------------
(* Calls on paths.                                                         *)

PathCall(a, S) ==
    /\ Start(a, Idle) /\ asked' = {<<p, translate_path(p)>> : p \in S}
    /\ UNCHANGED <<World, tables, files, ops, db, rude>>
OnePath(a) == \E p \in Paths : PathCall(a, {p})

handle_access(a) == OnePath(a)
handle_unlink(a) == OnePath(a)
handle_chdir(a) == OnePath(a)
handle_rmdir(a) == OnePath(a)
handle_chmod(a) == OnePath(a)
handle_statfs(a) == OnePath(a)
handle_llistxattr(a) == OnePath(a)
handle_lgetxattr(a) == OnePath(a)
handle_rename(a) == \E p, q \in Paths : PathCall(a, {p, q})

\* A path relative to a descriptor keeps the path and translates the descriptor ...
AtCall(a) == OnePath(a) \/ \E v \in DOMAIN Table(a).entries : Forward(a, v)
handle_faccessat(a) == AtCall(a)
handle_faccessat2(a) == AtCall(a)
handle_fchownat(a) == AtCall(a)

\* ... here only if there is also a path to translate.  What is virtual is
\* answered from the database (statx: ENOSYS).
Answer(a) == AtOnce(a, {}) /\ UNCHANGED <<World, tables, files, ops, db>>
Reads(a) == \E p \in Paths : IF Virtual(p) THEN Answer(a) ELSE PathCall(a, {p})
ReadsAt(a) == Reads(a) \/ \E v \in DOMAIN Table(a).entries : Untranslated(a, v)
handle_statx(a) == ReadsAt(a)
handle_newfstatat(a) == ReadsAt(a)
handle_readlink(a) == Reads(a)
handle_readlinkat(a) == ReadsAt(a)

\* A new name of the SQLite mount: a symlink of its own, or one more of a file.
NewName(p) == Inside(p) /\ Len(translate_to_relative(p)) = 1 /\ translate_to_relative(p)[1] \notin DOMAIN db.names
StoredName(a, d) == AtOnce(a, {}) /\ db' = d /\ UNCHANGED <<World, tables, files, ops>>

MakeSymlink(a) ==
    \E p \in Paths :
       IF NewName(p) THEN StoredName(a, CreateName(translate_to_relative(p)[1], <<>>))
       ELSE IF Virtual(p) THEN Answer(a) ELSE PathCall(a, {p})
handle_symlink(a) == MakeSymlink(a)
handle_symlinkat(a) == MakeSymlink(a)

handle_linkat(a) ==
    \E p, q \in Paths :
       IF ~Virtual(q) THEN PathCall(a, {p, q})
       ELSE IF /\ NewName(q) /\ Inside(p)
               /\ translate_to_relative(p) # <<>> /\ translate_to_relative(p)[1] \in DOMAIN db.names
            THEN LET n == translate_to_relative(q)[1]
                     i == db.names[translate_to_relative(p)[1]]
                 IN StoredName(a, [db EXCEPT !.names = [m \in DOMAIN @ \cup {n} |-> IF m = n THEN i ELSE @[m]]])
            ELSE Answer(a)

-----------------------------------------------------------------------------
(* Processes.                                                              *)

\* The kernel forks; the tracer copies the table when the call returns, which
\* vfork does once the child has called exec or exit.  `files_shared` is
\* CLONE_FILES, `then` what the handler will do.
Spawn(a, files_shared, then) ==
    /\ ProcOf[a] = First /\ life[Child] = "none"
    /\ Start(a, [Idle EXCEPT !.pc = "inherit", !.next = then])
    /\ rude' = (rude \/ files_shared # (then = "share") \/ \E b \in Others(a) : call[b].pc = "install")
    /\ IF files_shared THEN files' = files ELSE files' = Append(files, Kernel(a))
    /\ filesOf' = [filesOf EXCEPT ![Child] = IF files_shared THEN filesOf[First] ELSE Len(files')]
    /\ life' = [life EXCEPT ![Child] = "running"]
    /\ asked' = {} /\ UNCHANGED <<known, tableOf, tables, ops, db>>

handle_fork(a) == Spawn(a, FALSE, "copy")
handle_vfork(a) == Spawn(a, FALSE, "wait")
handle_clone(a) == \E shared \in BOOLEAN : Spawn(a, shared, IF shared THEN "share" ELSE "copy")
handle_clone3(a) == \E shared \in BOOLEAN : Spawn(a, shared, "copy")

\* A table the child has got already is replaced, not for its calls under way.
insert_fd_table(a) ==
    /\ At(a, "inherit")
    /\ call[a].next = "wait" => life[Child] \in {"execed", "exited"}
    /\ tables' = IF call[a].next = "share" THEN tables ELSE Append(tables, Table(a))
    /\ tableOf' = [tableOf EXCEPT ![Child] = IF call[a].next = "share" THEN tableOf[First] ELSE Len(tables')]
    /\ known' = known \cup {Child}
    /\ call' = [b \in Threads |-> IF b = a THEN Idle
                                  ELSE IF ProcOf[b] = Child /\ call[b].pc # "idle"
                                       THEN [call[b] EXCEPT !.t = Ix(b)] ELSE call[b]]
    /\ asked' = {} /\ UNCHANGED <<life, filesOf, files, ops, db, calls, rude>>

\* A process that calls before it has a table gets a new one (`or_default`).
get_fd_table(a) ==
    /\ ProcOf[a] \in Living \ known
    /\ tables' = Append(tables, new_table(Std)) /\ tableOf' = [tableOf EXCEPT ![ProcOf[a]] = Len(tables')]
    /\ known' = known \cup {ProcOf[a]} /\ rude' = TRUE
    /\ asked' = {} /\ UNCHANGED <<life, filesOf, files, ops, db, call, calls>>

\* exec and exit go to the kernel as they are, and change no table.  A thread
\* that exits alone makes no more calls; what others of its process have under
\* way may or may not go on.
Shared(p) == \E q \in Living \ {p} : filesOf[q] = filesOf[p]
Leaves(a, then) ==
    /\ CanCall(a) /\ calls' = calls + 1 /\ asked' = {}
    /\ life' = [life EXCEPT ![ProcOf[a]] = then]
    /\ UNCHANGED <<known, tableOf, tables, ops, db, call>>
Siblings(a) == {b \in Threads \ {a} : ProcOf[b] = ProcOf[a] /\ call[b].pc # "idle"}

\* The kernel closes the descriptors with O_CLOEXEC (S), in a copy of its own if
\* they were shared.
Exec(a) ==
    /\ Leaves(a, "execed")
    /\ \E S \in SUBSET (Fds \ FreeKfds(a)) :
          LET kept == [k \in Fds |-> IF k \in S THEN Closed ELSE Kernel(a)[k]]
          IN /\ IF Shared(ProcOf[a])
                THEN /\ files' = Append(files, kept)
                     /\ filesOf' = [filesOf EXCEPT ![ProcOf[a]] = Len(files')]
                ELSE SetKernel(a, kept) /\ UNCHANGED filesOf
             /\ rude' = (\/ rude \/ Shared(ProcOf[a]) \/ Siblings(a) # {}
                         \/ \E v \in DOMAIN Table(a).entries : /\ Table(a).entries[v].kind = "pass"
                                                               /\ Table(a).entries[v].k \in S)
Exit(a) == Leaves(a, "exited") /\ rude' = (rude \/ Siblings(a) # {}) /\ UNCHANGED <<filesOf, files>>

-----------------------------------------------------------------------------
MakesDescriptors(a) ==
    \/ handle_openat(a) \/ handle_socket(a) \/ handle_pipe2(a) \/ handle_dup(a)
    \/ handle_fcntl(a) \/ handle_dup2(a) \/ handle_dup3(a) \/ handle_close(a)
UsesDescriptor(a) ==
    \/ handle_ioctl(a) \/ handle_pread64(a) \/ handle_pwrite64(a) \/ handle_mmap(a)
    \/ handle_readv(a) \/ handle_writev(a) \/ handle_sendto(a) \/ handle_connect(a)
    \/ handle_getpeername(a) \/ handle_pselect6(a) \/ handle_poll(a)
    \/ handle_read(a) \/ handle_write(a) \/ handle_lseek(a) \/ handle_fstat(a) \/ handle_getdents64(a)
NamesPath(a) ==
    \/ handle_access(a) \/ handle_unlink(a) \/ handle_chdir(a) \/ handle_rmdir(a) \/ handle_chmod(a)
    \/ handle_statfs(a) \/ handle_llistxattr(a) \/ handle_lgetxattr(a) \/ handle_rename(a)
    \/ handle_faccessat(a) \/ handle_faccessat2(a) \/ handle_fchownat(a)
    \/ handle_statx(a) \/ handle_newfstatat(a) \/ handle_readlink(a) \/ handle_readlinkat(a)
    \/ handle_symlink(a) \/ handle_symlinkat(a) \/ handle_linkat(a)
MakesProcess(a) == handle_fork(a) \/ handle_vfork(a) \/ handle_clone(a) \/ handle_clone3(a)
dispatch_syscall(a) ==
    \/ Ready(a) /\ (MakesDescriptors(a) \/ UsesDescriptor(a) \/ NamesPath(a) \/ MakesProcess(a))
    \/ Exec(a) \/ Exit(a)

\* A handler goes on after an await.
Resume(a) ==
    \/ open_result(a) \/ allocate_fd(a) \/ pipe_result(a) \/ Duplicate(a) \/ allocate_min_fd(a)
    \/ close_old(a) \/ install(a) \/ close_kernel_fd(a) \/ inject(a) \/ insert_fd_table(a)
    \/ fsync(a) \/ fsync_pwrite(a) \/ fsync_truncate(a)

Next == \E a \in Threads : dispatch_syscall(a) \/ Resume(a) \/ get_fd_table(a)
Spec == Init /\ [][Next]_vars

-----------------------------------------------------------------------------
\* The inode of a virtual file, once it has one.
StoredAs(o) == IF ops[o].ino # 0 THEN {ops[o].ino}
               ELSE {db.names[n] : n \in {ops[o].name} \cap DOMAIN db.names}

\* The tracer's state is well formed, and what a handler keeps over an await
\* refers to files and descriptors there are.
TypeOK ==
    /\ known \subseteq Procs /\ life \in [Procs -> {"none", "running", "execed", "exited"}]
    /\ tableOf \in [Procs -> 1..Len(tables)] /\ filesOf \in [Procs -> 1..Len(files)]
    /\ \A n \in 1..Len(tables), v \in Fds : Has(tables[n], v) =>
          LET e == tables[n].entries[v] IN IF e.kind = "pass" THEN e.k \in Fds ELSE e.o \in 1..Len(ops)
    /\ \A o \in 1..Len(ops) : /\ ops[o].ino \in 0..Len(db.data) /\ Len(ops[o].data) <= MaxLen
                              /\ ops[o].kind = "dir" => ~ops[o].dirty
    /\ \A n \in DOMAIN db.names : db.names[n] \in 1..Len(db.data)
    /\ \A a \in Threads :
          /\ call[a].t \in 0..Len(tables)
          /\ call[a].pc \in {"flush", "pwrite", "truncate"} => call[a].o \in 1..Len(ops) /\ IsFile(call[a].o)
          /\ call[a].pc \in {"pwrite", "truncate"} => call[a].ino \in StoredAs(call[a].o)

\* The next descriptor is the lowest from FIRST_USER_FD on that is not in use,
\* and there is one as long as any is left, for every table and after any sequence
\* of dup2 beyond the end, F_DUPFD from a minimum, close and fork (fdtable.rs:
\* next_vfd and the heap).  A standard descriptor given back is not given out
\* again, against "the lowest available FD number, as required by POSIX".
Unused(t) == {v \in Fds \ StdFds : ~Has(t, v)}
LowestDescriptor ==
    \A n \in 1..Len(tables) :
       Unused(tables[n]) # {} => CanAllocate(tables[n]) /\ allocated(tables[n]) = Min(Unused(tables[n]))

\* Entries whose table or kernel side an unfinished dup2 has just changed.
Changing(p) == {call[a].to : a \in {b \in Threads : call[b].pc = "install" /\ tableOf[ProcOf[b]] = tableOf[p]}}

\* A guest descriptor stands for the file it was opened on, for every process
\* and with calls of other threads between any two awaits, and two of them never
\* share a kernel descriptor that one close would take from both; what a handler
\* read from the table is still that file when the kernel gets the call (file.rs).
\* `rude` is what the code does not cope with: one descriptor changed by two
\* threads at once, a table changed while fork copies it, a child's early call,
\* clone3 with CLONE_FILES, exec with O_CLOEXEC or shared descriptors, and a
\* number that only the kernel knows.
RightFile ==
    ~rude =>
    /\ \A p \in known \cap Living :
          LET t == tables[tableOf[p]].entries
              S == {v \in DOMAIN t \ Changing(p) : t[v].kind = "pass"}
          IN /\ \A v \in S : files[filesOf[p]][t[v].k] = t[v].desc
             /\ \A v, w \in S : v # w => t[v].k # t[w].k
    /\ \A a \in Threads : call[a].pc \in {"fwd", "dup"} => Kernel(a)[call[a].e.k] = call[a].e.desc

Held(o) ==
    \/ \E n \in 1..Len(tables) : \E v \in DOMAIN tables[n].entries : tables[n].entries[v].o = o
    \/ \E a \in Threads : o \in {call[a].o, call[a].e.o, call[a].old.o}
SameFile(o, u) == ops[u].name = ops[o].name \/ StoredAs(o) \cap StoredAs(u) # {}
Alone(o) == \A u \in 1..Len(ops) : u # o => ~SameFile(o, u)

\* What was written to a stored file of the SQLite mount is in the database once
\* no table and no call has it any more, whichever of close, dup2 and dup3 flushed
\* it and in whichever process, if nobody else opened the file and no write met a
\* flush, and unless the database failed its last flush: after a flush that failed
\* a later one makes up for it (SqliteFileOps::close; errors are dropped by
\* `.ok()`).  A process that exits keeps its descriptors here and flushes nothing.
NothingLost ==
    ~rude =>
    \A o \in 1..Len(ops) :
       ops[o].kind = "file" /\ ops[o].ino # 0 /\ ~ops[o].overlapped /\ ~ops[o].failed /\ ~Held(o) /\ Alone(o)
       => db.data[ops[o].ino] = ops[o].data

\* The mount a path lies in: the deepest one on its way.
Owner(p) == {n \in 1..Len(Added) : /\ IsPrefix(Added[n].path, p)
                                   /\ \A m \in 1..Len(Added) : IsPrefix(Added[m].path, p) => Depth(m) <= Depth(n)}

\* The kernel is given the path in the host directory of the deepest mount, by
\* every call that translates its paths (mount.rs: "longest prefix"); execve and
\* execveat do not.
PathsTranslated ==
    \A pq \in asked :
       pq[2] = IF \E n \in Owner(pq[1]) : Added[n].kind = "bind"
               THEN LET n == CHOOSE n \in Owner(pq[1]) : TRUE
                    IN Added[n].host \o SubSeq(pq[1], Depth(n) + 1, Len(pq[1]))
               ELSE pq[1]

\* "Ensure all data is written to the database before closing" (sqlite.rs:534):
\* also for a file the guest has just created.
ClosedMeansStored ==
    \A o \in 1..Len(ops) :
       ops[o].kind = "file" /\ ~ops[o].overlapped /\ ~ops[o].failed /\ ~Held(o) /\ Alone(o)
       => ops[o].name \in DOMAIN db.names /\ db.data[db.names[ops[o].name]] = ops[o].data
================================================================================
