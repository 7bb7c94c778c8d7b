# AgentFS: a TLA+ verification project

AgentFS is a file system, a key-value store and a tool-call log for AI agents in
one SQLite (Turso) database. The repository holds the Rust SDK (`sdk/rust`), the
CLI that mounts it over FUSE or NFS (`cli`), a ptrace sandbox (`sandbox`) and
SDKs in Go, TypeScript and Python. This directory models the Rust code: the SDK's
stores, the overlay and host file systems, the two mounts and the sandbox. TLC
checks each on small instances, and TLAPS proves, for every value of the constants,
the safety invariants of the inode store, the chunked content, the pool and the
stores, the two mounts and the sandbox, and that reads return what is stored. Source paths below are relative to the repository.

## The system

| part | state | operations | interacts with | hard to get right |
|---|---|---|---|---|
| **AgentFS inode store** `sdk/rust/src/filesystem/agentfs.rs`, `impl FileSystem` | tables `fs_inode`, `fs_dentry`, `fs_symlink`, `fs_data`; the LRU dentry cache; open handles | lookup, mkdir, mknod, symlink, link, create_file, unlink, rmdir, rename, open, attribute changes | called by FUSE, NFS, OverlayFS; takes a pooled connection | most operations are several autocommitted statements, cut anywhere by an error or a crash; link-count arithmetic; the cache against the table |
| **AgentFS path API** same file, `impl AgentFS` | the same | the same by path, plus read_file, pread, pwrite, truncate | SDK users, CLI `fs` commands | path walks trust the cache; `stat` follows symlinks where `lstat` is meant; no kernel checks in front |
| **File content** same file | `fs_inode.size`, chunk rows | pread, pwrite, truncate by handle and by path (separate code) | | chunk boundaries, holes, short chunks, regrowth after a cut |
| **Connection pool** `sdk/rust/src/connection_pool.rs` | semaphore, idle connections, mutex | get_connection, drop | everything that touches the database | cancellation, time-outs, `try_lock` in `Drop` |
| **Facade, schema, migration, key-value store, tool-call log** `lib.rs`, `schema.rs`, `kvstore.rs`, `toolcalls.rs`, `cli/src/cmd/migrate.rs` | tables, columns, pragmas of the connection | open, migrate; set/get/delete; start/success/error/record | pool; other processes on the same file | a schema guessed from its columns; creation and migration cut short; a call reported twice |
| **OverlayFS** `sdk/rust/src/filesystem/overlayfs.rs` | whiteouts, origin mappings (table and memory), inode, path and reverse maps | the FileSystem trait over a base and a delta | AgentFS as delta, HostFS as base | copy-up in several steps, paths kept across renames, crash and remount |
| **HostFS** `hostfs_linux.rs` | cache of `O_PATH` descriptors by inode number, lookup counts | passthrough system calls | base of the overlay | late FORGETs, host inode numbers used again |
| **FUSE mount** `cli/src/fuse.rs`, `cli/src/fuser` | handle table, queue of invalidations, the kernel's caches | FUSE requests | FileSystem trait, kernel | invalidations need locks that callers hold; entries that never expire |
| **NFS server** `cli/src/nfs.rs`, `cli/src/nfsserve` | one mutex around the file system, retransmission tracker, tasks | NFSv3 procedures | FileSystem trait, clients over TCP | a procedure takes the mutex several times; cookies that are inode numbers; copies, reconnections, restarts |
| **ptrace sandbox** `sandbox/src` | descriptor tables, mount table, virtual files | every system call on descriptors and paths | kernel, AgentFS | table entries kept over an await; fork; content written back at the last close |
| sync, CLI commands, run-time sandboxes, other SDKs | | | | see *Not modelled* |

What makes each part correct: *inode store*: the root stays, every entry names
an inode with a row, the entries form a tree, directories have one name, link
counts tell the last link, the cache agrees with the table, handles keep their
file. *Content*: reads return what writes stored, whatever the chunk layout.
*Pool and stores*: no permit and no configured connection is lost, waiters are
served, a database that opens is complete, records are consistent. *Overlay*:
callers see one writable tree. *FUSE*: an inode or handle the kernel holds stays
what it was, and nobody waits for ever. *NFS*: a call runs once and is answered,
and what happens between two holdings of the mutex breaks no promise. *Sandbox*:
a descriptor stays the file it was opened on, and written content survives. The
hazards are listed line by line in `PROJECT.json`.

## Modules

| module | models |
|---|---|
| `AgentFS` | the inode store, one action per statement of the operations that run outside a transaction, one per transaction otherwise |
| `AgentFSPaths` | the path API on the same state: `Walk` is `resolve_path_with_conn` with its cache, `Stat` is `stat_with_conn` |
| `ByteFile` | abstract specification: the content of a file is a sequence of bytes |
| `ChunkFile` | one file's `size` and chunk rows with both sets of I/O code; refines `ByteFile` |
| `ConnectionPool` | the pool; tokio's semaphore (FIFO) is external |
| `Stores` | extends `ConnectionPool`: open, migrate, key-value store, tool-call log and fsync as lists of statements on borrowed connections, with a second process on the file |
| `UnionTree` | abstract specification: one writable tree that starts as the base |
| `OverlayFS` | the overlay, a handler being the sequence of its committed steps; refines `UnionTree` |
| `HostFS` | the Linux host file system's inode cache, as operators on one record |
| `FuseSession` | extends `HostFS`: processes, the kernel's dentries, locks, lookups and FORGETs, the session thread with every handler of `fuse.rs`, the notify thread |
| `NfsPermissions` | `permissions.rs` as operators |
| `AgentNFS` | extends `NfsPermissions`: the adapter `nfs.rs` over a tree with attributes, as operators |
| `NfsServer` | extends `AgentNFS`: clients, connections, tasks, the tracker, every procedure as its holdings of the mutex, restarts |
| `FdTable`, `MountTable` | the sandbox's descriptor table and mount table, as operators |
| `Sandbox` | extends both: the handlers of `syscall/*.rs` and the files of `vfs/sqlite.rs`, cut at their awaits; kernel descriptors are external |
| `AgentFSProofs` | theorems about `AgentFS`: types, names and cache; link counts and the tree |
| `ChunkFileProofs` | `ChunkFile` implements `ByteFile`; what its recursive reads return |
| `StoresProofs` | theorems about `ConnectionPool` alone and under `Stores` |
| `OverlayProofs`, `OverlayWhiteoutProofs` | theorems about `OverlayFS`: types, and the lemmas about its tree, maps and plans; whiteouts |
| `FuseProofs`, `NfsProofs` | theorems about `FuseSession` (with `HostFS`) and `NfsServer` (with `AgentNFS`) |
| `SandboxProofs` | theorems about `Sandbox` (with `FdTable` and `MountTable`): the tables, flushing and paths; types, which file a descriptor is and what is kept |
| `MC*` | instances for TLC |

**`AgentFS`.** `kind` and `nlink` are the columns of `fs_inode`
(`"none"`: no row), `dentry` is `fs_dentry` as a function from its unique key
(parent, name) to an inode, `symlinks` and `data` the inodes with rows in
`fs_symlink` and `fs_data`, `next` the AUTOINCREMENT counter, `cache` the dentry
cache, `open` the handles. `op` is the operation in progress and the statement
it executes next. Because each operation holds the pool's only connection from
beginning to end (`PermitsConserved`), operations of one process do not overlap;
what can happen between two statements is that the operation ends there, by a
failing statement (`StatementFails`) or a crash (`CrashAndReopen`, which also
empties cache and handles). `torn` remembers whether an adding or a removing
operation was cut, so that properties can say how much they tolerate. `Guarded`
says who calls. Behind a FUSE mount (`TRUE`) the kernel's VFS only passes linked
directories as parents, never renames an inode onto itself and never moves a
directory below itself; AgentFS itself checks none of these, and `FALSE` is an
SDK user. Theorems and runs say which they need. Abstracted: owners, permissions,
times, device numbers, name lengths, which LRU entry is evicted (any may be), the
text of symlink targets and file content (in `ChunkFile`). Timestamp statements
are not actions: a cut at one leaves the same state as a cut at its neighbour.

**`Stores`.** A statement is a tuple; an operation is a list of sections, one per
connection it borrows, each a list of statements. `Statement` runs one, `Abandon`
drops the future between two, `Crash` kills the process. `cli` is another process
that opens or migrates the file at the same time. `conn` holds the pragmas of the
connection, which a replacement would not have.

**`OverlayFS`.** `ent` and `node` are the delta's entries and inodes, `mem` the
maps in memory, `dcache` the paths the kernel remembers with their overlay
inodes. `op.todo` holds the rest of the running handler, one step per helper
that commits something; `Fail` ends it after any of them, `Remount` is a crash or
an orderly restart. Content is abstracted to where it came from and whether it was
changed. The history flag `stale` is set when the code's maps stop being
reliable: a hard link, a directory rename, a remount while origins are stored, a
call cut short after it changed something. The properties are claimed until then;
the step that sets the flag still has to be one `UnionTree` allows.

**`FuseSession`.** One served directory is enough for lookup counts, handles
and invalidations. The kernel side is what `fuse.rs` relies on: the directory's
lock is held by a changing process until its answer, shared by lookups, and taken
by an invalidation; a reply with an entry counts as a lookup; FORGETs come at any
later time, alone or in batches. `linked` remembers inodes answered to LINK.

**`NfsServer`.** A step of a task is one holding of the file-system mutex.
`vfs_setattr` is the set of its possible answers: chmod, chown, truncate and utimens
in this order, any of which the store may refuse, with the earlier ones done. A
refusal by the store in another call of the adapter changes nothing and is answered
with the store's error; those are left out.
`calls` are numbered by xid; `Retransmit` sends a copy, `Disconnect` and
`Reconnect` change the port (so the tracker's key), `Restart` changes the
generation number in file handles, `housekeeping` lets the tracker forget a
completed call. `effects` records in which connection and life a call ran.

**`Sandbox`.** `call[a]` is what thread `a`'s handler keeps over an await, and
where it goes on. A virtual file's `ops` record is its buffer, offset and dirty
flag. A flush writes the buffer and then sets the length, which extends the file
with zeros again when another open's flush has cut it in between, so `NothingLost`
is claimed of a file that nobody else opened. Each step of a flush may fail, a
write after any part of it; `failed` says that the last flush did. `exec` and `exit`
change nothing in the tracer; `life` has what the kernel does. A child runs from
the kernel's fork on, and its table comes when the parent's handler goes on
(`insert_fd_table`); a call it makes before gives it a fresh one (`get_fd_table`),
which the parent's replaces while handlers may still use it (`t`).

`rude` remembers that the guest did what the code does not cope with, and
`RightFile` and `NothingLost` claim nothing from there on:

| what | in the model | in the code |
|---|---|---|
| two threads of one table change the same descriptor, or one uses it while the other replaces it, within one await | `Clash` in `Begin`, `Retable`, `Give` | entries read at `file.rs:303, 356, 358` and used after an await |
| a number that is not in the table but open in the kernel | `Stray` | `file.rs:288, 339, 425`: the guest's number reaches the kernel |
| a child's call before it has its table | `get_fd_table` | `or_default`, `sandbox/mod.rs:57-62` |
| the table changes between the kernel's fork and its copy | `Copying` | `process.rs:15-22` |
| a fork while a `dup2` is about to install its entry | `Spawn` | `file.rs:402` after the fork's copy of the kernel's descriptors |
| `clone3` with CLONE_FILES | `Spawn` | `process.rs:116` |
| an exec that closes O_CLOEXEC descriptors of the table, unshares descriptors, or ends calls of other threads; an exit that leaves such calls | `Exec`, `Exit` | `syscall/mod.rs:366-369` change no table |

Everything else is covered: a thread that opens, closes, duplicates or replaces
*other* descriptors at any await of a handler (so also the numbers a table or the
kernel gives back meanwhile), forks that meet no change of the table, and exits.

`_Something` definitions (for example `IsEmpty_Unchecked`) are plausible bugs used
to test that each property can fail; the specifications do not use them, except
where the correct operator is a case of one.

## Runs

| run | question | bounds | distinct states |
|---|---|---|---|
| `agentfs` | what two cuts anywhere cannot break | root and 2 more inodes, 2 names, 2 faults, cache of 2, 1 handle | 93,735 |
| `agentfs_paths` | tree and cache by path, with symlinks to top-level names | paths of 2 components, 1 fault, 3 follows | 103,648 |
| `chunkfile` | content for every offset and length | chunks of 3 bytes, files of up to 7 bytes, 3 byte values | 6,726 |
| `stores` | one database file from nothing, 0.0 or 0.2 to open, and its use | 3 tasks, 1 permit, 1 key, 1 logged call, 2 instants, 6 connects | 221,343 |
| `overlay` | one writable tree | base of a directory with a file, 2 names, depth 2, 3 delta and 4 overlay inodes, 2 mounts | 253,685 |
| `fuse` | identity of inodes and handles, progress | 3 processes, 2 names, 2 host inodes, 3 requests | 92,401 |
| `nfs` | pairs of calls, a change during a listing, every call alone | 2 clients, 3 calls, 2 connections each, 2 lives, 1 fault | 327,966 |
| `sandbox` | descriptors, paths, content | 2 threads (one table or forked), 4 calls, 2 virtual files, 3 mounts, 5 paths | 438,123 |
| `self_rename`, `overlay_alias`, `nfs_guard`, `sandbox_close` | disagreements, below | minimal | |

*Why the bounds are enough to be interesting.* Three inodes give a directory tree
of depth three, a file that moves between directories, and hard links; two names
force collisions, and two faults allow a cut operation to be followed by one that
works on its debris and is cut as well. Three chunks with a first, a whole middle
and a partial last one exercise each branch of the chunk code, and 7 is not a
multiple of 3. Three tasks on one permit make a queue behind a holder. In the
overlay a file below a base directory needs its parent copied up first, and can
be deleted, created again, replaced and forgotten. Two host inodes for two names
let the host run full, and its numbers are used again while handles keep old ones. One NFS fault is a
copy, a broken connection, a restart or a forgotten call; the scenarios are the
pairs whose steps can meet. Four system calls suffice for open, dup, write and
close in two processes, and for a close whose flush fails followed by another.
One of the sandbox's paths has a name that begins with that of the SQLite mount.

*Bounds in guards.* `MaxIno`, `MaxOpen`, `MaxFaults`, `MaxDepth`, `MaxLinks`,
`MaxFollow`, `MaxSize`, `MaxCreated`, `MaxCalls`, `MaxTime`, `MaxDelta`,
`MaxSession`, `MaxXid`, `MaxConn`, `MaxLives`, `MaxOps`, `MaxLen`, `MaxFd`, each
named at its declaration. `MaxFollow` is 3 instead of the code's limit: there are
at most two symlinks, so a longer chain is a loop. In `Stores` the other process
starts only while something is missing from the file and the tasks begin work when
it is done, since afterwards it changes nothing; the clock starts when the file
is open, since nothing looks at it before. Two runs cut the state space where
nothing is claimed any more: `overlay` by `Trusted` (`~stale`), `sandbox` by
`Polite` (`~rude`). TLC still checks the first such state.

*Properties.* `EntriesResolve` (every entry names an inode with a row) holds in
every intermediate state, but only until an *adding* operation is cut short.
`TreeConnected` holds for a guarded caller across all faults. `CacheCoherent`
matters because walks take cache hits without a query. `LinksRight` is about
states between complete operations; directories only get a lower bound, because a
rename that replaces a directory never takes its `..` link off the new parent.
`HandleNeverRetargeted` rests on AUTOINCREMENT. `PathReadsDenseContent` says
exactly when the path API's simpler reads are right. `SettingsKept` is why
`try_lock` in `Drop` is harmless with one permit. `OpenIsComplete` covers
creation and migration, cut short or concurrent. `AttrOfItsName` and
`ListsWhatIsThere` relate what the overlay answers through an inode the kernel
kept to what a lookup would find now. `InodesServed` and `NoStaleHandle` need the
lookup count to be right under every order of FORGETs. `RunsOnce` holds per
connection and life, the tracker's key being (xid, address with port).
`ListingComplete` needs that the entry under the cookie stays. `SetIdGoes` reads
the file's mode: a file in `owed` has set-id bits only while a WRITE is about to
clear them. What excuses a file is what the code lets happen: the clearing setattr
failed, a restart came before it, or a SETATTR gave the file new bits.
`ImplementsByteFile` allows each step any write or truncation of `ByteFile`; that
it is the one at the call's own offset is what the two read properties add. The ENOENT
part of `NoStaleHandle` says nothing once any inode was answered to LINK.

*Fairness.* `WaiterServed` (`stores`) assumes weak fairness of each task's own
steps: the runtime schedules runnable tasks, and every function that borrows a
connection ends after finitely many statements. `Progress` (`fuse`) assumes weak
fairness of the session thread and the notify thread, two operating-system
threads in endless loops. `Answered` (`nfs`) assumes that the server's tasks go
on: tokio runs them and its mutex is fair. Nothing is assumed of callers, clients,
the kernel, time-outs, cancellations and faults.

*Deadlock* is checked in `agentfs`, `agentfs_paths`, `chunkfile` and `stores`. In
`overlay`, `fuse`, `nfs` and `sandbox` callers stop when the bounded calls are used up or
the mount is gone, so these behaviours may end; that nobody is left waiting is
`Progress` and `Answered`.

### Where code and documentation disagree

Shown by a run:

* `self_rename`: the path API's `rename` of a name onto another name of the same
  inode deletes the destination first and loses the file. `SPEC.md:457`: "Every
  dentry MUST reference a valid inode".
* `overlay_alias`: origins loaded on remount hold base numbers of the last
  session. If another base file got such a number in this one, `lookup` gives the
  copied-up file that file's overlay inode. The comment at `overlayfs.rs:659-663`
  takes a live entry in the reverse map to be proof enough.
* `nfs_guard`: SETATTR with a guard that does not match writes NOT_SYNC and goes
  on (`nfs_handlers.rs:1847` has no return). `nfs.rs:170`: "Update
  synchronization mismatch was detected".
* `sandbox_close`: a new file of the SQLite mount is created by the flush at
  close and its inode number never kept; when the name exists by then, the error
  is dropped and with it what was written. `sqlite.rs:534`: "Ensure all data is
  written to the database before closing".

Met while modelling and built into the models (their properties stop there):

* Inode store: `link` inserts the entry before it counts the link, so that a cut
  between the two lets the next unlink delete a named inode (`torn`, `SPEC.md:457`).
  A directory starts with two links and `rmdir` takes one, so its row stays
  (`SPEC.md:463`: "Every inode MUST have at least one dentry (except root)").
  `pwrite` says "the file is extended with zeros" (`agentfs.rs:1386`), but
  `read_file` and the path `pread` drop gaps (`PathReadsDenseContent`).
* Stores: success followed by error leaves both outcomes in a row
  (`SPEC.md:95`, rule 1; also rules 2 and 5). A new file cut short
  after `CREATE TABLE fs_inode` looks like version 0.2 and is refused until it is
  migrated. `AgentFS::new` and `open_with_sync_db` skip the version check.
  `busy_timeout` is set only after the schema was created. An fsync cut short
  leaves `synchronous` at FULL.
* Overlay: after a directory rename the kept paths of its children are wrong and
  base children are reachable under neither name. `link` leaves its source tagged
  as a base file. A crash between delta removal and whiteout brings a base file
  back; a copy-up cut short leaves an empty file over the base's; a creation that
  fails after the whiteout is cleared uncovers the base file. `SPEC.md:557-563`
  asks the delta before whiteouts, `lookup` does it the other way round.
* FUSE and HostFS: `link` counts no lookup, so the kernel's FORGET takes one too
  many (`linked`); `readdir` counts lookups the kernel never gives back. The
  adapter of background mounts (`MutexFsAdapter`) does not forward forget at all.
  `setattr` returns at the first failing part with the earlier ones done.
* NFS: a copy sent over a new connection runs again, since the tracker's key has
  the port; the reply of a completed call is not kept, so a copy of it on the same
  connection gets none. READDIR ignores its cookie. READDIRPLUS ends early when
  the entry under the cookie is gone, and repeats with hard links. WRITE answers
  FILE_SYNC without a sync. It clears set-id bits by a setattr whose failure it
  ignores (`nfs_handlers.rs:1349`), so the answer may be OK and the bits still there,
  against `nfs_handlers.rs:1342` ("POSIX: Clear SUID/SGID bits when a non-root user
  writes to a file"); and the mode it stores is the one the write saw, so it undoes
  whatever a SETATTR has done to the mode in between.
* Sandbox, descriptors: a standard descriptor that was closed is never given out
  again (`fdtable.rs:282-285` returns only numbers from 3 on): after `close(0)` an
  open gets 3 or more. `fdtable.rs:146` says "the lowest available FD number, as
  required by POSIX"; `LowestDescriptor` claims it from 3 on. `dup2` reads both
  entries and then waits for the kernel, so that another thread's `close` or `dup2`
  of the same descriptor in between leaves an entry on a closed or a lost kernel
  descriptor, although `file.rs:366-367` duplicates first "to avoid race
  conditions". `dup2` onto itself closes the file. Numbers the table does not have
  go to the kernel as they are: `file.rs:288` ("will likely fail with EBADF") closes
  an unrelated kernel descriptor if that number is open there, and some calls on
  virtual descriptors reach unrelated ones.
* Sandbox, processes: the child's table is made after the kernel's fork, so a child
  that calls first gets a fresh table, whatever `process.rs:25` says ("the FD table
  was already set up by the parent"). After `vfork` it always does, because the
  injected call returns only when the child has called exec or exit. `clone3` with
  CLONE_FILES copies where it should share (a TODO at `process.rs:116`). exec closes
  O_CLOEXEC descriptors that the table keeps: the flags "will be applied later when
  needed (e.g., on exec)" (`file.rs:483-485`), and never are. execve and execveat
  take a path and translate none (`syscall/mod.rs:366-367`; FIXME at line 102), so
  `PathsTranslated` is about the calls that do translate.
* Sandbox, content: a flush that fails is dropped by `.ok()` (`file.rs:282, 391, 409,
  478, 500`), so close answers 0 and, if it was the last, what was written is gone
  (`sqlite.rs:534`); `NothingLost` asks that the last flush did not fail. exit and
  exec close no virtual file, so a process that ends without closing stores
  nothing. Unlink, rename and rmdir
  in the SQLite mount go to the host path. Of two opens of one virtual file the
  last close wins. `getdents64` drops entries that do not fit. The SQLite mount
  compares strings, so next to a sibling whose name only begins with its own it
  takes that sibling's paths from a mount further out; two mounts on one directory
  make "the deepest" ambiguous; and below a mount inside the SQLite mount, an
  `openat` relative to a virtual directory gets the path as the guest gave it.

## Proofs

The theorems hold for every value of the constants: any number of inodes, names,
tasks, connections, processes, descriptors, requests, faults, and chunks of any
size. Each is about the specification the runs check, and each property and each
part of an inductive invariant was checked by TLC before it was proved. What is
assumed is the named `ASSUME` of the module that declares the constants:
`ConstantsAssumption`, `ChunkAssumption`, `PoolAssumption`, `StoresAssumption`,
`BaseIsTree`, `BoundsAssumption`, `HostAssumption`, `FuseAssumption`, `NameAssumption`, `NfsAssumption`,
`FdAssumption`, `MountAssumption`, `SandboxAssumption`, `PathsAssumption` and
`StoredAssumption`. They say that bounds
are naturals, that the overlay's base is a tree, that sets of names are finite where their elements are counted, that
null values are not real values, that mounts and paths are sequences of names, that the tree an NFS server starts with and the
files a sandbox finds in its database are well formed, and that the host's root
directory is no file.

| module | theorem | states | for |
|---|---|---|---|
| `AgentFSProofs` | `TypeCorrect` | `[]TypeOK` | any caller |
| | `RootIsProtected` | `[]RootProtected` | any caller |
| | `DirectoriesNamedOnce` | `[]DirNamedOnce` | any caller |
| | `HandlesNeverRetargeted` | `HandleNeverRetargeted` (every step) | any caller |
| | `CacheIsCoherent` | `[]CacheCoherent` | `Guarded` |
| | `EntriesAlwaysResolve` | `[]EntriesResolve` | `Guarded` |
| | `TreeStaysConnected` | `[]TreeConnected` | `Guarded` |
| | `LinksStayRight` | `[]LinksRight` | `Guarded` |
| `ChunkFileProofs` | `ChunksImplementBytes` | `ImplementsByteFile`: `Spec` implements `ByteFile` | every chunk size |
| | `HandleReads` | `[]HandleReadsContent` | every chunk size, offset and length |
| | `PathReads` | `[]PathReadsDenseContent` | every chunk size, offset and length |
| `StoresProofs` | `PoolPermitsConserved` | `[]PermitsConserved` of the pool alone | any number of permits |
| | `StoresPermits` | the same under the stores' operations | any number of permits |
| | `StoresTypes` | `[]StoresTypeOK` | |
| | `StoresOpenIsComplete` | `[]OpenIsComplete` | |
| | `StoresRecords` | `[]RecordsConsistent` | |
| | `StoresSettingsKept` | `[]SettingsKept` | one permit, as in `lib.rs` |
| `OverlayProofs` | `OverlayTypes` | `[]TypeOK` | every base tree of depth two |
| `OverlayWhiteoutProofs` | `OverlayWhiteouts` | `[]WhiteoutHidesBaseOnly` | every base tree of depth two |
| `FuseProofs` | `FuseTypes` | `[]TypeOK` | |
| | `FuseInodesServed` | `[]InodesServed` | |
| | `FuseNoStaleHandle` | `[]NoStaleHandle` | |
| `NfsProofs` | `NfsTypes` | `[]TypeOK` | |
| | `NfsRunsOnce` | `[]RunsOnce` | |
| | `NfsSetIdGoes` | `[]SetIdGoes` | |
| | `NfsOneCreator` | `[]OneCreator` | |
| | `NfsListingComplete` | `[]ListingComplete` | every page size |
| `SandboxProofs` | `DescriptorsLowest` | `[]LowestDescriptor` | |
| | `PathsGoDeepest` | `[]PathsTranslated` | mounts that stand apart (`MountsApart`) |
| | `DescriptorsKeepTheirFiles` | `[]RightFile` | |
| | `SandboxTyped` | `[]TypeOK` | |
| | `NothingIsLost` | `[]NothingLost` | |

**`AgentFS`.** One inductive invariant in layers, each preserved given the ones
before it.

1. `TypeInv` = `TypeOK` and `OpInFlight`: an operation in progress has a real
   inode and slot. Without it the statement actions are not well typed.
2. `NamesInv` = `RootProtected`, `DirNamedOnce`, `FreshUnused` (no number at or
   above `next` has a row or a name) and `OpNames` (an inode in progress is not
   the root, and has no name before its entry is inserted). `DirNamedOnce` alone
   is not inductive: `DentryStatement` of a mkdir would add a name to a directory
   that, without `OpNames`, might already have one.
3. `CacheInv` = `CacheCoherent` and `OpSlot`: an adding operation caches its slot
   only after the table has it.
4. `ShapeInv`: parents of entries are directories, and the operation in progress
   works on the kind it expects. It needs the VFS guard.
5. `CountInv`: until an adding operation is cut, the link count of what is no
   directory is at least the number of its names (plus or minus the one the
   operation in progress has written but not counted), and an inode about to be
   deleted has no name. This makes "link count zero" imply "no name"; it uses the
   cardinality theorems of the library, one row change at a time
   (`NameCountUpdate`).
6. `TreeInv`: every set of directories that holds the root and is closed under
   entries holds every parent (`Connected`), which avoids paths altogether, and the
   directory in which an operation is adding still has a place. A rename keeps it
   because the VFS never moves a directory below itself: the closed set for the new
   tree is also closed for the old one.
7. `ExactInv` and `DirInv` sharpen the count while nothing was cut: equality for
   files, two links plus one for each subdirectory as a lower bound for
   directories.

`HandlesStep` needs that a handle's number is below `next` and that a row appears
only at `next` (`KindStep`).

**`ChunkFile`.** The refinement mapping reads byte *b* of the file from its chunk
row, zero where there is none. `ChunkInv` is what makes it work: rows have at most
`ChunkSize` bytes and are `Clean`, that is, no row holds a byte other than zero at
or beyond `size`, so that growing a file again never uncovers what a truncation
cut off. Every write, truncation and creation is then shown to be the one of
`ByteFile`, byte by byte; the lemmas on division and remainder take the place of
induction over chunks. What the recursive reads return is proved from the least
number for which it would not hold (`SetInduction`), for every number of chunks. A
read through a handle needs `ChunkInv` only. A read by path concatenates rows, so
it needs `DenseInv` as well: until a write or truncation leaves a gap (`holes`),
every chunk before the last is there in full and the last one reaches the end.

**`Stores` and `ConnectionPool`.** `PoolInv` says who holds what in each `pc`:
permits are the free ones plus those of tasks from the grant to the end of `Drop`,
and no connection is in two hands. `StoresInv` adds the types and, for the
schema, that every list of statements leaves the marks that `open` tests only after
what they stand for, whatever the other process has done in between; the calls'
records need that a report under way knows the call's start. `SettingsInv` (one
permit) adds that nobody connects while there is a connection, idle or in use, and
that from the moment `from_pool` has set it up there always is one.

**`OverlayFS`.** `OverlayInv` = `DeltaTyped` (entries join inodes that have a row,
never the root), `MemTyped` (the inode, path, reverse and base maps only name each
other's members), `Kernel`, and what the running handler relies on. `TypeOK` alone
is not inductive: a creating step adds an entry to a directory whose number the
handler read several statements earlier. So `Todo` says in which order steps may
come, `ParentsThere` that until the entry is made its directory has a row (only a
removal or a rename deletes rows, and only whiteouts follow those), `Handed` that
what one step leaves in the maps for the next is there, and `Creates` that the new
inode a reply names is in the reverse map. A walk is taken apart name by name
(`WalkOn`), so that it is known to survive new entries (`WalkKept`).

`WhiteoutHidesBaseOnly` is about what is stored and reads nothing in memory, but
what keeps it true does: a handler clears whiteouts or not by what its lookups
answered, and they answer from the maps. So the invariant is `OverlaySound` =
`OverlayInv` and, until `stale`, `Whole`: every delta inode has one name (`Tree`);
each key of the reverse map, each inode and each origin agrees with the delta and the base on
what is a directory and where it is (`Fits`); so does each path the kernel keeps
(`CachedFits`), and what is whited out is not kept as a base inode (`Seen`); and
the steps a handler has left fit one another (`Plan`), are preceded by the
clearing of a whiteout at the name they make (`Cleared`) and by the parent they
copy into (`ParentMade`, `ParentsAreDirs`), and use what they were handed
(`MadeFits`, `Source`, `Hands`). There is a lemma for what each operation on maps
or tree does to each of these (`MoreNumbers`, `Refreshed`, `WithOrigin`, ...) and one
for each action. Nothing is claimed once `stale`: after a directory rename the kept
paths of its children are wrong, and what handlers then do has no such invariant.

**`FuseSession`.** `FuseInv`: `QueueInv` (each process has at most one request
under way), `FilesInv` (a handle a process holds is in the table and belongs to
nobody else, and requests under way use the handles of their process), `InodesInv` and `ErrorsInv`. The core is
`InodesInv`: for an inode that was never answered to LINK, the lookup count of the
cache is at least the kernel's references plus all FORGETs on their way, and the
cached descriptor is the file that was given out. It needs that
no two numbers of the cache stand for one host inode (`HostOK`).

**`NfsServer`.** `BaseInv` types calls, tasks and tree. `TrackInv`: a task past the
tracker is the only one with its key, and the key is `InProgress`. `OnceInv`: as
long as the tracker has not forgotten a call, what ran for it is in the tracker,
and a task that has yet to run finds nothing that ran under its key. `OwedInv`:
a file in `owed` that has set-id bits has a WRITE whose next holding of the mutex
clears them, and what a WRITE kept of a mode has no such bits. For that every
operation of `AgentNFS` is shown to give no file set-id bits it had not (`Modest`),
new inodes included, but for setattr (`SetattrModes`). `CreatorInv`: who was told, or will be told, to have
created an inode is alone, because inode numbers are not used again. `ListInv`: at every page of a listing
the names that were there from the beginning and lie before the cookie in the
order have been shown. `Ordered` is shown to number the entries without gap
(`RankOnto`, `InOrder`), so that the page after the cookie goes on exactly where
the last one ended, as long as the entry under the cookie is there.

**`Sandbox`.** `LowestInv`: in each table `next_vfd` and the heap of free numbers
from 3 on cover exactly what is not in use, also in the copy a fork makes, in a
fresh table and in one that was replaced under a call. `TypeInv` needs nothing of
the guest. `RightInv` adds, until `rude`, `CallsHere` (a call works on the table its
process has), `ForkInv` (between the kernel's fork and the tracer's copy the child's
kernel descriptors agree with the parent's table) and `FilesInv`: for each table and
its kernel descriptors, `Right`: every kernel descriptor that an entry of the table
or a call under way relies on is open, is the file it is taken for, and is relied on
by nobody else, and no call is about to replace a descriptor another one still uses
(`Keeps`, `Firm`, `CallOK`, `Touches`, `Replaces`). `RightFile` alone is not inductive: a `dup2`
holds an entry that is no longer, or not yet, in the table. A step of one thread is
shown to give one of few outcomes for its table (`MakesOutcome`, `ResumeOutcome`), and
each outcome to keep `Right` of that table (`OutcomeKeeps`) and of the others. `FlushInv` is about
files nobody else opened: a clean one is stored as it is in the buffer unless its
last flush failed, a flush that goes on writes what the buffer holds, and what its
truncate cuts begins with it. `KeptInv`: a file that is dirty, and whose last flush
did not fail, is being flushed, or has a descriptor that no
`dup2` is about to overwrite. Together: once the last descriptor and the last
flush are gone, the file is clean and so it is stored.
Paths: the mount table's sort is a permutation with the deepest mounts first
(`PlaceOnto`, `MountsSorted`), so the first mount that takes a path is the deepest
one above it (`Resolved`, `Translated`). That needs `MountsApart`: no two mounts on one
directory, none on or below the SQLite mount, and no path whose name only begins
with that of the SQLite mount. The run goes further: its mounts satisfy the first
two, and one of its paths does begin so, with no mount further out. `StoreInv` says that
what a table or a call under way holds of the SQLite mount lies below that mount,
so a path relative to it does not leave it.

### Only model-checked

* The overlay: `NoAliasing`, `AttrOfItsName`, `ListsWhatIsThere`
  and the refinement of `UnionTree`.
* The path API's runs; they share `AgentFS`'s statements, but walks with symlinks
  are recursive functions.
* `PathsTranslated` where mounts do not stand apart. It is not true of every set of
  mounts; see the disagreements of the sandbox.
* Liveness: `WaiterServed`, `Progress`, `Answered`.

## Not modelled

In modelled parts: a procedure of the NFS server that panics (a `maxcount` below
the size of its header, `nfs_handlers.rs:971, 1120`); a LINK that the host answers ENOENT because the file's last name
has gone (`hostfs_linux.rs:853-868`: processes look the name up under the lock that
LINK holds, and nobody else changes the host directory); chmod, chown and utimens of the inode store (one UPDATE of
attributes no property there reads; `AgentNFS` has them), readdir and statfs
of the inode store, the character-level normalisation of paths including `..`,
relative symlink targets, targets of `dup2` and `F_DUPFD` that are no valid
descriptor numbers (`file.rs:402, 616` have no range check, so they enter the table),
the awaits inside the open of a virtual file (`sqlite.rs:135-166`, one step: what is
claimed is of files nobody else opened), an exec that fails, XDR encoding and the FUSE wire format
(`fuser/ll`, `fuser/mnt`, third-party), macOS and Windows host file systems, and
the sandbox handlers that are built for aarch64 only.

Whole parts: *cloud sync* calls an engine outside the repository; the *CLI commands
and daemon* and the *run-time sandboxes* (`cli/src/sandbox`) set up processes,
namespaces and mounts and keep no state that several steps share; the *Go,
TypeScript and Python SDKs* are further implementations of the same tables, of
which the Rust one is the reference.

## Plan

What is left to prove of the overlay, on top of `OverlaySound`: `NoAliasing`, for
which `Fits` would have to say of files what it says of directories, where they
are; `AttrOfItsName`, `ListsWhatIsThere` and the refinement step by step need it.
What is left to model is listed above; of it, the attributes of the inode store
come first.
