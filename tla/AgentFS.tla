------------------------------- MODULE AgentFS -------------------------------
(***************************************************************************)
(* The SQLite-backed inode store of sdk/rust/src/filesystem/agentfs.rs:    *)
(* the tables fs_inode, fs_dentry, fs_symlink and fs_data, the in-memory   *)
(* dentry cache, open file handles, and the inode-based operations of      *)
(* `impl FileSystem for AgentFS`.                                          *)
(*                                                                         *)
(* Every operation holds the pool's only connection from its first query   *)
(* to its return, so operations of one process never overlap.  What can    *)
(* come between the statements of one operation is the end of it: only     *)
(* create_file and rename (and writes) run in a transaction.  The others   *)
(* are sequences of autocommitted statements, one action each here, which  *)
(* a failing statement or a crash may cut anywhere; `op' is the operation  *)
(* in progress and the statement it executes next.                         *)
(*                                                                         *)
(* Abstracted: ownership, permissions, timestamps, name length, the bytes  *)
(* of a file (module ChunkFile) and the text of a symlink target.          *)
(***************************************************************************)
EXTENDS Integers, FiniteSets

CONSTANTS
    Names,      \* file names
    NoSlot,     \* the slot of an idle `op'
    MaxIno,     \* bound: the last inode number AUTOINCREMENT hands out
    CacheSize,  \* DENTRY_CACHE_MAX_SIZE
    MaxOpen,    \* bound: handles held at once (one more is dropped at once)
    MaxFaults,  \* bound: operations cut short in a behaviour
    Guarded     \* TRUE: the caller makes the checks of the kernel's VFS, as
                \* behind a FUSE mount; FALSE: an SDK user or an NFS client

ROOT_INO == 1
Ino == 1 .. MaxIno
None == 0                          \* "no row"
Slots == Ino \X Names              \* the UNIQUE(parent_ino, name) keys
\* S_IFDIR, S_IFLNK and everything else: what mknod makes of devices and
\* FIFOs behaves like a regular file here.
Kinds == {"dir", "file", "symlink"}

ASSUME ConstantsAssumption ==
    /\ MaxIno \in Nat \ {0}
    /\ CacheSize \in Nat \ {0}
    /\ MaxOpen \in Nat
    /\ MaxFaults \in Nat
    /\ Guarded \in BOOLEAN
    /\ NoSlot \notin Slots
    /\ IsFiniteSet(Names)

VARIABLES
    kind,      \* fs_inode.mode & S_IFMT of each row, "none" where there is no row
    nlink,     \* fs_inode.nlink
    dentry,    \* fs_dentry: the ino of each (parent_ino, name), None if no row
    symlinks,  \* inodes with a row in fs_symlink
    data,      \* inodes with rows in fs_data
    next,      \* the next number of fs_inode's AUTOINCREMENT
    cache,     \* DentryCache: positive entries only
    open,      \* inodes with an open AgentFSFile
    op,        \* the operation in progress
    faults,    \* operations cut short so far
    torn       \* history: which kinds of operation were cut short

db == <<kind, nlink, dentry, symlinks, data, next>>
vars == <<kind, nlink, dentry, symlinks, data, next, cache, open, op, faults, torn>>

IdleOp == [fn |-> "none", at |-> "idle", ino |-> None, slot |-> NoSlot]
Idle == op.at = "idle"
Additions == {"mkdir", "mknod", "symlink", "link"}
Removals == {"unlink", "rmdir", "removedir"}
Statements == {"idle", "dentry", "nlink", "parent", "target", "data", "symlink", "inode"}

TypeOK ==
    /\ kind \in [Ino -> Kinds \cup {"none"}]
    /\ nlink \in [Ino -> Int]
    /\ dentry \in [Slots -> Ino \cup {None}]
    /\ symlinks \in SUBSET Ino
    /\ data \in SUBSET Ino
    /\ next \in 2 .. MaxIno + 1
    /\ cache \in [Slots -> Ino \cup {None}]
    /\ open \in SUBSET Ino
    /\ op \in [fn : Additions \cup Removals \cup {"none"}, at : Statements,
               ino : Ino \cup {None}, slot : Slots \cup {NoSlot}]
    /\ faults \in 0 .. MaxFaults
    /\ torn \in SUBSET {"addition", "removal"}

(***************************************************************************)
(* Reading the tables.                                                     *)
(***************************************************************************)
Exists(i) == kind[i] # "none"
Refs(i) == {s \in Slots : dentry[s] = i}
Subdirs(i) == {s \in Slots : s[1] = i /\ dentry[s] # None /\ kind[dentry[s]] = "dir"}
IsEmpty_Unchecked(i) == i \in Ino
IsEmpty(i) == \A n \in Names : dentry[<<i, n>>] = None

\* link refuses directories and inodes without a row.
Linkable_AnyKind(i) == Exists(i)
Linkable(i) == kind[i] \notin {"none", "dir"}

\* UPDATE fs_inode SET nlink = nlink + k WHERE ino = i, on a link-count column f.
AddLinks(f, i, k) == IF Exists(i) THEN [f EXCEPT ![i] = @ + k] ELSE f

\* get_link_count: 0 also when the row is gone.
LinkCount_OffByOne(f, i) == IF Exists(i) THEN f[i] - 1 ELSE 0
LinkCount(f, i) == IF Exists(i) THEN f[i] ELSE 0

\* A set of inodes that holds, with a directory, everything it names.
Closed(S) == \A s \in Slots : dentry[s] \in (Ino \ S) => s[1] \notin S

\* x is i or is named somewhere below it: it is in the least closed set with i.
Below(i, x) == \A S \in SUBSET Ino : i \in S /\ Closed(S) => x \in S

(***************************************************************************)
(* What the caller checks before it calls.  The VFS only passes a parent   *)
(* that is a linked directory, never renames an inode onto itself and      *)
(* never moves a directory below itself.  AgentFS checks none of that.     *)
(***************************************************************************)
CallerDir(p) ==
    IF Guarded THEN kind[p] = "dir" /\ (p = ROOT_INO \/ Refs(p) # {})
               ELSE p < next

CallerRename(s, t) ==
    Guarded => /\ dentry[s] # dentry[t]
               /\ kind[dentry[s]] = "dir" => ~Below(dentry[s], t[1])

Init ==
    /\ kind = [i \in Ino |-> IF i = ROOT_INO THEN "dir" ELSE "none"]
    /\ nlink = [i \in Ino |-> IF i = ROOT_INO THEN 2 ELSE 0]
    /\ dentry = [s \in Slots |-> None]
    /\ symlinks = {}
    /\ data = {}
    /\ next = 2
    /\ cache = [s \in Slots |-> None]
    /\ open = {}
    /\ op = IdleOp
    /\ faults = 0
    /\ torn = {}

(***************************************************************************)
(* Steps shared by several operations.                                     *)
(***************************************************************************)
\* The number of a new inode: AUTOINCREMENT never hands one out twice.
NewIno_Rowid == 1 + CHOOSE i \in Ino : Exists(i) /\ \A x \in Ino : Exists(x) => x <= i
NewIno == next

\* INSERT INTO fs_inode ... RETURNING ino, with link count n.
InsertInode_Unbounded(k, n) ==
    /\ kind' = [kind EXCEPT ![NewIno] = k]
    /\ nlink' = [nlink EXCEPT ![NewIno] = n]
    /\ next' = NewIno + 1

InsertInode(k, n) ==
    /\ NewIno <= MaxIno
    /\ kind' = [kind EXCEPT ![NewIno] = k]
    /\ nlink' = [nlink EXCEPT ![NewIno] = n]
    /\ next' = NewIno + 1

\* The check every creating operation makes, then its first statement: an
\* inode whose nlink column has its default, 0.
BeginCreate(fn, at, k, s) ==
    /\ Idle
    /\ dentry[s] = None
    /\ InsertInode(k, 0)
    /\ op' = [fn |-> fn, at |-> at, ino |-> NewIno, slot |-> s]
    /\ UNCHANGED <<dentry, symlinks, data, open, faults, torn>>

(***************************************************************************)
(* DentryCache, an LRU map: an insertion into a full cache evicts an       *)
(* entry.  Which one depends on the order of use, which is left open.      *)
(***************************************************************************)
Cached(c) == {x \in Slots : c[x] # None}

CacheInsert(c, s, i) ==
    IF s \in Cached(c) \/ Cardinality(Cached(c)) < CacheSize
    THEN {[c EXCEPT ![s] = i]}
    ELSE {[c EXCEPT ![s] = i, ![v] = None] : v \in Cached(c)}

CacheRemove_Forgotten(c, s) == c
CacheRemove(c, s) == [c EXCEPT ![s] = None]

\* A handle on i is returned to the caller.
HoldHandle(i) == IF Cardinality(open) < MaxOpen THEN open \cup {i} ELSE open

Finish(i, s) ==
    /\ cache' \in CacheInsert(cache, s, i)
    /\ op' = IdleOp

\* INSERT INTO fs_dentry by mkdir, mknod and symlink.
DentryStatement ==
    /\ op.at = "dentry"
    /\ dentry' = [dentry EXCEPT ![op.slot] = op.ino]
    /\ op' = [op EXCEPT !.at = "nlink"]
    /\ UNCHANGED <<kind, nlink, symlinks, data, next, cache, open, faults, torn>>

(***************************************************************************)
(* lookup fills the cache; a miss changes nothing.                         *)
(***************************************************************************)
Lookup(s) ==
    /\ Idle
    /\ IF dentry[s] # None /\ Exists(dentry[s])
       THEN cache' \in CacheInsert(cache, s, dentry[s])
       ELSE UNCHANGED cache
    /\ UNCHANGED <<db, open, op, faults, torn>>

(***************************************************************************)
(* mkdir: inode, dentry, nlink = 2, nlink of the parent + 1.               *)
(***************************************************************************)
Mkdir(s) == CallerDir(s[1]) /\ BeginCreate("mkdir", "dentry", "dir", s) /\ UNCHANGED cache

MkdirNlink ==
    /\ op.fn = "mkdir" /\ op.at = "nlink"
    /\ nlink' = [nlink EXCEPT ![op.ino] = 2]
    /\ op' = [op EXCEPT !.at = "parent"]
    /\ UNCHANGED <<kind, dentry, symlinks, data, next, cache, open, faults, torn>>

MkdirParent ==
    /\ op.fn = "mkdir" /\ op.at = "parent"
    /\ nlink' = AddLinks(nlink, op.slot[1], 1)
    /\ Finish(op.ino, op.slot)
    /\ UNCHANGED <<kind, dentry, symlinks, data, next, open, faults, torn>>

(***************************************************************************)
(* mknod: inode, dentry, nlink + 1; symlink stores its target before the   *)
(* dentry; link is the last two statements on an inode that exists.        *)
(***************************************************************************)
Mknod(s) == CallerDir(s[1]) /\ BeginCreate("mknod", "dentry", "file", s) /\ UNCHANGED cache

Symlink(s) ==
    CallerDir(s[1]) /\ BeginCreate("symlink", "target", "symlink", s) /\ UNCHANGED cache

SymlinkTarget ==
    /\ op.fn = "symlink" /\ op.at = "target"
    /\ symlinks' = symlinks \cup {op.ino}
    /\ op' = [op EXCEPT !.at = "dentry"]
    /\ UNCHANGED <<kind, nlink, dentry, data, next, cache, open, faults, torn>>

BeginLink(i, s) ==
    /\ Idle
    /\ Linkable(i)
    /\ dentry[s] = None
    /\ dentry' = [dentry EXCEPT ![s] = i]
    /\ op' = [fn |-> "link", at |-> "nlink", ino |-> i, slot |-> s]
    /\ UNCHANGED <<kind, nlink, symlinks, data, next, open, faults, torn>>

Link(i, s) == CallerDir(s[1]) /\ BeginLink(i, s) /\ UNCHANGED cache

\* The statement that stamps the parent follows; if it fails nothing is cached.
NodeNlink ==
    /\ op.fn \in {"mknod", "symlink", "link"} /\ op.at = "nlink"
    /\ nlink' = AddLinks(nlink, op.ino, 1)
    /\ Finish(op.ino, op.slot) \/ (op' = IdleOp /\ UNCHANGED cache)
    /\ UNCHANGED <<kind, dentry, symlinks, data, next, open, faults, torn>>

(***************************************************************************)
(* create_file: one transaction, and it returns an open handle.            *)
(***************************************************************************)
InsertFile(s) ==
    /\ Idle
    /\ dentry[s] = None
    /\ InsertInode("file", 1)
    /\ dentry' = [dentry EXCEPT ![s] = NewIno]
    /\ UNCHANGED <<symlinks, op, faults, torn>>

CreateFile(s) ==
    /\ CallerDir(s[1])
    /\ InsertFile(s)
    /\ cache' \in CacheInsert(cache, s, NewIno)
    /\ open' = HoldHandle(NewIno)
    /\ UNCHANGED data

(***************************************************************************)
(* unlink: dentry, nlink - 1 and, at zero, data, symlink and inode rows.   *)
(***************************************************************************)
BeginRemove(fn, i, s) ==
    /\ Idle
    /\ dentry' = [dentry EXCEPT ![s] = None]
    /\ op' = [fn |-> fn, at |-> "nlink", ino |-> i, slot |-> s]
    /\ UNCHANGED <<kind, nlink, symlinks, data, next, open, faults, torn>>

Unlink(s) ==
    /\ dentry[s] # None
    /\ kind[dentry[s]] # "dir"
    /\ BeginRemove("unlink", dentry[s], s)
    /\ cache' = CacheRemove(cache, s)

UnlinkNlink ==
    /\ op.fn = "unlink" /\ op.at = "nlink"
    /\ nlink' = AddLinks(nlink, op.ino, -1)
    /\ op' = IF LinkCount(nlink', op.ino) = 0 THEN [op EXCEPT !.at = "data"] ELSE IdleOp
    /\ UNCHANGED <<kind, dentry, symlinks, data, next, cache, open, faults, torn>>

UnlinkData ==
    /\ op.at = "data"
    /\ data' = data \ {op.ino}
    /\ op' = [op EXCEPT !.at = "symlink"]
    /\ UNCHANGED <<kind, nlink, dentry, symlinks, next, cache, open, faults, torn>>

UnlinkSymlink ==
    /\ op.at = "symlink"
    /\ symlinks' = symlinks \ {op.ino}
    /\ op' = [op EXCEPT !.at = "inode"]
    /\ UNCHANGED <<kind, nlink, dentry, data, next, cache, open, faults, torn>>

DeleteInode ==
    /\ op.at = "inode"
    /\ kind' = [kind EXCEPT ![op.ino] = "none"]
    /\ nlink' = [nlink EXCEPT ![op.ino] = 0]
    /\ op' = IdleOp
    /\ UNCHANGED <<dentry, symlinks, data, next, cache, open, faults, torn>>

(***************************************************************************)
(* rmdir: dentry, nlink - 1, nlink of the parent - 1 and, at zero, the     *)
(* inode row.  "removedir" is the path API's remove of what stat says is a *)
(* directory (module AgentFSPaths): it clears data and symlink rows too.   *)
(***************************************************************************)
Rmdir(s) ==
    LET i == dentry[s] IN
    /\ i \notin {None, ROOT_INO}
    /\ kind[i] = "dir"
    /\ IsEmpty(i)
    /\ BeginRemove("rmdir", i, s)
    /\ cache' = CacheRemove(cache, s)

RmdirNlink ==
    /\ op.fn \in {"rmdir", "removedir"} /\ op.at = "nlink"
    /\ nlink' = AddLinks(nlink, op.ino, -1)
    /\ op' = [op EXCEPT !.at = "parent"]
    /\ UNCHANGED <<kind, dentry, symlinks, data, next, cache, open, faults, torn>>

RmdirParent ==
    /\ op.fn \in {"rmdir", "removedir"} /\ op.at = "parent"
    /\ nlink' = AddLinks(nlink, op.slot[1], -1)
    /\ op' = IF LinkCount(nlink', op.ino) # 0 THEN IdleOp
             ELSE [op EXCEPT !.at = IF op.fn = "rmdir" THEN "inode" ELSE "data"]
    /\ UNCHANGED <<kind, dentry, symlinks, data, next, cache, open, faults, torn>>

(***************************************************************************)
(* rename: one transaction.  The entry at t, if any, is unlinked first;    *)
(* then UPDATE fs_dentry moves the row at s, if it is still there: when s  *)
(* and t are the same slot it is not.  The cache is updated after commit.  *)
(***************************************************************************)
Replaceable(isDir, j, jIsDir) == isDir = jIsDir /\ (jIsDir => IsEmpty(j))

MoveEntry(d, s, t) == IF d[s] = None THEN d ELSE [d EXCEPT ![s] = None, ![t] = d[s]]

\* The ".." link of a directory that changes its parent.
MoveParentLink(f, isDir, s, t) ==
    IF isDir /\ s[1] # t[1] THEN AddLinks(AddLinks(f, s[1], -1), t[1], 1) ELSE f

\* The link that the entry replaced by a rename loses.
DropReplaced_Forgotten(j) == nlink
DropReplaced(j) == IF j = None THEN nlink ELSE AddLinks(nlink, j, -1)

\* The transaction: j (None if nothing) is replaced, isDir is what the caller
\* found out about the source.
RenameTxn(s, t, j, isDir) ==
    LET unlinked == DropReplaced(j)
        dropped == IF j # None /\ LinkCount(unlinked, j) = 0 THEN {j} ELSE {}
        moved == MoveParentLink(unlinked, isDir, s, t)
    IN  /\ Idle
        /\ dentry' = MoveEntry(IF j = None THEN dentry ELSE [dentry EXCEPT ![t] = None], s, t)
        /\ kind' = [x \in Ino |-> IF x \in dropped THEN "none" ELSE kind[x]]
        /\ nlink' = [x \in Ino |-> IF x \in dropped THEN 0 ELSE moved[x]]
        /\ data' = data \ dropped
        /\ symlinks' = symlinks \ dropped
        /\ UNCHANGED <<next, open, op, faults, torn>>

\* After the commit: both slots are invalidated, then the new one is cached.
CacheAfterRename(c, s, t, i) ==
    CacheInsert([c EXCEPT ![s] = None, ![t] = None], t, i)

Rename(s, t) ==
    LET i == dentry[s]
        j == dentry[t]
    IN  /\ i \notin {None, ROOT_INO}
        /\ Exists(i)
        /\ CallerDir(s[1]) /\ CallerDir(t[1])
        /\ j # None => Exists(j) /\ Replaceable(kind[i] = "dir", j, kind[j] = "dir")
        /\ CallerRename(s, t)
        /\ RenameTxn(s, t, j, kind[i] = "dir")
        /\ cache' \in CacheAfterRename(cache, s, t, i)

(***************************************************************************)
(* Handles: open, write (pwrite and truncate in one transaction) and drop. *)
(* A write does not look whether the inode still has a row.                *)
(***************************************************************************)
Open(i) ==
    /\ Idle
    /\ Exists(i)
    /\ Guarded => kind[i] = "file"
    /\ open' = HoldHandle(i)
    /\ UNCHANGED <<db, cache, op, faults, torn>>

Pwrite(i) ==
    /\ Idle
    /\ i \in open
    /\ data' = data \cup {i}
    /\ UNCHANGED <<kind, nlink, dentry, symlinks, next, cache, open, op, faults, torn>>

\* A truncation that leaves rows, or finds none, is no step here.
TruncateToZero(i) ==
    /\ Idle
    /\ i \in open
    /\ data' = data \ {i}
    /\ UNCHANGED <<kind, nlink, dentry, symlinks, next, cache, open, op, faults, torn>>

Close(i) ==
    /\ i \in open
    /\ open' = open \ {i}
    /\ UNCHANGED <<db, cache, op, faults, torn>>

(***************************************************************************)
(* Faults.  A statement that fails makes the operation return its error;   *)
(* a crash also loses the cache and the handles.  Nothing is rolled back,  *)
(* and nothing is repaired when the database is opened again:              *)
(* initialize_schema creates the tables and the root only if missing.      *)
(***************************************************************************)
CutShort ==
    /\ ~Idle /\ faults < MaxFaults
    /\ faults' = faults + 1
    /\ torn' = torn \cup {IF op.fn \in Additions THEN "addition" ELSE "removal"}
    /\ op' = IdleOp

StatementFails ==
    /\ CutShort
    /\ UNCHANGED <<db, cache, open>>

CrashAndReopen ==
    /\ CutShort \/ (Idle /\ UNCHANGED <<op, faults, torn>>)
    /\ cache' = [s \in Slots |-> None]
    /\ open' = {}
    /\ UNCHANGED db

Begin(s) ==
    \/ Lookup(s)
    \/ Mkdir(s) \/ Mknod(s) \/ Symlink(s) \/ CreateFile(s)
    \/ Unlink(s) \/ Rmdir(s)
    \/ \E i \in Ino : Link(i, s)
    \/ \E t \in Slots : Rename(s, t)

Handle(i) == Open(i) \/ Pwrite(i) \/ TruncateToZero(i) \/ Close(i)

Continue ==
    \/ DentryStatement \/ MkdirNlink \/ MkdirParent
    \/ SymlinkTarget \/ NodeNlink
    \/ UnlinkNlink \/ UnlinkData \/ UnlinkSymlink \/ DeleteInode
    \/ RmdirNlink \/ RmdirParent

Next ==
    \/ \E s \in Slots : Begin(s)
    \/ \E i \in Ino : Handle(i)
    \/ Continue
    \/ StatementFails
    \/ CrashAndReopen

Spec == Init /\ [][Next]_vars

-----------------------------------------------------------------------------
(***************************************************************************)
(* Safety.                                                                 *)
(***************************************************************************)

\* The root inode always has its row and is a directory that no entry names,
\* whatever callers do and whichever statements were lost: so neither unlink,
\* rmdir nor a rename over it can ever reach its row (SPEC.md rule 1).
RootProtected == kind[ROOT_INO] = "dir" /\ Refs(ROOT_INO) = {}

\* No directory has two names, for every caller and across faults: lookup of
\* ".." takes any row with that ino (LIMIT 1) and rmdir's link arithmetic
\* assumes one name.
DirNamedOnce ==
    \A s \in Slots : dentry[s] # None /\ kind[dentry[s]] = "dir" =>
        \A t \in Slots : dentry[t] = dentry[s] => t = s

\* Every entry names an inode that has a row (SPEC.md rule 2), also in the
\* middle of an operation, unless an operation that adds a name before it
\* counts the link was cut short.
EntriesResolve ==
    "addition" \notin torn =>
        \A s \in Slots : dentry[s] # None => Exists(dentry[s])

\* For a guarded caller, across faults, every entry is in a directory that can be
\* reached from the root: no rmdir, rename or crash ever cuts a subtree off
\* (SPEC.md rule 3).
TreeConnected ==
    /\ \A s \in Slots : dentry[s] # None => kind[s[1]] = "dir"
    /\ \A S \in SUBSET Ino : ROOT_INO \in S /\ Closed(S) =>
           \A s \in Slots : dentry[s] # None => s[1] \in S

\* For a guarded caller, across faults, the dentry cache never contradicts
\* fs_dentry: path resolution trusts it without looking at the table.
CacheCoherent == \A s \in Slots : cache[s] # None => cache[s] = dentry[s]

FileLinksExact ==
    \A i \in Ino : Exists(i) /\ kind[i] # "dir" =>
        Refs(i) # {} /\ nlink[i] = Cardinality(Refs(i))

DirLinksCover ==
    \A i \in Ino : kind[i] = "dir" /\ (i = ROOT_INO \/ Refs(i) # {}) =>
        nlink[i] >= 2 + Cardinality(Subdirs(i))

\* Between operations that all ran to their end, the link count of everything
\* but directories is the number of its names and an inode without a name has
\* no row left, so unlink's "last link" test neither fires early nor never; and a
\* directory with a name counts at least its own two links and one for the ".." of
\* each subdirectory, so no rmdir below it can take its own links away.
LinksRight == Idle /\ torn = {} => FileLinksExact /\ DirLinksCover

\* A handle that outlives its file never comes to refer to another file: the
\* number of a deleted inode is not used again while a handle holds it.
HandleNeverRetargeted ==
    [][\A i \in open : ~Exists(i) => kind'[i] = "none"]_vars

\* SPEC.md:457, "Every dentry MUST reference a valid inode", with faults.
DentriesReferenceInodes == \A s \in Slots : dentry[s] # None => Exists(dentry[s])
=============================================================================
