---------------------------- MODULE AgentFSProofs ----------------------------
(***************************************************************************)
(* Proofs about the inode store, for any number of names and inodes, any   *)
(* cache size and any number of faults.                                    *)
(***************************************************************************)
EXTENDS AgentFS, FiniteSetTheorems, TLAPS

(***************************************************************************)
(* Lemmas about the operators the actions are built from.                  *)
(***************************************************************************)

CacheType == [Slots -> Ino \cup {None}]

\* What an insertion leaves in the cache: the new entry and, of the others, at
\* most what was there before (DentryCache::insert evicts, never changes).
LEMMA CacheInsertEntries ==
    ASSUME NEW c \in CacheType, NEW s, NEW i \in Ino \cup {None},
           NEW d \in CacheInsert(c, s, i)
    PROVE  /\ d \in CacheType
           /\ \A x \in Slots : d[x] = None \/ d[x] = c[x] \/ (x = s /\ d[x] = i)
PROOF BY DEF CacheInsert, CacheType, Cached, None

\* An assignment to a key outside the table changes nothing, so it needs no case.
LEMMA UpdateType ==
    ASSUME NEW S, NEW T, NEW f \in [S -> T], NEW x, NEW v \in T
    PROVE  [f EXCEPT ![x] = v] \in [S -> T]
PROOF
  <1>1. CASE x \in S
    BY <1>1
  <1>2. CASE x \notin S
    BY <1>2
  <1> QED BY <1>1, <1>2

\* AddLinks keeps a link-count column a link-count column.
LEMMA AddLinksType ==
    ASSUME NEW f \in [Ino -> Int], NEW i, NEW k \in Int
    PROVE  AddLinks(f, i, k) \in [Ino -> Int]
PROOF
  <1>1. CASE i \in Ino
    BY <1>1 DEF AddLinks
  <1>2. CASE i \notin Ino
    BY <1>2 DEF AddLinks
  <1> QED BY <1>1, <1>2

(***************************************************************************)
(* Type correctness.                                                       *)
(***************************************************************************)

\* The statements of an operation in progress have an inode and a slot to work
\* on: without this TypeOK is not inductive, symlink would store a target for
\* "no inode".
OpInFlight == ~Idle => op.ino \in Ino /\ op.slot \in Slots

TypeInv == TypeOK /\ OpInFlight

\* The empty database that initialize_schema leaves is well typed.
LEMMA TypeInit == Init => TypeInv
PROOF BY ConstantsAssumption DEF Init, TypeInv, TypeOK, OpInFlight, Idle, Ino, Slots, None,
          ROOT_INO, IdleOp, Kinds, Additions, Removals, Statements

\* INSERT INTO fs_inode keeps the inode table and the AUTOINCREMENT counter
\* within their types.
LEMMA InsertInodeType ==
    ASSUME TypeOK, NEW k \in Kinds, NEW n \in Int, InsertInode(k, n)
    PROVE  /\ kind' \in [Ino -> Kinds \cup {"none"}]
           /\ nlink' \in [Ino -> Int]
           /\ next' \in 2 .. MaxIno + 1
           /\ NewIno \in Ino
PROOF BY ConstantsAssumption DEF TypeOK, InsertInode, NewIno, Ino

\* Every statement of every operation keeps the tables, the cache and the handles
\* within their types.
LEMMA TypeStep == TypeInv /\ [Next]_vars => TypeOK'
PROOF
  <1> SUFFICES ASSUME TypeOK, OpInFlight, [Next]_vars PROVE TypeOK'
    BY DEF TypeInv
  <1> USE ConstantsAssumption
  <1>0. IdleOp \in [fn : Additions \cup Removals \cup {"none"}, at : Statements,
                    ino : Ino \cup {None}, slot : Slots \cup {NoSlot}]
    BY DEF IdleOp, Statements
  <1>a. ASSUME NEW s \in Slots, NEW fn \in Additions, NEW at \in Statements, NEW k \in Kinds,
               BeginCreate(fn, at, k, s), cache' \in CacheType
        PROVE  TypeOK'
    BY <1>a, InsertInodeType DEF TypeOK, BeginCreate, CacheType
  <1>b. ASSUME NEW s \in Slots, NEW i \in Ino, NEW fn \in Removals,
               BeginRemove(fn, i, s), cache' = CacheRemove(cache, s)
        PROVE  TypeOK'
    BY <1>b DEF TypeOK, BeginRemove, CacheRemove, Statements
  <1>1. ASSUME NEW s \in Slots, Lookup(s) PROVE TypeOK'
    BY <1>1, CacheInsertEntries DEF TypeOK, Lookup, db, CacheType
  <1>2. ASSUME NEW s \in Slots, Mkdir(s) PROVE TypeOK'
    BY <1>2, <1>a DEF TypeOK, Mkdir, CacheType, Additions, Statements, Kinds
  <1>3. ASSUME NEW s \in Slots, Mknod(s) PROVE TypeOK'
    BY <1>3, <1>a DEF TypeOK, Mknod, CacheType, Additions, Statements, Kinds
  <1>4. ASSUME NEW s \in Slots, Symlink(s) PROVE TypeOK'
    BY <1>4, <1>a DEF TypeOK, Symlink, CacheType, Additions, Statements, Kinds
  <1>5. ASSUME NEW s \in Slots, CreateFile(s) PROVE TypeOK'
    <2>1. /\ kind' \in [Ino -> Kinds \cup {"none"}]
          /\ nlink' \in [Ino -> Int]
          /\ next' \in 2 .. MaxIno + 1
          /\ NewIno \in Ino
      BY <1>5, InsertInodeType DEF CreateFile, InsertFile, Kinds
    <2>2. cache' \in CacheType
      BY <1>5, <2>1, CacheInsertEntries DEF CreateFile, TypeOK, CacheType
    <2>3. open' \in SUBSET Ino
      BY <1>5, <2>1 DEF TypeOK, CreateFile, HoldHandle
    <2>4. dentry' \in [Slots -> Ino \cup {None}]
      BY <1>5, <2>1 DEF TypeOK, CreateFile, InsertFile
    <2> QED BY <1>5, <2>1, <2>2, <2>3, <2>4 DEF TypeOK, CreateFile, InsertFile, CacheType
  <1>6. ASSUME NEW s \in Slots, Unlink(s) PROVE TypeOK'
    <2>1. dentry[s] \in Ino
      BY <1>6 DEF Unlink, TypeOK
    <2> QED BY <1>6, <1>b, <2>1 DEF Unlink, Removals
  <1>7. ASSUME NEW s \in Slots, Rmdir(s) PROVE TypeOK'
    <2>1. dentry[s] \in Ino
      BY <1>7 DEF Rmdir, TypeOK
    <2> QED BY <1>7, <1>b, <2>1 DEF Rmdir, Removals
  <1>8. ASSUME NEW s \in Slots, NEW i \in Ino, Link(i, s) PROVE TypeOK'
    BY <1>8 DEF TypeOK, Link, BeginLink, Additions, Statements
  <1>9. ASSUME NEW s \in Slots, NEW t \in Slots, Rename(s, t) PROVE TypeOK'
    <2>1. dentry[s] \in Ino /\ dentry[t] \in Ino \cup {None}
      BY <1>9 DEF Rename, TypeOK
    <2>2. cache' \in CacheType
      <3>1. [cache EXCEPT ![s] = None, ![t] = None] \in CacheType
        BY DEF TypeOK, CacheType
      <3> QED BY <1>9, <2>1, <3>1, CacheInsertEntries DEF Rename, CacheAfterRename
    <2>3. nlink' \in [Ino -> Int]
      <3>1. DropReplaced(dentry[t]) \in [Ino -> Int]
        BY AddLinksType DEF DropReplaced, TypeOK
      <3>2. MoveParentLink(DropReplaced(dentry[t]), kind[dentry[s]] = "dir", s, t) \in [Ino -> Int]
        <4>1. AddLinks(DropReplaced(dentry[t]), s[1], -1) \in [Ino -> Int]
          BY <3>1, AddLinksType
        <4> QED BY <3>1, <4>1, AddLinksType DEF MoveParentLink
      <3> QED BY <1>9, <3>2 DEF Rename, RenameTxn
    <2>4. dentry' \in [Slots -> Ino \cup {None}]
      BY <1>9 DEF TypeOK, Rename, RenameTxn, MoveEntry
    <2>5. kind' \in [Ino -> Kinds \cup {"none"}] /\ data' \in SUBSET Ino /\ symlinks' \in SUBSET Ino
      BY <1>9 DEF TypeOK, Rename, RenameTxn
    <2> QED BY <1>9, <2>2, <2>3, <2>4, <2>5 DEF TypeOK, Rename, RenameTxn, CacheType
  <1>10. ASSUME NEW i \in Ino, Handle(i) PROVE TypeOK'
    <2>1. CASE Open(i)
      BY <2>1 DEF TypeOK, Open, HoldHandle, db
    <2>2. CASE Pwrite(i)
      BY <2>2 DEF TypeOK, Pwrite
    <2>3. CASE TruncateToZero(i)
      BY <2>3 DEF TypeOK, TruncateToZero
    <2>4. CASE Close(i)
      BY <2>4 DEF TypeOK, Close, db
    <2> QED BY <1>10, <2>1, <2>2, <2>3, <2>4 DEF Handle
  <1>11. CASE Continue
    <2>f. ASSUME Finish(op.ino, op.slot) PROVE cache' \in CacheType /\ op' = IdleOp
      BY <2>f, CacheInsertEntries DEF Finish, TypeOK, CacheType
    <2>1. CASE DentryStatement
      BY <2>1 DEF TypeOK, DentryStatement, Statements
    <2>2. CASE MkdirNlink
      <3>1. nlink' \in [Ino -> Int]
        BY <2>2, UpdateType DEF TypeOK, MkdirNlink
      <3> QED BY <2>2, <3>1 DEF TypeOK, MkdirNlink, Statements
    <2>3. CASE MkdirParent
      <3>1. nlink' \in [Ino -> Int]
        BY <2>3, AddLinksType DEF MkdirParent, TypeOK
      <3> QED BY <1>0, <2>3, <2>f, <3>1 DEF TypeOK, MkdirParent, CacheType
    <2>4. CASE SymlinkTarget
      <3>1. op.ino \in Ino
        BY <2>4 DEF OpInFlight, Idle, SymlinkTarget
      <3> QED BY <2>4, <3>1 DEF TypeOK, SymlinkTarget, Statements
    <2>5. CASE NodeNlink
      <3>1. nlink' \in [Ino -> Int]
        BY <2>5, AddLinksType DEF NodeNlink, TypeOK
      <3> QED BY <1>0, <2>5, <2>f, <3>1 DEF TypeOK, NodeNlink, CacheType
    <2>6. CASE UnlinkNlink
      <3>1. nlink' \in [Ino -> Int]
        BY <2>6, AddLinksType DEF UnlinkNlink, TypeOK
      <3> QED BY <1>0, <2>6, <3>1 DEF TypeOK, UnlinkNlink, Statements
    <2>7. CASE UnlinkData
      BY <2>7 DEF TypeOK, UnlinkData, Statements
    <2>8. CASE UnlinkSymlink
      BY <2>8 DEF TypeOK, UnlinkSymlink, Statements
    <2>9. CASE DeleteInode
      <3>1. kind' \in [Ino -> Kinds \cup {"none"}] /\ nlink' \in [Ino -> Int]
        BY <2>9, UpdateType DEF TypeOK, DeleteInode
      <3> QED BY <1>0, <2>9, <3>1 DEF TypeOK, DeleteInode
    <2>10. CASE RmdirNlink
      <3>1. nlink' \in [Ino -> Int]
        BY <2>10, AddLinksType DEF RmdirNlink, TypeOK
      <3> QED BY <2>10, <3>1 DEF TypeOK, RmdirNlink, Statements
    <2>11. CASE RmdirParent
      <3>1. nlink' \in [Ino -> Int]
        BY <2>11, AddLinksType DEF RmdirParent, TypeOK
      <3> QED BY <1>0, <2>11, <3>1 DEF TypeOK, RmdirParent, Statements
    <2> QED BY <1>11, <2>1, <2>2, <2>3, <2>4, <2>5, <2>6, <2>7, <2>8, <2>9, <2>10, <2>11
            DEF Continue
  <1>12. CASE StatementFails \/ CrashAndReopen
    <2>1. CutShort => /\ op' \in [fn : Additions \cup Removals \cup {"none"}, at : Statements,
                                  ino : Ino \cup {None}, slot : Slots \cup {NoSlot}]
                      /\ faults' \in 0 .. MaxFaults
                      /\ torn' \in SUBSET {"addition", "removal"}
      BY <1>0 DEF TypeOK, CutShort
    <2>2. CASE StatementFails
      BY <2>1, <2>2 DEF TypeOK, StatementFails, db
    <2>3. CASE CrashAndReopen
      <3>1. cache' \in CacheType
        BY <2>3 DEF CrashAndReopen, CacheType
      <3>2. CASE CutShort
        BY <2>1, <2>3, <3>1, <3>2 DEF TypeOK, CrashAndReopen, CacheType, db
      <3>3. CASE UNCHANGED <<op, faults, torn>>
        BY <2>3, <3>1, <3>3 DEF TypeOK, CrashAndReopen, CacheType, db
      <3> QED BY <2>3, <3>2, <3>3 DEF CrashAndReopen
    <2> QED BY <1>12, <2>2, <2>3
  <1>13. CASE UNCHANGED vars
    BY <1>13 DEF TypeOK, vars
  <1> QED BY <1>1, <1>2, <1>3, <1>4, <1>5, <1>6, <1>7, <1>8, <1>9, <1>10, <1>11, <1>12, <1>13
          DEF Next, Begin

\* An operation in progress always knows the inode and the slot it works on.
LEMMA OpInFlightStep == TypeInv /\ [Next]_vars => OpInFlight'
PROOF
  <1> SUFFICES ASSUME TypeOK, OpInFlight, [Next]_vars PROVE OpInFlight'
    BY DEF TypeInv
  <1> USE ConstantsAssumption DEF OpInFlight, Idle
  <1>1. ASSUME NEW s \in Slots, Begin(s) PROVE OpInFlight'
    <2>a. ASSUME NEW fn, NEW at, NEW k \in Kinds, BeginCreate(fn, at, k, s) PROVE OpInFlight'
      BY <2>a, InsertInodeType DEF BeginCreate
    <2>1. CASE Lookup(s)
      BY <1>1, <2>1 DEF Lookup
    <2>2. CASE Mkdir(s) \/ Mknod(s) \/ Symlink(s)
      BY <2>2, <2>a DEF Mkdir, Mknod, Symlink, Kinds
    <2>3. CASE CreateFile(s)
      BY <2>3 DEF CreateFile, InsertFile
    <2>4. CASE Unlink(s) \/ Rmdir(s)
      BY <2>4 DEF Unlink, Rmdir, BeginRemove, TypeOK
    <2>5. CASE \E i \in Ino : Link(i, s)
      BY <2>5 DEF Link, BeginLink
    <2>6. CASE \E t \in Slots : Rename(s, t)
      BY <2>6 DEF Rename, RenameTxn
    <2> QED BY <1>1, <2>1, <2>2, <2>3, <2>4, <2>5, <2>6 DEF Begin
  <1>2. ASSUME NEW i \in Ino, Handle(i) PROVE OpInFlight'
    BY <1>2 DEF Handle, Open, Pwrite, TruncateToZero, Close
  <1>3. CASE Continue
    <2>1. op'.at # "idle" => op.at # "idle" /\ op'.ino = op.ino /\ op'.slot = op.slot
      BY <1>3 DEF TypeOK, Continue, DentryStatement, MkdirNlink, MkdirParent, SymlinkTarget,
         NodeNlink, UnlinkNlink, UnlinkData, UnlinkSymlink, DeleteInode, RmdirNlink,
         RmdirParent, Finish, IdleOp
    <2> QED BY <2>1
  <1>4. CASE StatementFails \/ CrashAndReopen
    BY <1>4 DEF StatementFails, CrashAndReopen, CutShort, IdleOp
  <1>5. CASE UNCHANGED vars
    BY <1>5 DEF vars
  <1> QED BY <1>1, <1>2, <1>3, <1>4, <1>5 DEF Next

\* Type correctness of the store, for every value of the constants: in
\* particular the number handed to a new inode always fits the table.
THEOREM TypeCorrect == Spec => []TypeOK
PROOF
  <1>1. TypeInv /\ [Next]_vars => TypeInv'
    BY TypeStep, OpInFlightStep DEF TypeInv
  <1> QED BY TypeInit, <1>1, PTL DEF Spec, TypeInv

(***************************************************************************)
(* The root is protected and directories have one name.                    *)
(*                                                                         *)
(* Neither is inductive.  A new directory is safe only because nothing     *)
(* names its number before its INSERT INTO fs_dentry (FreshUnused, and     *)
(* OpNames between the two statements), and the inode that a removal may   *)
(* delete at its end is not the root because no entry names the root.      *)
(***************************************************************************)
FreshUnused ==
    /\ \A s \in Slots : dentry[s] < next
    /\ \A i \in Ino : kind[i] # "none" => i < next

OpNames ==
    /\ ~Idle => op.ino # ROOT_INO /\ op.ino < next
    /\ op.at \in {"target", "dentry"} => Refs(op.ino) = {}

NamesInv == RootProtected /\ DirNamedOnce /\ FreshUnused /\ OpNames

\* A fresh database has no names, so all that is said of names holds.
LEMMA NamesInit == Init => NamesInv
PROOF BY ConstantsAssumption DEF Init, NamesInv, RootProtected, DirNamedOnce, FreshUnused,
          OpNames, Refs, Idle, IdleOp, Ino, None, ROOT_INO

\* Inserting an inode of any kind under the fresh number disturbs no entry.
LEMMA InsertInodeNames ==
    ASSUME TypeOK, NamesInv, NEW k \in Kinds, NEW n \in Int, InsertInode(k, n)
    PROVE  /\ NewIno \in Ino /\ NewIno # ROOT_INO /\ NewIno < next' /\ next < next'
           /\ kind'[ROOT_INO] = "dir"
           /\ Refs(NewIno) = {}
           /\ \A s \in Slots : dentry[s] # None => kind'[dentry[s]] = kind[dentry[s]]
           /\ \A s \in Slots : dentry[s] < next'
           /\ \A i \in Ino : kind'[i] # "none" => i < next'
PROOF
  <1>1. NewIno \in Ino /\ NewIno # ROOT_INO /\ NewIno < next' /\ next < next'
    BY ConstantsAssumption DEF TypeOK, InsertInode, NewIno, Ino, ROOT_INO
  <1>2. \A s \in Slots : dentry[s] # NewIno
    BY DEF TypeOK, NamesInv, FreshUnused, NewIno, Ino, None
  <1>3. kind'[ROOT_INO] = "dir"
    BY <1>1, ConstantsAssumption DEF TypeOK, InsertInode, NamesInv, RootProtected, Ino, ROOT_INO
  <1>4. \A s \in Slots : dentry[s] # None => kind'[dentry[s]] = kind[dentry[s]]
    BY <1>1, <1>2 DEF TypeOK, InsertInode
  <1>5. \A s \in Slots : dentry[s] < next'
    <2>1. next \in Int /\ next' = next + 1 /\ \A s \in Slots : dentry[s] \in Int
      BY DEF TypeOK, InsertInode, NewIno, Ino, None
    <2>2. \A s \in Slots : dentry[s] < next
      BY DEF NamesInv, FreshUnused
    <2> QED BY <2>1, <2>2
  <1>6. \A i \in Ino : kind'[i] # "none" => i < next'
    <2>1. next \in Int /\ next' = next + 1 /\ Ino \subseteq Int
      BY DEF TypeOK, InsertInode, NewIno, Ino
    <2>2. \A i \in Ino : i # next => kind'[i] = kind[i]
      BY DEF TypeOK, InsertInode, NewIno
    <2> QED BY <2>1, <2>2 DEF NamesInv, FreshUnused
  <1> QED BY <1>1, <1>2, <1>3, <1>4, <1>5, <1>6 DEF Refs

\* Entries that only disappear, with inode rows that stay or disappear (and the
\* root's row stays), keep everything that is said about names.
LEMMA FewerNames ==
    ASSUME TypeOK, NamesInv, TypeOK',
           \A s \in Slots : dentry'[s] \in {dentry[s], None},
           \A i \in Ino : kind'[i] \in {kind[i], "none"},
           kind'[ROOT_INO] = "dir",
           next' = next
    PROVE  RootProtected' /\ DirNamedOnce' /\ FreshUnused'
PROOF
  <1>1. RootProtected'
    BY DEF NamesInv, RootProtected, Refs, ROOT_INO, None
  <1>2. DirNamedOnce'
    BY DEF NamesInv, DirNamedOnce, TypeOK
  <1>3. FreshUnused'
    BY DEF NamesInv, FreshUnused, TypeOK, None
  <1> QED BY <1>1, <1>2, <1>3

\* No statement of any operation, whoever calls it, names the root, gives a
\* directory a second name or names a number not handed out yet.
LEMMA NamesStep == TypeInv /\ TypeOK' /\ NamesInv /\ [Next]_vars => NamesInv'
PROOF
  <1> SUFFICES ASSUME TypeOK, OpInFlight, TypeOK', NamesInv, [Next]_vars PROVE NamesInv'
    BY DEF TypeInv
  <1> USE ConstantsAssumption
  <1>r. ROOT_INO \in Ino /\ kind[ROOT_INO] = "dir" /\ \A s \in Slots : dentry[s] # ROOT_INO
    BY DEF NamesInv, RootProtected, Refs, ROOT_INO, Ino
  \* A step that leaves the names and the rows as they are.
  <1>u. ASSUME UNCHANGED <<kind, dentry, next>>,
               \/ op'.at = "idle"
               \/ UNCHANGED op
               \/ op.at # "idle" /\ op'.ino = op.ino
                  /\ (op'.at \in {"target", "dentry"} => op.at \in {"target", "dentry"})
        PROVE  NamesInv'
    <2>1. RootProtected' /\ DirNamedOnce' /\ FreshUnused'
      BY <1>u, <1>r, FewerNames
    <2>2. OpNames'
      BY <1>u DEF NamesInv, OpNames, Idle, Refs
    <2> QED BY <2>1, <2>2 DEF NamesInv
  \* The beginning of mkdir, mknod and symlink.
  <1>c. ASSUME NEW fn, NEW at, NEW k \in Kinds, NEW s \in Slots, BeginCreate(fn, at, k, s)
        PROVE  NamesInv'
    <2>1. InsertInode(k, 0) /\ UNCHANGED dentry
      BY <1>c DEF BeginCreate
    <2>2. RootProtected' /\ FreshUnused'
      BY <1>r, <2>1, InsertInodeNames DEF RootProtected, FreshUnused, Refs
    <2>3. DirNamedOnce'
      BY <2>1, InsertInodeNames DEF NamesInv, DirNamedOnce
    <2>4. OpNames'
      BY <1>c, <2>1, InsertInodeNames DEF OpNames, BeginCreate, Idle, Refs
    <2> QED BY <2>2, <2>3, <2>4 DEF NamesInv
  \* The beginning of unlink and rmdir.
  <1>d. ASSUME NEW fn, NEW s \in Slots, dentry[s] # None, BeginRemove(fn, dentry[s], s)
        PROVE  NamesInv'
    <2>1. RootProtected' /\ DirNamedOnce' /\ FreshUnused'
      BY <1>d, <1>r, FewerNames DEF BeginRemove, TypeOK
    <2>2. OpNames'
      BY <1>d, <1>r DEF BeginRemove, NamesInv, OpNames, FreshUnused, Idle
    <2> QED BY <2>1, <2>2 DEF NamesInv
  <1>1. ASSUME NEW s \in Slots, Begin(s) PROVE NamesInv'
    <2>1. CASE Lookup(s)
      BY <1>u, <2>1 DEF Lookup, db
    <2>2. CASE Mkdir(s) \/ Mknod(s) \/ Symlink(s)
      BY <1>c, <2>2 DEF Mkdir, Mknod, Symlink, Kinds
    <2>3. CASE CreateFile(s)
      <3>1. InsertInode("file", 1) /\ dentry' = [dentry EXCEPT ![s] = NewIno] /\ op' = op /\ Idle
        BY <2>3 DEF CreateFile, InsertFile
      <3>2. /\ NewIno \in Ino /\ NewIno # ROOT_INO /\ NewIno < next' /\ next < next'
            /\ kind'[ROOT_INO] = "dir"
            /\ \A x \in Slots : dentry[x] # NewIno
            /\ \A x \in Slots : dentry[x] # None => kind'[dentry[x]] = kind[dentry[x]]
            /\ \A x \in Slots : dentry[x] < next'
            /\ \A i \in Ino : kind'[i] # "none" => i < next'
        BY <3>1, InsertInodeNames DEF Kinds, Refs
      <3>3. RootProtected'
        BY <1>r, <3>1, <3>2 DEF RootProtected, Refs, TypeOK
      <3>4. kind'[NewIno] = "file"
        BY <3>1, <3>2 DEF InsertInode, TypeOK
      <3>5. DirNamedOnce'
        BY <3>1, <3>2, <3>4 DEF NamesInv, DirNamedOnce, TypeOK
      <3>6. FreshUnused'
        BY <3>1, <3>2 DEF FreshUnused, TypeOK
      <3>7. OpNames'
        BY <3>1 DEF OpNames, Idle
      <3> QED BY <3>3, <3>5, <3>6, <3>7 DEF NamesInv
    <2>4. CASE Unlink(s) \/ Rmdir(s)
      BY <1>d, <2>4 DEF Unlink, Rmdir
    <2>5. ASSUME NEW i \in Ino, Link(i, s) PROVE NamesInv'
      <3>1. /\ dentry' = [dentry EXCEPT ![s] = i]
            /\ kind[i] \notin {"none", "dir"}
            /\ UNCHANGED <<kind, next>>
            /\ op' = [fn |-> "link", at |-> "nlink", ino |-> i, slot |-> s]
        BY <2>5 DEF Link, BeginLink, Linkable
      <3>2. i < next /\ i # ROOT_INO
        BY <1>r, <3>1 DEF NamesInv, FreshUnused
      <3>3. RootProtected' /\ FreshUnused'
        BY <1>r, <3>1, <3>2 DEF NamesInv, RootProtected, FreshUnused, Refs, TypeOK
      <3>4. DirNamedOnce'
        BY <3>1 DEF NamesInv, DirNamedOnce, TypeOK
      <3>5. OpNames'
        BY <3>1, <3>2 DEF OpNames
      <3> QED BY <3>3, <3>4, <3>5 DEF NamesInv
    <2>6. ASSUME NEW t \in Slots, Rename(s, t) PROVE NamesInv'
      <3>1. /\ dentry[s] # None
            /\ kind' \in [Ino -> Kinds \cup {"none"}]
            /\ \A x \in Ino : kind'[x] # kind[x] => kind'[x] = "none" /\ x = dentry[t]
            /\ UNCHANGED <<next, op>> /\ Idle
        BY <2>6 DEF Rename, RenameTxn, TypeOK
      <3>2. \A x \in Slots : \/ dentry'[x] \in {dentry[x], None}
                             \/ x = t /\ dentry'[x] = dentry[s] /\ dentry'[s] = None /\ s # t
        BY <2>6 DEF Rename, RenameTxn, MoveEntry, TypeOK
      <3>3. RootProtected'
        BY <1>r, <3>1, <3>2 DEF RootProtected, Refs, None, ROOT_INO
      <3>4. FreshUnused'
        <4>1. \A x \in Slots : dentry'[x] < next'
          BY <3>1, <3>2 DEF NamesInv, FreshUnused, TypeOK, None
        <4>2. \A i \in Ino : kind'[i] # "none" => i < next'
          BY <3>1 DEF NamesInv, FreshUnused
        <4> QED BY <4>1, <4>2 DEF FreshUnused
      <3>5. DirNamedOnce'
        BY <3>1, <3>2 DEF NamesInv, DirNamedOnce, TypeOK
      <3>6. OpNames'
        BY <3>1 DEF OpNames, Idle
      <3> QED BY <3>3, <3>4, <3>5, <3>6 DEF NamesInv
    <2> QED BY <1>1, <2>1, <2>2, <2>3, <2>4, <2>5, <2>6 DEF Begin
  <1>2. ASSUME NEW i \in Ino, Handle(i) PROVE NamesInv'
    BY <1>u, <1>2 DEF Handle, Open, Pwrite, TruncateToZero, Close, db
  <1>3. CASE Continue
    <2>1. CASE DentryStatement
      <3>1. /\ op.ino \in Ino /\ op.ino # ROOT_INO /\ op.ino < next /\ op.slot \in Slots
            /\ \A x \in Slots : dentry[x] # op.ino
        BY <2>1 DEF DentryStatement, OpInFlight, NamesInv, OpNames, Idle, Refs
      <3>2. /\ dentry' = [dentry EXCEPT ![op.slot] = op.ino]
            /\ UNCHANGED <<kind, next>>
            /\ op'.at = "nlink" /\ op'.ino = op.ino
        BY <2>1 DEF DentryStatement, TypeOK
      <3>3. RootProtected' /\ FreshUnused'
        BY <1>r, <3>1, <3>2 DEF NamesInv, RootProtected, FreshUnused, Refs, TypeOK
      <3>4. DirNamedOnce'
        BY <3>1, <3>2 DEF NamesInv, DirNamedOnce, TypeOK
      <3>5. OpNames'
        BY <3>1, <3>2 DEF OpNames
      <3> QED BY <3>3, <3>4, <3>5 DEF NamesInv
    <2>2. CASE DeleteInode
      <3>1. op.ino # ROOT_INO
        BY <2>2 DEF DeleteInode, NamesInv, OpNames, Idle
      <3>2. RootProtected' /\ DirNamedOnce' /\ FreshUnused'
        BY <1>r, <2>2, <3>1, FewerNames DEF DeleteInode, TypeOK
      <3>3. OpNames'
        BY <2>2 DEF DeleteInode, OpNames, Idle, IdleOp
      <3> QED BY <3>2, <3>3 DEF NamesInv
    <2>3. CASE MkdirNlink \/ MkdirParent \/ SymlinkTarget \/ NodeNlink
      BY <1>u, <2>3 DEF MkdirNlink, MkdirParent, SymlinkTarget, NodeNlink, Finish, IdleOp, TypeOK
    <2>4. CASE UnlinkNlink \/ UnlinkData \/ UnlinkSymlink
      BY <1>u, <2>4 DEF UnlinkNlink, UnlinkData, UnlinkSymlink, IdleOp, TypeOK
    <2>5. CASE RmdirNlink \/ RmdirParent
      BY <1>u, <2>5 DEF RmdirNlink, RmdirParent, IdleOp, TypeOK
    <2> QED BY <1>3, <2>1, <2>2, <2>3, <2>4, <2>5 DEF Continue
  <1>4. CASE StatementFails \/ CrashAndReopen
    BY <1>u, <1>4 DEF StatementFails, CrashAndReopen, CutShort, IdleOp, db
  <1>5. CASE UNCHANGED vars
    BY <1>u, <1>5 DEF vars
  <1> QED BY <1>1, <1>2, <1>3, <1>4, <1>5 DEF Next

\* The type and name invariants hold in every state of the store.
LEMMA NamesAlways == Spec => [](TypeInv /\ NamesInv)
PROOF
  <1>1. TypeInv /\ [Next]_vars => TypeInv'
    BY TypeStep, OpInFlightStep DEF TypeInv
  <1>2. TypeInv /\ NamesInv /\ [Next]_vars => NamesInv'
    BY <1>1, NamesStep DEF TypeInv
  <1> QED BY TypeInit, NamesInit, <1>1, <1>2, PTL DEF Spec

\* Whoever calls and whatever is cut short, no operation removes the root's row
\* or gives the root a name.
THEOREM RootIsProtected == Spec => []RootProtected
PROOF BY NamesAlways, PTL DEF NamesInv

\* Whoever calls and whatever is cut short, link and rename never give a
\* directory a second name.
THEOREM DirectoriesNamedOnce == Spec => []DirNamedOnce
PROOF BY NamesAlways, PTL DEF NamesInv

(***************************************************************************)
(* The dentry cache.                                                       *)
(*                                                                         *)
(* An operation that adds a name caches it in its last step: OpSlot says   *)
(* that the entry it is about to cache is in the table, and that the slot  *)
(* was free (hence not cached) before the entry was inserted.              *)
(***************************************************************************)
OpSlot ==
    /\ op.at \in {"target", "dentry"} => dentry[op.slot] = None
    /\ op.fn \in Additions /\ op.at \in {"nlink", "parent"} => dentry[op.slot] = op.ino

CacheInv == CacheCoherent /\ OpSlot

\* from_pool starts with an empty cache.
LEMMA CacheInit == Init => CacheInv
PROOF BY DEF Init, CacheInv, CacheCoherent, OpSlot, IdleOp, Additions

\* Caching what the table says, or invalidating, keeps the cache coherent.
LEMMA CacheInsertCoherent ==
    ASSUME TypeOK, CacheCoherent, NEW s \in Slots, dentry[s] \in Ino,
           UNCHANGED dentry, cache' \in CacheInsert(cache, s, dentry[s])
    PROVE  CacheCoherent'
PROOF
  <1>1. \A x \in Slots : cache'[x] = None \/ cache'[x] = cache[x] \/ (x = s /\ cache'[x] = dentry[s])
    BY CacheInsertEntries DEF TypeOK, CacheType
  <1> QED BY <1>1 DEF CacheCoherent

\* Behind the VFS, no statement leaves a cached name that fs_dentry contradicts.
LEMMA CacheStep == TypeInv /\ Guarded = TRUE /\ CacheInv /\ [Next]_vars => CacheInv'
PROOF
  <1> SUFFICES ASSUME TypeOK, OpInFlight, Guarded = TRUE, CacheInv, [Next]_vars PROVE CacheInv'
    BY DEF TypeInv
  <1> USE ConstantsAssumption DEF CacheInv
  <1>u. ASSUME UNCHANGED <<dentry, cache>>, op'.at = "idle" \/ UNCHANGED op PROVE CacheInv'
    BY <1>u DEF CacheCoherent, OpSlot
  <1>c. ASSUME NEW fn, NEW at \in {"target", "dentry"}, NEW k, NEW s \in Slots,
               BeginCreate(fn, at, k, s), UNCHANGED cache
        PROVE  CacheInv'
    BY <1>c DEF BeginCreate, CacheCoherent, OpSlot
  <1>d. ASSUME NEW fn \in Removals, NEW i, NEW s \in Slots, BeginRemove(fn, i, s),
               cache' = CacheRemove(cache, s)
        PROVE  CacheInv'
    <2>1. CacheCoherent'
      BY <1>d DEF BeginRemove, CacheRemove, CacheCoherent, TypeOK
    <2>2. OpSlot'
      BY <1>d DEF BeginRemove, OpSlot, Removals, Additions
    <2> QED BY <2>1, <2>2
  <1>1. ASSUME NEW s \in Slots, Begin(s) PROVE CacheInv'
    <2>1. CASE Lookup(s)
      <3>1. UNCHANGED <<dentry, op>>
        BY <2>1 DEF Lookup, db
      <3>2. CacheCoherent'
        BY <2>1, <3>1, CacheInsertCoherent DEF Lookup, CacheCoherent, TypeOK
      <3> QED BY <3>1, <3>2 DEF OpSlot
    <2>2. CASE Mkdir(s) \/ Mknod(s) \/ Symlink(s)
      BY <1>c, <2>2 DEF Mkdir, Mknod, Symlink
    <2>3. CASE CreateFile(s)
      <3>1. /\ NewIno \in Ino
            /\ dentry[s] = None /\ dentry' = [dentry EXCEPT ![s] = NewIno]
            /\ cache' \in CacheInsert(cache, s, NewIno) /\ UNCHANGED op /\ Idle
        BY <2>3, InsertInodeType DEF CreateFile, InsertFile, Kinds
      <3>2. \A x \in Slots : cache'[x] = None \/ cache'[x] = cache[x] \/ (x = s /\ cache'[x] = NewIno)
        BY <3>1, CacheInsertEntries DEF TypeOK, CacheType
      <3>3. CacheCoherent'
        BY <3>1, <3>2 DEF CacheCoherent, TypeOK
      <3> QED BY <3>1, <3>3 DEF OpSlot, Idle
    <2>4. CASE Unlink(s) \/ Rmdir(s)
      BY <1>d, <2>4 DEF Unlink, Rmdir, Removals
    <2>5. ASSUME NEW i \in Ino, Link(i, s) PROVE CacheInv'
      BY <2>5 DEF Link, BeginLink, CacheCoherent, OpSlot, TypeOK
    <2>6. ASSUME NEW t \in Slots, Rename(s, t) PROVE CacheInv'
      <3>1. /\ dentry[s] \in Ino /\ dentry[s] # dentry[t]
            /\ UNCHANGED op /\ Idle
            /\ cache' \in CacheAfterRename(cache, s, t, dentry[s])
        BY <2>6 DEF Rename, RenameTxn, CallerRename, TypeOK
      <3>2. /\ dentry'[t] = dentry[s]
            /\ \A x \in Slots \ {s, t} : dentry'[x] = dentry[x]
        BY <2>6, <3>1 DEF Rename, RenameTxn, MoveEntry, TypeOK, None, Ino
      <3> DEFINE c == [cache EXCEPT ![s] = None, ![t] = None]
      <3>3. c \in CacheType
        BY DEF TypeOK, CacheType
      <3>4. \A x \in Slots : cache'[x] = None \/ cache'[x] = c[x] \/ (x = t /\ cache'[x] = dentry[s])
        <4>1. cache' \in CacheInsert(c, t, dentry[s])
          BY <3>1 DEF CacheAfterRename
        <4> HIDE DEF c
        <4> QED BY <3>1, <3>3, <4>1, CacheInsertEntries
      <3>5. CacheCoherent'
        BY <3>2, <3>4 DEF CacheCoherent, TypeOK
      <3> QED BY <3>1, <3>5 DEF OpSlot, Idle
    <2> QED BY <1>1, <2>1, <2>2, <2>3, <2>4, <2>5, <2>6 DEF Begin
  <1>2. ASSUME NEW i \in Ino, Handle(i) PROVE CacheInv'
    BY <1>u, <1>2 DEF Handle, Open, Pwrite, TruncateToZero, Close, db
  <1>3. CASE Continue
    <2>f. ASSUME Finish(op.ino, op.slot), op.fn \in Additions, op.at \in {"nlink", "parent"},
                 UNCHANGED dentry
          PROVE  CacheInv'
      <3>1. op.slot \in Slots /\ op.ino \in Ino /\ dentry[op.slot] = op.ino
        BY <2>f DEF OpInFlight, OpSlot, Idle
      <3>2. CacheCoherent'
        BY <2>f, <3>1, CacheInsertCoherent DEF Finish
      <3> QED BY <2>f, <3>2 DEF Finish, OpSlot, IdleOp
    <2>1. CASE DentryStatement
      BY <2>1 DEF DentryStatement, CacheCoherent, OpSlot, OpInFlight, Idle, TypeOK
    <2>2. CASE MkdirNlink \/ SymlinkTarget
      BY <2>2 DEF MkdirNlink, SymlinkTarget, CacheCoherent, OpSlot, TypeOK, Additions
    <2>3. CASE MkdirParent
      BY <2>3, <2>f DEF MkdirParent, Additions
    <2>6. CASE NodeNlink
      <3>1. CASE Finish(op.ino, op.slot)
        BY <2>6, <3>1, <2>f DEF NodeNlink, Additions
      <3>2. CASE op' = IdleOp /\ UNCHANGED cache
        BY <2>6, <3>2 DEF NodeNlink, CacheCoherent, OpSlot, IdleOp
      <3> QED BY <2>6, <3>1, <3>2 DEF NodeNlink
    <2>4. CASE UnlinkNlink \/ UnlinkData \/ UnlinkSymlink \/ DeleteInode
      BY <2>4 DEF UnlinkNlink, UnlinkData, UnlinkSymlink, DeleteInode, CacheCoherent, OpSlot,
         IdleOp, TypeOK
    <2>5. CASE RmdirNlink \/ RmdirParent
      BY <2>5 DEF RmdirNlink, RmdirParent, CacheCoherent, OpSlot, IdleOp, TypeOK, Additions
    <2> QED BY <1>3, <2>1, <2>2, <2>3, <2>4, <2>5, <2>6 DEF Continue
  <1>4. CASE StatementFails
    BY <1>u, <1>4 DEF StatementFails, CutShort, IdleOp, db
  <1>5. CASE CrashAndReopen
    <2>1. CacheCoherent'
      BY <1>5 DEF CrashAndReopen, CacheCoherent
    <2>2. OpSlot'
      BY <1>5 DEF CrashAndReopen, CutShort, OpSlot, Idle, IdleOp, db
    <2> QED BY <2>1, <2>2
  <1>6. CASE UNCHANGED vars
    BY <1>u, <1>6 DEF vars
  <1> QED BY <1>1, <1>2, <1>3, <1>4, <1>5, <1>6 DEF Next

\* Behind the VFS, whatever is cut short, a cached name is the name in fs_dentry:
\* every path through unlink, rmdir and rename invalidates before it returns.
\* (A caller that renames a name onto itself breaks it: run self_rename.)
THEOREM CacheIsCoherent == Guarded = TRUE => (Spec => []CacheCoherent)
PROOF
  <1> SUFFICES ASSUME Guarded = TRUE PROVE Spec => []CacheCoherent
    OBVIOUS
  <1>1. TypeInv /\ CacheInv /\ [Next]_vars => CacheInv'
    BY CacheStep
  <1> QED BY CacheInit, NamesAlways, <1>1, PTL DEF Spec, CacheInv

(***************************************************************************)
(* Handles.                                                                *)
(***************************************************************************)

\* A handle was returned for an inode that once had a row.
HandlesInv == \A i \in open : i < next

\* How any step changes the kind of an inode: its row goes, or it is new.
LEMMA KindStep ==
    ASSUME TypeOK, [Next]_vars
    PROVE  \A i \in Ino : kind'[i] \in {kind[i], "none"} \/ i = next
PROOF
  <1>1. ASSUME NEW s \in Slots, Begin(s)
        PROVE  \A i \in Ino : kind'[i] \in {kind[i], "none"} \/ i = next
    <2>i. ASSUME NEW k, NEW n, InsertInode(k, n)
          PROVE  \A i \in Ino : kind'[i] \in {kind[i], "none"} \/ i = next
      BY <2>i DEF InsertInode, NewIno, TypeOK
    <2>1. CASE Lookup(s)
      BY <2>1 DEF Lookup, db
    <2>2. CASE Mkdir(s) \/ Mknod(s) \/ Symlink(s)
      BY <2>2, <2>i DEF Mkdir, Mknod, Symlink, BeginCreate
    <2>3. CASE CreateFile(s)
      BY <2>3, <2>i DEF CreateFile, InsertFile
    <2>4. CASE Unlink(s) \/ Rmdir(s)
      BY <2>4 DEF Unlink, Rmdir, BeginRemove
    <2>5. CASE \E i \in Ino : Link(i, s)
      BY <2>5 DEF Link, BeginLink
    <2>6. ASSUME NEW t \in Slots, Rename(s, t)
          PROVE  \A i \in Ino : kind'[i] \in {kind[i], "none"}
      BY <2>6 DEF Rename, RenameTxn, TypeOK
    <2> QED BY <1>1, <2>1, <2>2, <2>3, <2>4, <2>5, <2>6 DEF Begin
  <1>2. CASE DeleteInode
    BY <1>2 DEF DeleteInode, TypeOK
  <1>3. CASE Continue /\ ~DeleteInode
    BY <1>3 DEF Continue, DentryStatement, MkdirNlink, MkdirParent, SymlinkTarget, NodeNlink,
       UnlinkNlink, UnlinkData, UnlinkSymlink, RmdirNlink, RmdirParent
  <1>4. CASE UNCHANGED kind
    BY <1>4
  <1> QED BY <1>1, <1>2, <1>3, <1>4 DEF Next, Handle, Open, Pwrite, TruncateToZero, Close,
             StatementFails, CrashAndReopen, db, vars

\* A handle keeps referring to a number AUTOINCREMENT has already handed out.
LEMMA HandlesStep ==
    TypeInv /\ TypeOK' /\ NamesInv /\ HandlesInv /\ [Next]_vars => HandlesInv'
PROOF
  <1> SUFFICES ASSUME TypeOK, TypeOK', NamesInv, HandlesInv, [Next]_vars PROVE HandlesInv'
    BY DEF TypeInv
  <1>0. next \in Int /\ next' \in Int /\ \A i \in open : i \in Int
    BY DEF TypeOK, Ino
  <1>1. ASSUME next' = next \/ next' = next + 1, open' \subseteq open PROVE HandlesInv'
    BY <1>0, <1>1 DEF HandlesInv
  <1>2. ASSUME NEW s \in Slots, CreateFile(s) PROVE HandlesInv'
    <2>1. next' = next + 1 /\ open' \subseteq open \cup {next}
      BY <1>2 DEF CreateFile, InsertFile, InsertInode, NewIno, HoldHandle
    <2> QED BY <1>0, <2>1 DEF HandlesInv
  <1>3. ASSUME NEW i \in Ino, Open(i) PROVE HandlesInv'
    BY <1>3 DEF Open, HoldHandle, Exists, NamesInv, FreshUnused, HandlesInv, db
  <1>4. ASSUME NEW s \in Slots, Begin(s), ~CreateFile(s) PROVE HandlesInv'
    <2>1. open' = open /\ (next' = next \/ next' = next + 1)
      BY <1>4 DEF Begin, Lookup, Mkdir, Mknod, Symlink, BeginCreate, InsertInode, NewIno, Unlink,
         Rmdir, BeginRemove, Link, BeginLink, Rename, RenameTxn, db
    <2> QED BY <1>1, <2>1
  <1>5. ASSUME NEW i \in Ino, Pwrite(i) \/ TruncateToZero(i) \/ Close(i) PROVE HandlesInv'
    BY <1>1, <1>5 DEF Pwrite, TruncateToZero, Close, db
  <1>6. CASE Continue
    BY <1>1, <1>6 DEF Continue, DentryStatement, MkdirNlink, MkdirParent, SymlinkTarget, NodeNlink,
       UnlinkNlink, UnlinkData, UnlinkSymlink, DeleteInode, RmdirNlink, RmdirParent
  <1>7. CASE StatementFails \/ CrashAndReopen \/ UNCHANGED vars
    BY <1>1, <1>7 DEF StatementFails, CrashAndReopen, db, vars
  <1> QED BY <1>2, <1>3, <1>4, <1>5, <1>6, <1>7 DEF Next, Handle

\* Whoever calls and whatever is cut short, the number of a deleted inode never
\* comes back while a handle holds it: AUTOINCREMENT is what this rests on.
THEOREM HandlesNeverRetargeted == Spec => HandleNeverRetargeted
PROOF
  <1>1. Init => HandlesInv
    BY DEF Init, HandlesInv
  <1>2. TypeInv /\ TypeInv' /\ NamesInv /\ HandlesInv /\ [Next]_vars => HandlesInv'
    BY HandlesStep DEF TypeInv
  <1>3. TypeInv /\ HandlesInv /\ [Next]_vars
            => [\A i \in open : ~Exists(i) => kind'[i] = "none"]_vars
    <2> SUFFICES ASSUME TypeOK, HandlesInv, [Next]_vars, NEW i \in open, ~Exists(i)
                 PROVE  kind'[i] = "none"
      BY DEF TypeInv
    <2>1. i \in Ino /\ i # next
      BY DEF TypeOK, HandlesInv, Ino
    <2> QED BY <2>1, KindStep DEF Exists
  <1> QED BY NamesAlways, <1>1, <1>2, <1>3, PTL DEF Spec, HandleNeverRetargeted

-----------------------------------------------------------------------------
(***************************************************************************)
(* Every entry resolves: proof that the link counts never fall below the   *)
(* number of names, so that unlink and rename delete an inode only with    *)
(* its last name.  It needs the caller's checks: mkdir and rmdir count     *)
(* links on whatever they are told is the parent directory.                *)
(***************************************************************************)

(***************************************************************************)
(* Only directories have entries, and what an operation in progress still  *)
(* has to do fits the inode it does it to.                                 *)
(***************************************************************************)
ParentsAreDirs == \A s \in Slots : dentry[s] # None => kind[s[1]] = "dir"

OpKinds ==
    ~Idle =>
        /\ kind[op.slot[1]] = "dir"
        /\ op.at \in {"target", "dentry"} =>
               op.fn \in {"mkdir", "mknod", "symlink"} /\ kind[op.ino] # "none"
        /\ op.at \in {"data", "symlink", "inode"} => op.fn \in {"unlink", "rmdir"}
        /\ op.fn = "mkdir" => kind[op.ino] = "dir"
        /\ op.fn = "unlink" => kind[op.ino] # "dir"
        /\ op.fn = "rmdir" => /\ kind[op.ino] = "dir"
                              /\ \A s \in Slots : s[1] # op.ino \/ dentry[s] = None
                              /\ Refs(op.ino) = {}
        /\ op.fn # "removedir"

ShapeInv == ParentsAreDirs /\ OpKinds

\* A fresh database has only the root, a directory.
LEMMA ShapeInit == Init => ShapeInv
PROOF BY DEF Init, ShapeInv, ParentsAreDirs, OpKinds, Idle, IdleOp

\* What the COUNT(*) test of rmdir and rename establishes: no entry has the
\* directory as its parent.
LEMMA EmptyDirectory ==
    ASSUME NEW i \in Ino, IsEmpty(i), NEW s \in Slots, s[1] = i
    PROVE  dentry[s] = None
PROOF BY DEF IsEmpty, Slots

\* The parent_ino of an fs_dentry key is an inode number.
LEMMA SlotParent == \A s \in Slots : s[1] \in Ino
PROOF BY DEF Slots

\* A linked directory, as the VFS passes it.
LEMMA GuardedParent ==
    ASSUME Guarded = TRUE, NEW p \in Ino, CallerDir(p)
    PROVE  kind[p] = "dir"
PROOF BY DEF CallerDir

\* Behind the VFS, no statement leaves an entry whose parent is not a directory:
\* rmdir and rename only drop empty ones, and nothing is created under a file.
LEMMA ShapeStep ==
    TypeInv /\ TypeOK' /\ NamesInv /\ CacheInv /\ Guarded = TRUE /\ ShapeInv /\ [Next]_vars => ShapeInv'
PROOF
  <1> SUFFICES ASSUME TypeOK, OpInFlight, TypeOK', NamesInv, CacheInv, Guarded = TRUE, ShapeInv,
                      [Next]_vars
               PROVE  ShapeInv'
    BY DEF TypeInv
  <1> USE ConstantsAssumption, SlotParent
  \* Entries that stay or go and rows that stay, an operation that is over.
  <1>u. ASSUME UNCHANGED kind, op'.at = "idle", \A s \in Slots : dentry'[s] \in {dentry[s], None}
        PROVE  ShapeInv'
    BY <1>u DEF ShapeInv, ParentsAreDirs, OpKinds, Idle
  \* A statement in the middle of an operation that leaves entries and rows.
  <1>m. ASSUME UNCHANGED <<kind, dentry>>, ~Idle, op'.fn = op.fn, op'.ino = op.ino, op'.slot = op.slot,
               op'.at \in {"target", "dentry"} => op.at \in {"target", "dentry"},
               op'.at \in {"data", "symlink", "inode"} => op.fn \in {"unlink", "rmdir"}
        PROVE  ShapeInv'
    BY <1>m DEF ShapeInv, ParentsAreDirs, OpKinds, Idle, Refs
  \* A new row changes the kind of no directory.
  <1>i. ASSUME NEW k \in Kinds, NEW n \in Int, InsertInode(k, n)
        PROVE  /\ NewIno \in Ino
               /\ kind'[NewIno] = k
               /\ \A x \in Ino : kind[x] = "dir" => kind'[x] = "dir"
    <2>1. NewIno \in Ino /\ kind[NewIno] = "none"
      BY <1>i, InsertInodeNames DEF NamesInv, FreshUnused, TypeOK, InsertInode, NewIno, Ino
    <2> QED BY <1>i, <2>1 DEF InsertInode, TypeOK
  <1>c. ASSUME NEW fn \in {"mkdir", "mknod", "symlink"}, NEW at, NEW k \in Kinds, NEW s \in Slots,
               fn = "mkdir" => k = "dir", at \in {"target", "dentry"}, CallerDir(s[1]),
               BeginCreate(fn, at, k, s)
        PROVE  ShapeInv'
    <2>1. InsertInode(k, 0) /\ UNCHANGED dentry /\ kind[s[1]] = "dir"
      BY <1>c, GuardedParent DEF BeginCreate
    <2>2. ParentsAreDirs'
      BY <1>i, <2>1 DEF ShapeInv, ParentsAreDirs
    <2>3. OpKinds'
      BY <1>c, <1>i, <2>1 DEF OpKinds, BeginCreate, Kinds
    <2> QED BY <2>2, <2>3 DEF ShapeInv
  <1>1. ASSUME NEW s \in Slots, Begin(s) PROVE ShapeInv'
    <2>1. CASE Lookup(s)
      BY <2>1, <1>u DEF Lookup, Idle, db
    <2>2. CASE Mkdir(s) \/ Mknod(s) \/ Symlink(s)
      BY <1>c, <2>2 DEF Mkdir, Mknod, Symlink, Kinds
    <2>3. CASE CreateFile(s)
      <3>1. /\ InsertInode("file", 1) /\ dentry' = [dentry EXCEPT ![s] = NewIno]
            /\ kind[s[1]] = "dir" /\ op'.at = "idle"
        BY <2>3, GuardedParent DEF CreateFile, InsertFile, Idle
      <3> QED BY <1>i, <3>1 DEF ShapeInv, ParentsAreDirs, OpKinds, Idle, Kinds, TypeOK
    <2>4. CASE Unlink(s)
      <3>1. /\ dentry[s] # None /\ kind[dentry[s]] # "dir" /\ kind[s[1]] = "dir"
            /\ dentry' = [dentry EXCEPT ![s] = None] /\ UNCHANGED kind
            /\ op' = [fn |-> "unlink", at |-> "nlink", ino |-> dentry[s], slot |-> s]
        BY <2>4 DEF Unlink, BeginRemove, ShapeInv, ParentsAreDirs
      <3> QED BY <3>1 DEF ShapeInv, ParentsAreDirs, OpKinds, TypeOK
    <2>5. CASE Rmdir(s)
      <3>1. /\ dentry[s] \in Ino /\ kind[dentry[s]] = "dir" /\ kind[s[1]] = "dir"
            /\ \A x \in Slots : x[1] # dentry[s] \/ dentry[x] = None
            /\ dentry' = [dentry EXCEPT ![s] = None] /\ UNCHANGED kind
            /\ op' = [fn |-> "rmdir", at |-> "nlink", ino |-> dentry[s], slot |-> s]
        BY <2>5, EmptyDirectory DEF Rmdir, BeginRemove, ShapeInv, ParentsAreDirs, TypeOK
      <3>2. \A x \in Slots : dentry'[x] # dentry[s]
        BY <3>1 DEF NamesInv, DirNamedOnce, TypeOK, None, Ino
      <3>3. ParentsAreDirs'
        BY <3>1 DEF ShapeInv, ParentsAreDirs, TypeOK
      <3>4. OpKinds'
        BY <3>1, <3>2 DEF OpKinds, Refs, TypeOK
      <3> QED BY <3>3, <3>4 DEF ShapeInv
    <2>6. ASSUME NEW i \in Ino, Link(i, s) PROVE ShapeInv'
      <3>1. /\ kind[s[1]] = "dir"
            /\ dentry' = [dentry EXCEPT ![s] = i] /\ UNCHANGED kind
            /\ op' = [fn |-> "link", at |-> "nlink", ino |-> i, slot |-> s]
        BY <2>6, GuardedParent DEF Link, BeginLink
      <3> QED BY <3>1 DEF ShapeInv, ParentsAreDirs, OpKinds, TypeOK
    <2>7. ASSUME NEW t \in Slots, Rename(s, t) PROVE ShapeInv'
      <3>1. /\ kind[t[1]] = "dir" /\ op'.at = "idle"
            /\ \A x \in Slots : dentry'[x] # None => dentry[x] # None \/ x = t
        BY <2>7, GuardedParent DEF Rename, RenameTxn, MoveEntry, Idle, TypeOK
      <3>2. ASSUME NEW j \in Ino, kind[j] = "dir", kind'[j] # "dir"
            PROVE  j = dentry[t] /\ IsEmpty(j)
        BY <2>7, <3>2 DEF Rename, RenameTxn, Replaceable, TypeOK
      <3>3. \A x \in Slots : dentry'[x] # None => kind[x[1]] = "dir"
        BY <3>1 DEF ShapeInv, ParentsAreDirs
      <3>4. \A x \in Slots : dentry'[x] # None => kind'[x[1]] = "dir"
        BY <3>1, <3>2, <3>3, EmptyDirectory DEF TypeOK, None, Ino
      <3> QED BY <3>1, <3>4 DEF ShapeInv, ParentsAreDirs, OpKinds, Idle
    <2> QED BY <1>1, <2>1, <2>2, <2>3, <2>4, <2>5, <2>6, <2>7 DEF Begin
  <1>2. ASSUME NEW i \in Ino, Handle(i) PROVE ShapeInv'
    BY <1>2 DEF Handle, Open, Pwrite, TruncateToZero, Close, ShapeInv, ParentsAreDirs, OpKinds,
       Idle, Refs, db
  <1>3. CASE Continue
    <2>1. CASE DentryStatement
      <3>1. /\ dentry' = [dentry EXCEPT ![op.slot] = op.ino] /\ UNCHANGED kind
            /\ op'.at = "nlink" /\ op'.fn = op.fn /\ op'.ino = op.ino /\ op'.slot = op.slot
            /\ ~Idle /\ op.fn \in {"mkdir", "mknod", "symlink"} /\ op.slot \in Slots
        BY <2>1 DEF DentryStatement, ShapeInv, OpKinds, OpInFlight, Idle, TypeOK
      <3>2. ParentsAreDirs'
        BY <3>1 DEF ShapeInv, ParentsAreDirs, OpKinds, TypeOK
      <3>3. OpKinds'
        BY <3>1 DEF ShapeInv, OpKinds
      <3> QED BY <3>2, <3>3 DEF ShapeInv
    <2>2. CASE DeleteInode
      <3>1. \A s \in Slots : dentry[s] # None => s[1] # op.ino
        BY <2>2 DEF DeleteInode, ShapeInv, ParentsAreDirs, OpKinds, Idle
      <3> QED BY <2>2, <3>1 DEF DeleteInode, IdleOp, ShapeInv, ParentsAreDirs, OpKinds, Idle, TypeOK
    <2>3. CASE MkdirNlink
      BY <1>m, <2>3 DEF MkdirNlink, TypeOK, Idle
    <2>4. CASE SymlinkTarget
      BY <1>m, <2>4 DEF SymlinkTarget, TypeOK, Idle
    <2>5. CASE MkdirParent \/ NodeNlink
      BY <1>u, <2>5 DEF MkdirParent, NodeNlink, Finish, IdleOp
    <2>6. CASE UnlinkNlink
      <3>1. CASE op' = IdleOp
        BY <1>u, <2>6, <3>1 DEF UnlinkNlink, IdleOp
      <3>2. CASE op' = [op EXCEPT !.at = "data"]
        BY <1>m, <2>6, <3>2 DEF UnlinkNlink, TypeOK, Idle
      <3> QED BY <2>6, <3>1, <3>2 DEF UnlinkNlink
    <2>7. CASE UnlinkData \/ UnlinkSymlink
      <3>1. op.fn \in {"unlink", "rmdir"} /\ ~Idle
        BY <2>7 DEF UnlinkData, UnlinkSymlink, ShapeInv, OpKinds, Idle
      <3> QED BY <1>m, <2>7, <3>1 DEF UnlinkData, UnlinkSymlink, TypeOK
    <2>8. CASE RmdirNlink
      BY <1>m, <2>8 DEF RmdirNlink, TypeOK, Idle
    <2>9. CASE RmdirParent
      <3>1. CASE op' = IdleOp
        BY <1>u, <2>9, <3>1 DEF RmdirParent, IdleOp
      <3>2. CASE op' = [op EXCEPT !.at = IF op.fn = "rmdir" THEN "inode" ELSE "data"]
        <4>1. op.fn = "rmdir" /\ ~Idle
          BY <2>9 DEF RmdirParent, ShapeInv, OpKinds, Idle
        <4> QED BY <1>m, <2>9, <3>2, <4>1 DEF RmdirParent, TypeOK
      <3> QED BY <2>9, <3>1, <3>2 DEF RmdirParent
    <2> QED BY <1>3, <2>1, <2>2, <2>3, <2>4, <2>5, <2>6, <2>7, <2>8, <2>9 DEF Continue
  <1>4. CASE StatementFails \/ CrashAndReopen
    BY <1>u, <1>4 DEF StatementFails, CrashAndReopen, CutShort, Idle, IdleOp, db
  <1>5. CASE UNCHANGED vars
    BY <1>5 DEF vars, ShapeInv, ParentsAreDirs, OpKinds, Idle, Refs
  <1> QED BY <1>1, <1>2, <1>3, <1>4, <1>5 DEF Next

(***************************************************************************)
(* Counting names.                                                         *)
(***************************************************************************)
NameCount(d, i) == Cardinality({s \in Slots : d[s] = i})

Bit(b) == IF b THEN 1 ELSE 0

\* fs_dentry has finitely many keys, so names can be counted.
LEMMA SlotsFinite == IsFiniteSet(Slots)
PROOF
  <1>1. IsFiniteSet(Ino)
    BY FS_Interval, ConstantsAssumption DEF Ino
  <1> QED BY <1>1, FS_Product, ConstantsAssumption DEF Slots

\* The names of one inode are finitely many: none exactly when the count is zero.
LEMMA NamesFinite ==
    ASSUME NEW d, NEW i
    PROVE  /\ IsFiniteSet({s \in Slots : d[s] = i})
           /\ NameCount(d, i) \in Nat
           /\ NameCount(d, i) = 0 <=> {s \in Slots : d[s] = i} = {}
PROOF
  <1>1. IsFiniteSet({s \in Slots : d[s] = i})
    BY SlotsFinite, FS_Subset
  <1> QED BY <1>1, FS_CardinalityType, FS_EmptySet DEF NameCount

\* d and e differ in one row.
Rewrites(d, e, s) == e[s] # d[s] /\ \A x \in Slots \ {s} : e[x] = d[x]

\* One row of fs_dentry written: its old inode loses a name, its new one gains it.
LEMMA NameCountUpdate ==
    ASSUME NEW d, NEW e, NEW s \in Slots, NEW i, Rewrites(d, e, s)
    PROVE  NameCount(e, i) = IF i = e[s] THEN NameCount(d, i) + 1
                             ELSE IF i = d[s] THEN NameCount(d, i) - 1
                             ELSE NameCount(d, i)
PROOF
  <1> DEFINE D == {x \in Slots : d[x] = i}
             E == {x \in Slots : e[x] = i}
  <1>1. IsFiniteSet(D) /\ NameCount(d, i) = Cardinality(D) /\ NameCount(e, i) = Cardinality(E)
    BY NamesFinite DEF NameCount
  <1>2. CASE i # e[s] /\ i # d[s]
    <2>1. E = D
      BY <1>2 DEF Rewrites
    <2> QED BY <1>1, <1>2, <2>1
  <1>3. CASE i = e[s]
    <2>1. E = D \cup {s} /\ s \notin D
      BY <1>3 DEF Rewrites
    <2> QED BY <1>1, <1>3, <2>1, FS_AddElement
  <1>4. CASE i # e[s] /\ i = d[s]
    <2>1. E = D \ {s} /\ s \in D
      BY <1>4 DEF Rewrites
    <2> QED BY <1>1, <1>4, <2>1, FS_RemoveElement
  <1> QED BY <1>2, <1>3, <1>4

\* Names gained and lost when one row is written.
LEMMA NameCountWrite ==
    ASSUME NEW d, NEW e, NEW s \in Slots, Rewrites(d, e, s), NEW x \in Ino
    PROVE  NameCount(e, x) = NameCount(d, x) + Bit(x = e[s]) - Bit(x = d[s])
PROOF
  <1>1. NameCount(e, x) = IF x = e[s] THEN NameCount(d, x) + 1
                          ELSE IF x = d[s] THEN NameCount(d, x) - 1
                          ELSE NameCount(d, x)
    BY NameCountUpdate
  <1>2. NameCount(d, x) \in Nat /\ e[s] # d[s]
    BY NamesFinite DEF Rewrites
  <1> QED BY <1>1, <1>2 DEF Bit

\* What the transaction of rename does to the tables, behind the VFS: the entry
\* moves, what it replaces loses a name and a link (and its row with the last),
\* and the ".." of a directory moves from one parent's count to the other's.
LEMMA RenameEffect ==
    ASSUME TypeOK, Guarded = TRUE, NEW s \in Slots, NEW t \in Slots, Rename(s, t),
           NEW i, i = dentry[s], NEW j, j = dentry[t]
    PROVE  /\ i \in Ino /\ j \in Ino \cup {None} /\ i # j /\ s # t
           /\ kind[i] # "none" /\ (j # None => kind[j] # "none" /\ (kind[j] = "dir" <=> kind[i] = "dir"))
           /\ j # None /\ kind[j] = "dir" => IsEmpty(j)
           /\ op.at = "idle" /\ op' = op /\ torn' = torn
           /\ kind[s[1]] = "dir" /\ kind[t[1]] = "dir"
           /\ dentry' = [[dentry EXCEPT ![t] = i] EXCEPT ![s] = None]
           /\ \A x \in Ino : NameCount(dentry', x) = NameCount(dentry, x) - Bit(x = j)
           /\ kind' = [x \in Ino |-> IF x = j /\ nlink[j] = 1 THEN "none" ELSE kind[x]]
           /\ \A x \in Ino : ~(x = j /\ nlink[j] = 1) =>
                 nlink'[x] = nlink[x] - Bit(x = j)
                             - Bit(kind[i] = "dir" /\ s[1] # t[1] /\ x = s[1])
                             + Bit(kind[i] = "dir" /\ s[1] # t[1] /\ x = t[1])
PROOF
  <1> USE SlotParent
  <1> DEFINE cut == DropReplaced(j)
             gone == j # None /\ LinkCount(cut, j) = 0
             moved == MoveParentLink(cut, kind[i] = "dir", s, t)
  <1>w. None \notin Ino /\ dentry \in [Slots -> Ino \cup {None}] /\ nlink \in [Ino -> Int]
    BY DEF None, Ino, TypeOK
  <1>1. /\ i \in Ino /\ j \in Ino \cup {None} /\ i # j /\ s # t
        /\ kind[i] # "none"
        /\ (j # None => kind[j] # "none" /\ (kind[j] = "dir" <=> kind[i] = "dir"))
        /\ j # None /\ kind[j] = "dir" => IsEmpty(j)
        /\ op.at = "idle" /\ op' = op /\ torn' = torn
        /\ kind[s[1]] = "dir" /\ kind[t[1]] = "dir"
    BY <1>w, GuardedParent DEF Rename, RenameTxn, CallerRename, Replaceable, Exists, Idle
  <1>2. dentry' = [[dentry EXCEPT ![t] = i] EXCEPT ![s] = None]
    BY <1>1, <1>w DEF Rename, RenameTxn, MoveEntry
  <1>3. ASSUME NEW x \in Ino PROVE NameCount(dentry', x) = NameCount(dentry, x) - Bit(x = j)
    <2> DEFINE e == [dentry EXCEPT ![t] = i]
    <2>1. e \in [Slots -> Ino \cup {None}] /\ e[s] = i
      BY <1>w, <1>1
    <2>2. NameCount(e, x) = IF x = i THEN NameCount(dentry, x) + 1
                            ELSE IF x = j THEN NameCount(dentry, x) - 1
                            ELSE NameCount(dentry, x)
      <3>1. e[t] = i /\ Rewrites(dentry, e, t)
        BY <1>w, <1>1 DEF Rewrites
      <3> HIDE DEF e
      <3> QED BY <1>w, <1>1, <3>1, NameCountUpdate
    <2>3. dentry'[s] = None /\ Rewrites(e, dentry', s)
      BY <1>w, <1>1, <1>2, <2>1 DEF Rewrites
    <2> HIDE DEF e
    <2>4. NameCount(dentry', x) = IF x = i THEN NameCount(e, x) - 1 ELSE NameCount(e, x)
      BY <1>w, <1>1, <2>1, <2>3, NameCountUpdate
    <2>5. NameCount(dentry, x) \in Nat
      BY NamesFinite
    <2> QED BY <1>1, <2>2, <2>4, <2>5 DEF Bit
  <1>4. cut \in [Ino -> Int] /\ \A x \in Ino : cut[x] = nlink[x] - Bit(x = j)
    BY <1>1, <1>w DEF DropReplaced, AddLinks, Exists, Bit
  <1>5. /\ kind' = [x \in Ino |-> IF gone /\ x = j THEN "none" ELSE kind[x]]
        /\ nlink' = [x \in Ino |-> IF gone /\ x = j THEN 0 ELSE moved[x]]
    BY DEF Rename, RenameTxn
  <1>6. gone <=> j # None /\ nlink[j] = 1
    BY <1>1, <1>4, <1>w DEF LinkCount, Exists, Bit
  <1> HIDE DEF cut, gone
  <1>7. \A x \in Ino : moved[x] = cut[x] - Bit(kind[i] = "dir" /\ s[1] # t[1] /\ x = s[1])
                                         + Bit(kind[i] = "dir" /\ s[1] # t[1] /\ x = t[1])
    BY <1>1, <1>4 DEF MoveParentLink, AddLinks, Exists, Bit
  <1> HIDE DEF moved
  <1>8. \A x \in Ino : (gone /\ x = j) <=> (x = j /\ nlink[j] = 1)
    BY <1>6, <1>w
  <1>9. kind' = [x \in Ino |-> IF x = j /\ nlink[j] = 1 THEN "none" ELSE kind[x]]
    BY <1>5, <1>8
  <1>10. \A x \in Ino : ~(x = j /\ nlink[j] = 1) => nlink'[x] = moved[x]
    BY <1>5, <1>8
  <1>11. \A x \in Ino : ~(x = j /\ nlink[j] = 1) =>
            nlink'[x] = nlink[x] - Bit(x = j)
                        - Bit(kind[i] = "dir" /\ s[1] # t[1] /\ x = s[1])
                        + Bit(kind[i] = "dir" /\ s[1] # t[1] /\ x = t[1])
    BY <1>4, <1>7, <1>10
  <1> QED BY <1>1, <1>2, <1>3, <1>9, <1>11

(***************************************************************************)
(* The invariant behind EntriesResolve.  Between the statements of an      *)
(* operation the count of its inode is one short (a name inserted and not  *)
(* yet counted) or one ahead (a name deleted and still counted); outside   *)
(* of that the count covers the names.  A cut removal leaves it too high,  *)
(* which is safe; a cut addition leaves it too low, and nothing is claimed *)
(* after one (run torn_link).                                              *)
(***************************************************************************)
Uncounted(i) ==
    IF op.at = "nlink" /\ op.ino = i /\ op.fn \in {"mknod", "symlink", "link"} THEN 1 ELSE 0

Released(i) == IF op.at = "nlink" /\ op.ino = i /\ op.fn = "unlink" THEN 1 ELSE 0

Covered(i) ==
    kind[i] \in {"file", "symlink"} =>
        nlink[i] + Uncounted(i) >= NameCount(dentry, i) + Released(i)

Named == \A s \in Slots : dentry[s] # None => kind[dentry[s]] # "none"

OpGone == op.at \in {"data", "symlink", "inode"} => NameCount(dentry, op.ino) = 0

CountInv == "addition" \notin torn => Named /\ (\A i \in Ino : Covered(i)) /\ OpGone

\* A fresh database has no entries to count.
LEMMA CountInit == Init => CountInv
PROOF
  <1> SUFFICES ASSUME Init PROVE CountInv
    OBVIOUS
  <1>1. \A i \in Ino : Covered(i)
    BY ConstantsAssumption DEF Init, Covered, Ino, ROOT_INO
  <1> QED BY <1>1 DEF Init, CountInv, Named, OpGone, IdleOp

\* The counts of inodes that are not directories survive link arithmetic on one.
LEMMA AddLinksElsewhere ==
    ASSUME NEW f \in [Ino -> Int], NEW p \in Ino, NEW k \in Int, NEW i \in Ino, i # p
    PROVE  AddLinks(f, p, k)[i] = f[i]
PROOF BY DEF AddLinks

\* Behind the VFS, until an addition is cut short, the link count of an inode that
\* is no directory never falls below the number of its names in any statement.
LEMMA CountStep ==
    TypeInv /\ TypeOK' /\ NamesInv /\ CacheInv /\ ShapeInv /\ Guarded = TRUE /\ CountInv
        /\ [Next]_vars => CountInv'
PROOF
  <1> SUFFICES ASSUME TypeOK, OpInFlight, TypeOK', NamesInv, CacheInv, ShapeInv, Guarded = TRUE,
                      CountInv, [Next]_vars, "addition" \notin torn'
               PROVE  Named' /\ (\A i \in Ino : Covered(i)') /\ OpGone'
    BY DEF TypeInv, CountInv
  <1> USE ConstantsAssumption, SlotParent
  <1>t. "addition" \notin torn
    BY DEF Next, Begin, Lookup, Mkdir, Mknod, Symlink, BeginCreate, CreateFile, InsertFile, Unlink,
       Rmdir, BeginRemove, Link, BeginLink, Rename, RenameTxn, Handle, Open, Pwrite,
       TruncateToZero, Close, Continue, DentryStatement, MkdirNlink, MkdirParent, SymlinkTarget,
       NodeNlink, UnlinkNlink, UnlinkData, UnlinkSymlink, DeleteInode, RmdirNlink, RmdirParent,
       StatementFails, CrashAndReopen, CutShort, db, vars
  <1>0. Named /\ (\A i \in Ino : Covered(i)) /\ OpGone
    BY <1>t DEF CountInv
  <1>n. \A i \in Ino : NameCount(dentry, i) \in Nat /\ NameCount(dentry', i) \in Nat
    BY NamesFinite
  <1>b. \A i \in Ino : Uncounted(i) \in {0, 1} /\ Released(i) \in {0, 1}
    BY DEF Uncounted, Released
  <1>w. None \notin Ino /\ dentry \in [Slots -> Ino \cup {None}]
    BY DEF None, Ino, TypeOK
  \* Tables unchanged, and the operation neither enters nor leaves its "nlink".
  <1>u. ASSUME UNCHANGED <<kind, nlink, dentry>>, op.at # "nlink", op'.at # "nlink",
               op'.at \in {"data", "symlink", "inode"} =>
                   op.at \in {"data", "symlink", "inode"} /\ op'.ino = op.ino
        PROVE  Named' /\ (\A i \in Ino : Covered(i)') /\ OpGone'
    BY <1>0, <1>u DEF Named, Covered, OpGone, Uncounted, Released
  \* A new inode, not named yet or named by a single entry.
  <1>i. ASSUME NEW k \in Kinds, NEW n \in Int, InsertInode(k, n)
        PROVE  /\ NewIno \in Ino /\ kind'[NewIno] = k /\ nlink'[NewIno] = n
               /\ NameCount(dentry, NewIno) = 0
               /\ \A x \in Ino \ {NewIno} : kind'[x] = kind[x] /\ nlink'[x] = nlink[x]
               /\ \A s \in Slots : dentry[s] # NewIno
    <2>1. NewIno \in Ino /\ Refs(NewIno) = {}
      BY <1>i, InsertInodeNames
    <2>2. NameCount(dentry, NewIno) = 0 /\ \A s \in Slots : dentry[s] # NewIno
      BY <2>1, NamesFinite DEF Refs
    <2> QED BY <1>i, <2>1, <2>2 DEF InsertInode, TypeOK
  <1>c. ASSUME NEW fn, NEW at \in {"target", "dentry"}, NEW k \in Kinds, NEW s \in Slots,
               BeginCreate(fn, at, k, s)
        PROVE  Named' /\ (\A i \in Ino : Covered(i)') /\ OpGone'
    <2>1. InsertInode(k, 0) /\ UNCHANGED dentry /\ op.at = "idle" /\ op'.at = at
      BY <1>c DEF BeginCreate, Idle
    <2>2. Named'
      BY <1>0, <1>i, <2>1 DEF Named, TypeOK
    <2>3. ASSUME NEW i \in Ino PROVE Covered(i)'
      BY <1>0, <1>i, <2>1 DEF Covered, Uncounted, Released
    <2> QED BY <2>1, <2>2, <2>3 DEF OpGone
  <1>1. ASSUME NEW s \in Slots, Begin(s)
        PROVE  Named' /\ (\A i \in Ino : Covered(i)') /\ OpGone'
    <2>1. CASE Lookup(s)
      BY <1>u, <2>1 DEF Lookup, Idle, db
    <2>2. CASE Mkdir(s) \/ Mknod(s) \/ Symlink(s)
      BY <1>c, <2>2 DEF Mkdir, Mknod, Symlink, Kinds
    <2>3. CASE CreateFile(s)
      <3>1. /\ InsertInode("file", 1) /\ dentry[s] = None /\ dentry' = [dentry EXCEPT ![s] = NewIno]
            /\ op.at = "idle" /\ op'.at = "idle"
        BY <2>3 DEF CreateFile, InsertFile, Idle
      <3>2. /\ NewIno \in Ino /\ kind'[NewIno] = "file" /\ nlink'[NewIno] = 1
            /\ NameCount(dentry, NewIno) = 0
            /\ \A x \in Ino \ {NewIno} : kind'[x] = kind[x] /\ nlink'[x] = nlink[x]
            /\ \A x \in Slots : dentry[x] # NewIno
        BY <1>i, <3>1 DEF Kinds
      <3>3. Named'
        BY <1>0, <3>1, <3>2 DEF Named, TypeOK
      <3>4. ASSUME NEW i \in Ino PROVE Covered(i)'
        <4>1. NameCount(dentry', i) = IF i = NewIno THEN 1 ELSE NameCount(dentry, i)
          <5>1. dentry'[s] = NewIno /\ Rewrites(dentry, dentry', s)
            BY <1>w, <3>1, <3>2 DEF Rewrites
          <5>2. NameCount(dentry', i) = IF i = dentry'[s] THEN NameCount(dentry, i) + 1
                                        ELSE IF i = dentry[s] THEN NameCount(dentry, i) - 1
                                        ELSE NameCount(dentry, i)
            BY <5>1, NameCountUpdate
          <5>3. dentry[s] = None
            BY <3>1
          <5> QED BY <1>w, <3>2, <5>1, <5>2, <5>3
        <4> QED BY <1>0, <3>1, <3>2, <4>1 DEF Covered, Uncounted, Released
      <3> QED BY <3>1, <3>3, <3>4 DEF OpGone
    <2>4. CASE Unlink(s) \/ Rmdir(s)
      <3>1. /\ dentry[s] \in Ino /\ UNCHANGED <<kind, nlink>> /\ op.at = "idle" /\ op'.at = "nlink"
            /\ dentry' = [dentry EXCEPT ![s] = None] /\ op'.ino = dentry[s]
            /\ op'.fn \in {"unlink", "rmdir"}
        BY <2>4 DEF Unlink, Rmdir, BeginRemove, Idle, TypeOK
      <3>2. Named'
        BY <1>0, <3>1 DEF Named, TypeOK
      <3>3. ASSUME NEW i \in Ino PROVE Covered(i)'
        <4>1. NameCount(dentry', i) = IF i = dentry[s] THEN NameCount(dentry, i) - 1
                                                       ELSE NameCount(dentry, i)
          <5>1. dentry'[s] = None /\ Rewrites(dentry, dentry', s)
            BY <1>w, <3>1 DEF Rewrites
          <5>2. NameCount(dentry', i) = IF i = dentry'[s] THEN NameCount(dentry, i) + 1
                                        ELSE IF i = dentry[s] THEN NameCount(dentry, i) - 1
                                        ELSE NameCount(dentry, i)
            BY <5>1, NameCountUpdate
          <5> QED BY <1>w, <5>1, <5>2
        <4>2. nlink[i] \in Int /\ NameCount(dentry, i) \in Int
          BY <1>n DEF TypeOK
        <4> QED BY <1>0, <3>1, <4>1, <4>2 DEF Covered, Uncounted, Released
      <3> QED BY <3>1, <3>2, <3>3 DEF OpGone
    <2>5. ASSUME NEW l \in Ino, Link(l, s)
          PROVE  Named' /\ (\A i \in Ino : Covered(i)') /\ OpGone'
      <3>1. /\ dentry[s] = None /\ dentry' = [dentry EXCEPT ![s] = l] /\ UNCHANGED <<kind, nlink>>
            /\ kind[l] # "none" /\ op.at = "idle"
            /\ op'.at = "nlink" /\ op'.ino = l /\ op'.fn = "link"
        BY <2>5 DEF Link, BeginLink, Linkable, Idle
      <3>2. Named'
        BY <1>0, <3>1 DEF Named, TypeOK
      <3>3. ASSUME NEW i \in Ino PROVE Covered(i)'
        <4>1. NameCount(dentry', i) = IF i = l THEN NameCount(dentry, i) + 1 ELSE NameCount(dentry, i)
          <5>1. dentry'[s] = l /\ Rewrites(dentry, dentry', s)
            BY <1>w, <3>1 DEF Rewrites
          <5>2. NameCount(dentry', i) = IF i = dentry'[s] THEN NameCount(dentry, i) + 1
                                        ELSE IF i = dentry[s] THEN NameCount(dentry, i) - 1
                                        ELSE NameCount(dentry, i)
            BY <5>1, NameCountUpdate
          <5>3. dentry[s] = None
            BY <3>1
          <5> QED BY <1>w, <5>1, <5>2, <5>3
        <4>2. nlink[i] \in Int /\ NameCount(dentry, i) \in Int
          BY <1>n DEF TypeOK
        <4> QED BY <1>0, <3>1, <4>1, <4>2 DEF Covered, Uncounted, Released
      <3> QED BY <3>1, <3>2, <3>3 DEF OpGone
    <2>6. ASSUME NEW t \in Slots, Rename(s, t)
          PROVE  Named' /\ (\A i \in Ino : Covered(i)') /\ OpGone'
      <3> DEFINE i == dentry[s]
                 j == dentry[t]
                 gone == j # None /\ nlink[j] = 1
      <3>1. /\ i \in Ino /\ j \in Ino \cup {None} /\ i # j /\ s # t
            /\ kind[i] # "none" /\ (j # None => kind[j] # "none")
            /\ op.at = "idle" /\ op'.at = "idle"
        BY <2>6, RenameEffect
      <3>2. dentry' = [[dentry EXCEPT ![t] = i] EXCEPT ![s] = None]
        BY <2>6, RenameEffect
      <3>3. \A x \in Ino : NameCount(dentry', x) = NameCount(dentry, x) - Bit(x = j)
        BY <2>6, RenameEffect
      <3>5. /\ kind' = [x \in Ino |-> IF x = j /\ nlink[j] = 1 THEN "none" ELSE kind[x]]
            /\ \A x \in Ino : ~(x = j /\ nlink[j] = 1) /\ kind[x] # "dir" =>
                  nlink'[x] = nlink[x] - Bit(x = j)
        <4>1. kind[s[1]] = "dir" /\ kind[t[1]] = "dir"
          BY <2>6, RenameEffect
        <4>2. /\ kind' = [x \in Ino |-> IF x = j /\ nlink[j] = 1 THEN "none" ELSE kind[x]]
              /\ \A x \in Ino : ~(x = j /\ nlink[j] = 1) =>
                    nlink'[x] = nlink[x] - Bit(x = j)
                                - Bit(kind[i] = "dir" /\ s[1] # t[1] /\ x = s[1])
                                + Bit(kind[i] = "dir" /\ s[1] # t[1] /\ x = t[1])
          BY <2>6, RenameEffect
        <4>3. nlink \in [Ino -> Int]
          BY DEF TypeOK
        <4> QED BY <4>1, <4>2, <4>3 DEF Bit
      <3>6. gone => \A x \in Slots : dentry'[x] # j
        <4> SUFFICES ASSUME gone PROVE \A x \in Slots : dentry'[x] # j
          OBVIOUS
        <4>1. j \in Ino /\ nlink[j] = 1 /\ kind[j] # "none"
          BY <3>1
        <4>2. CASE kind[j] = "dir"
          BY <3>1, <3>2, <4>1, <4>2, <1>w DEF NamesInv, DirNamedOnce
        <4>3. CASE kind[j] # "dir"
          <5>1. kind[j] \in {"file", "symlink"}
            BY <4>1, <4>3 DEF TypeOK, Kinds
          <5>2. nlink[j] \in Int /\ nlink[j] >= NameCount(dentry, j)
            BY <1>0, <1>n, <3>1, <4>1, <5>1 DEF Covered, Uncounted, Released, TypeOK
          <5>3. NameCount(dentry', j) = 0
            BY <1>n, <3>3, <4>1, <5>2 DEF Bit
          <5> QED BY <5>3, NamesFinite
        <4> QED BY <4>2, <4>3
      <3>7. Named'
        <4>1. \A x \in Slots : dentry'[x] # None => dentry'[x] \in Ino /\ kind[dentry'[x]] # "none"
          BY <1>0, <1>w, <3>1, <3>2 DEF Named
        <4> QED BY <1>w, <3>5, <3>6, <4>1 DEF Named
      <3>8. ASSUME NEW x \in Ino PROVE Covered(x)'
        <4>1. nlink[x] \in Int /\ NameCount(dentry, x) \in Int
          BY <1>n DEF TypeOK
        <4>2. kind'[x] \in {"file", "symlink"} =>
                kind[x] \in {"file", "symlink"} /\ nlink'[x] = nlink[x] - Bit(x = j)
          BY <3>5
        <4> QED BY <1>0, <3>1, <3>3, <4>1, <4>2 DEF Covered, Uncounted, Released, Bit
      <3> QED BY <3>1, <3>7, <3>8 DEF OpGone
    <2> QED BY <1>1, <2>1, <2>2, <2>3, <2>4, <2>5, <2>6 DEF Begin
  <1>2. ASSUME NEW i \in Ino, Handle(i)
        PROVE  Named' /\ (\A x \in Ino : Covered(x)') /\ OpGone'
    <2>1. UNCHANGED <<kind, nlink, dentry, op>>
      BY <1>2 DEF Handle, Open, Pwrite, TruncateToZero, Close, db
    <2> QED BY <1>0, <2>1 DEF Named, Covered, OpGone, Uncounted, Released
  <1>3. CASE Continue
    <2>o. ~Idle /\ op.ino \in Ino /\ op.slot \in Slots /\ kind[op.slot[1]] = "dir"
      BY <1>3 DEF Continue, DentryStatement, MkdirNlink, MkdirParent, SymlinkTarget, NodeNlink,
         UnlinkNlink, UnlinkData, UnlinkSymlink, DeleteInode, RmdirNlink, RmdirParent, Idle,
         OpInFlight, ShapeInv, OpKinds
    <2>z. \A i \in Ino : nlink[i] \in Int /\ NameCount(dentry, i) \in Int
      BY <1>n DEF TypeOK
    <2>1. CASE DentryStatement
      <3>1. /\ dentry[op.slot] = None /\ dentry' = [dentry EXCEPT ![op.slot] = op.ino]
            /\ UNCHANGED <<kind, nlink>> /\ op.at = "dentry"
            /\ op'.at = "nlink" /\ op'.fn = op.fn /\ op'.ino = op.ino
            /\ op.fn \in {"mkdir", "mknod", "symlink"}
            /\ op.fn = "mkdir" => kind[op.ino] = "dir"
        BY <2>1, <2>o DEF DentryStatement, CacheInv, OpSlot, ShapeInv, OpKinds, TypeOK
      <3>2. Named'
        <4>1. kind[op.ino] # "none"
          BY <2>o, <3>1 DEF ShapeInv, OpKinds
        <4> QED BY <1>0, <2>o, <3>1, <4>1, <1>w DEF Named
      <3>3. ASSUME NEW i \in Ino PROVE Covered(i)'
        <4>1. NameCount(dentry', i) = IF i = op.ino THEN NameCount(dentry, i) + 1 ELSE NameCount(dentry, i)
          <5>1. dentry'[op.slot] = op.ino /\ Rewrites(dentry, dentry', op.slot)
            BY <1>w, <2>o, <3>1 DEF Rewrites
          <5>2. NameCount(dentry', i) = IF i = dentry'[op.slot] THEN NameCount(dentry, i) + 1
                                        ELSE IF i = dentry[op.slot] THEN NameCount(dentry, i) - 1
                                        ELSE NameCount(dentry, i)
            BY <2>o, <5>1, NameCountUpdate
          <5>3. dentry[op.slot] = None
            BY <3>1
          <5> QED BY <1>w, <5>1, <5>2, <5>3
        <4> QED BY <1>0, <2>z, <3>1, <4>1 DEF Covered, Uncounted, Released
      <3> QED BY <3>1, <3>2, <3>3 DEF OpGone
    <2>2. CASE MkdirNlink
      <3>1. kind[op.ino] = "dir"
        BY <2>2, <2>o DEF MkdirNlink, ShapeInv, OpKinds
      <3>2. ASSUME NEW i \in Ino PROVE Covered(i)'
        BY <1>0, <2>2, <3>1 DEF MkdirNlink, Covered, Uncounted, Released, TypeOK
      <3> QED BY <1>0, <2>2, <3>2 DEF MkdirNlink, Named, OpGone, TypeOK
    <2>3. CASE MkdirParent
      <3>1. ASSUME NEW i \in Ino PROVE Covered(i)'
        BY <1>0, <2>3, <2>o, AddLinksElsewhere
           DEF MkdirParent, Finish, IdleOp, Covered, Uncounted, Released, TypeOK
      <3> QED BY <1>0, <2>3, <3>1 DEF MkdirParent, Finish, IdleOp, Named, OpGone
    <2>4. CASE SymlinkTarget
      BY <1>u, <2>4 DEF SymlinkTarget, TypeOK
    <2>5. CASE NodeNlink
      <3>1. ASSUME NEW i \in Ino PROVE Covered(i)'
        BY <1>0, <2>5, <2>o, <2>z
           DEF NodeNlink, Finish, IdleOp, AddLinks, Exists, Covered, Uncounted, Released, TypeOK
      <3> QED BY <1>0, <2>5, <3>1 DEF NodeNlink, Finish, IdleOp, Named, OpGone
    <2>6. CASE UnlinkNlink
      <3>1. /\ UNCHANGED <<kind, dentry>> /\ op.fn = "unlink" /\ op.at = "nlink"
            /\ kind[op.ino] # "dir"
            /\ nlink' = AddLinks(nlink, op.ino, -1)
            /\ op'.at # "nlink"
            /\ op'.at \in {"data", "symlink", "inode"} => op'.ino = op.ino /\ LinkCount(nlink', op.ino) = 0
        BY <2>6, <2>o DEF UnlinkNlink, IdleOp, ShapeInv, OpKinds, TypeOK
      <3>2. ASSUME NEW i \in Ino PROVE Covered(i)'
        BY <1>0, <2>o, <2>z, <3>1
           DEF AddLinks, Exists, Covered, Uncounted, Released, TypeOK
      <3>3. OpGone'
        <4> SUFFICES ASSUME op'.at \in {"data", "symlink", "inode"}
                     PROVE  NameCount(dentry, op.ino) = 0
          BY <3>1 DEF OpGone
        <4>1. CASE kind[op.ino] = "none"
          <5>1. \A s \in Slots : dentry[s] # op.ino
            BY <1>0, <1>w, <2>o, <4>1 DEF Named
          <5> QED BY <5>1, NamesFinite
        <4>2. CASE kind[op.ino] \in {"file", "symlink"}
          <5>1. nlink'[op.ino] = 0
            BY <3>1, <4>2 DEF LinkCount, Exists
          <5>2. nlink'[op.ino] >= NameCount(dentry, op.ino)
            BY <2>o, <2>z, <3>1, <3>2, <4>2, <5>1 DEF Covered, Uncounted, Released
          <5> QED BY <1>n, <2>o, <5>1, <5>2
        <4> QED BY <2>o, <3>1, <4>1, <4>2 DEF TypeOK, Kinds
      <3> QED BY <1>0, <3>1, <3>2, <3>3 DEF Named
    <2>7. CASE UnlinkData \/ UnlinkSymlink
      BY <1>u, <2>7 DEF UnlinkData, UnlinkSymlink, TypeOK
    <2>8. CASE DeleteInode
      <3>1. /\ UNCHANGED dentry /\ \A x \in Slots : dentry[x] # op.ino
            /\ kind' = [kind EXCEPT ![op.ino] = "none"] /\ nlink' = [nlink EXCEPT ![op.ino] = 0]
            /\ op.at = "inode" /\ op'.at = "idle"
        BY <1>0, <2>8, NamesFinite DEF DeleteInode, OpGone, IdleOp
      <3>2. Named'
        BY <1>0, <2>o, <3>1 DEF Named, TypeOK
      <3>3. ASSUME NEW i \in Ino PROVE Covered(i)'
        BY <1>0, <2>o, <3>1 DEF Covered, Uncounted, Released, TypeOK
      <3> QED BY <3>1, <3>2, <3>3 DEF OpGone
    <2>9. CASE RmdirNlink
      <3>1. /\ UNCHANGED <<kind, dentry>> /\ kind[op.ino] = "dir" /\ op.fn = "rmdir"
            /\ nlink' = AddLinks(nlink, op.ino, -1) /\ op'.at = "parent"
        BY <2>9, <2>o DEF RmdirNlink, ShapeInv, OpKinds, TypeOK
      <3>2. ASSUME NEW i \in Ino PROVE Covered(i)'
        BY <1>0, <2>o, <3>1, AddLinksElsewhere DEF Covered, Uncounted, Released, TypeOK
      <3> QED BY <1>0, <3>1, <3>2 DEF Named, OpGone
    <2>10. CASE RmdirParent
      <3>1. /\ UNCHANGED <<kind, dentry>> /\ Refs(op.ino) = {} /\ op.at = "parent"
            /\ nlink' = AddLinks(nlink, op.slot[1], -1) /\ op'.at # "nlink"
            /\ op'.at \in {"data", "symlink", "inode"} => op'.ino = op.ino
        BY <2>10, <2>o DEF RmdirParent, ShapeInv, OpKinds, TypeOK, IdleOp
      <3>2. ASSUME NEW i \in Ino PROVE Covered(i)'
        BY <1>0, <2>o, <3>1, AddLinksElsewhere DEF Covered, Uncounted, Released, TypeOK
      <3>3. OpGone'
        <4>1. NameCount(dentry, op.ino) = 0
          BY <3>1, NamesFinite DEF Refs
        <4> QED BY <3>1, <4>1 DEF OpGone
      <3> QED BY <1>0, <3>1, <3>2, <3>3 DEF Named
    <2> QED BY <1>3, <2>1, <2>2, <2>3, <2>4, <2>5, <2>6, <2>7, <2>8, <2>9, <2>10 DEF Continue
  <1>4. CASE StatementFails \/ CrashAndReopen
    <2>1. /\ UNCHANGED <<kind, nlink, dentry>> /\ op'.at = "idle"
          /\ op.at = "idle" \/ op.fn \notin Additions
      BY <1>4 DEF StatementFails, CrashAndReopen, CutShort, Idle, IdleOp, db
    <2>2. ASSUME NEW i \in Ino PROVE Covered(i)'
      <3>1. nlink[i] \in Int /\ NameCount(dentry, i) \in Int
        BY <1>n DEF TypeOK
      <3> QED BY <1>0, <2>1, <3>1 DEF Covered, Uncounted, Released, Additions
    <2> QED BY <1>0, <2>1, <2>2 DEF Named, OpGone
  <1>5. CASE UNCHANGED vars
    BY <1>0, <1>5 DEF vars, Named, Covered, OpGone, Uncounted, Released
  <1> QED BY <1>1, <1>2, <1>3, <1>4, <1>5 DEF Next

\* Behind the VFS, and as long as no addition was cut short, every entry names an
\* inode with a row, in every state: also between the statements of unlink,
\* rmdir and rename, and after any number of removals cut short (SPEC.md rule 2).
THEOREM EntriesAlwaysResolve == Guarded = TRUE => (Spec => []EntriesResolve)
PROOF
  <1> SUFFICES ASSUME Guarded = TRUE PROVE Spec => []EntriesResolve
    OBVIOUS
  <1>1. TypeInv /\ CacheInv /\ [Next]_vars => CacheInv'
    BY CacheStep
  <1>2. TypeInv /\ TypeInv' /\ NamesInv /\ CacheInv /\ ShapeInv /\ [Next]_vars => ShapeInv'
    BY ShapeStep DEF TypeInv
  <1>3. TypeInv /\ TypeInv' /\ NamesInv /\ CacheInv /\ ShapeInv /\ CountInv /\ [Next]_vars
            => CountInv'
    BY CountStep DEF TypeInv
  <1>4. TypeInv /\ CountInv => EntriesResolve
    BY DEF TypeInv, TypeOK, CountInv, Named, EntriesResolve, Exists
  <1> QED BY CacheInit, ShapeInit, CountInit, NamesAlways, <1>1, <1>2, <1>3, <1>4, PTL DEF Spec
(***************************************************************************)
(* The tree.  A set is closed when it holds, with a directory, everything  *)
(* it names; an entry is reached from the root when its directory is in    *)
(* every closed set with the root.                                         *)
(***************************************************************************)
ClosedIn(d, S) == \A s \in Slots : d[s] \in (Ino \ S) => s[1] \notin S

Connected(d) ==
    \A S \in SUBSET Ino : ROOT_INO \in S /\ ClosedIn(d, S) =>
        \A s \in Slots : d[s] # None => s[1] \in S

HasPlace(d, p) == p = ROOT_INO \/ \E x \in Slots : d[x] = p

Tables == [Slots -> Ino \cup {None}]

\* A directory with a place is in every closed set with the root.
LEMMA PlaceReached ==
    ASSUME NEW d \in Tables, Connected(d), NEW p \in Ino, HasPlace(d, p),
           NEW S \in SUBSET Ino, ROOT_INO \in S, ClosedIn(d, S)
    PROVE  p \in S
PROOF
  <1>1. CASE p = ROOT_INO
    BY <1>1
  <1>2. ASSUME NEW x \in Slots, d[x] = p PROVE p \in S
    <2>1. x[1] \in S
      BY <1>2 DEF Connected, None, Ino
    <2> QED BY <1>2, <2>1 DEF ClosedIn
  <1> QED BY <1>1, <1>2 DEF HasPlace

\* A new entry in a directory that has a place.
LEMMA ConnectedAdd ==
    ASSUME NEW d \in Tables, NEW e \in Tables, NEW s \in Slots, d[s] = None, HasPlace(d, s[1]),
           \A x \in Slots \ {s} : e[x] = d[x], Connected(d)
    PROVE  Connected(e)
PROOF
  <1> SUFFICES ASSUME NEW S \in SUBSET Ino, ROOT_INO \in S, ClosedIn(e, S), NEW x \in Slots, e[x] # None
               PROVE  x[1] \in S
    BY DEF Connected
  <1>1. ClosedIn(d, S)
    BY DEF ClosedIn, None, Ino
  <1>2. s[1] \in S
    BY <1>1, SlotParent, PlaceReached
  <1> QED BY <1>1, <1>2 DEF Connected

\* An entry goes whose inode has no entries of its own.
LEMMA ConnectedRemove ==
    ASSUME NEW d \in Tables, NEW e \in Tables, NEW s \in Slots, e[s] = None,
           \A x \in Slots \ {s} : e[x] = d[x], \A x \in Slots : x[1] = d[s] => d[x] = None, Connected(d)
    PROVE  Connected(e)
PROOF
  <1> SUFFICES ASSUME NEW S \in SUBSET Ino, ROOT_INO \in S, ClosedIn(e, S), NEW x \in Slots, e[x] # None
               PROVE  x[1] \in S
    BY DEF Connected
  <1> DEFINE U == (S \cup {d[s]}) \cap Ino
  <1>1. ClosedIn(d, U)
    BY DEF ClosedIn, None, Ino, Tables
  <1>2. x[1] \in U
    BY <1>1 DEF Connected
  <1> QED BY <1>2

\* An entry moves, and replaces one without entries of its own.  The caller found a
\* closed set S0 with the inode and without its new parent: the new parent is not
\* below what is moved.
LEMMA ConnectedMove ==
    ASSUME NEW d \in Tables, NEW e \in Tables, NEW s \in Slots, NEW t \in Slots, s # t,
           d[s] \in Ino, e[s] = None, e[t] = d[s], \A x \in Slots \ {s, t} : e[x] = d[x],
           \A x \in Slots : d[t] # None /\ x[1] = d[t] => d[x] = None,
           HasPlace(d, t[1]), Connected(d),
           NEW S0 \in SUBSET Ino, ClosedIn(d, S0), d[s] \in S0, t[1] \notin S0
    PROVE  Connected(e)
PROOF
  <1> SUFFICES ASSUME NEW S \in SUBSET Ino, ROOT_INO \in S, ClosedIn(e, S), NEW x \in Slots, e[x] # None
               PROVE  x[1] \in S
    BY DEF Connected
  <1> DEFINE V == (S \cup {d[t]}) \cap Ino
             U == V \cup S0
  <1>0. None \notin Ino
    BY DEF None, Ino
  <1>1. d[t] # None => t[1] # d[t]
    OBVIOUS
  <1>2. t[1] \in S
    <2>1. ClosedIn(d, U)
      <3> SUFFICES ASSUME NEW y \in Slots, d[y] \in Ino, y[1] \in U PROVE d[y] \in U
        BY DEF ClosedIn
      <3>1. CASE y[1] \in S0
        BY <3>1 DEF ClosedIn
      <3>2. CASE y[1] = d[t]
        BY <1>0, <3>2, SlotParent
      <3>3. CASE y[1] \in S
        BY <3>3 DEF ClosedIn
      <3> QED BY <3>1, <3>2, <3>3
    <2>2. t[1] \in U
      BY <2>1, SlotParent, PlaceReached
    <2> QED BY <1>0, <1>1, <2>2, SlotParent
  <1>3. d[s] \in S
    BY <1>2 DEF ClosedIn
  <1>4. ClosedIn(d, V)
    <2> SUFFICES ASSUME NEW y \in Slots, d[y] \in Ino, y[1] \in V PROVE d[y] \in V
      BY DEF ClosedIn
    <2>1. CASE y[1] = d[t]
      BY <1>0, <2>1, SlotParent
    <2>2. CASE y[1] \in S
      BY <1>3, <2>2 DEF ClosedIn
    <2> QED BY <2>1, <2>2
  <1>5. CASE x = t
    BY <1>2, <1>5
  <1>6. CASE x # t
    <2>1. d[x] # None
      BY <1>6
    <2>2. x[1] \in V
      BY <1>4, <2>1 DEF Connected
    <2> QED BY <1>0, <2>1, <2>2, SlotParent
  <1> QED BY <1>5, <1>6

\* An entry that mkdir, mknod or symlink is about to make goes into a directory
\* that still has its place.
OpParent == op.at \in {"target", "dentry"} => HasPlace(dentry, op.slot[1])

TreeInv == Connected(dentry) /\ OpParent

LEMMA TreeInit == Init => TreeInv
PROOF BY DEF Init, TreeInv, Connected, OpParent, IdleOp

\* The directory that the VFS passes has a place.
LEMMA GuardedPlace ==
    ASSUME Guarded = TRUE, NEW p \in Ino, CallerDir(p)
    PROVE  HasPlace(dentry, p)
PROOF BY DEF CallerDir, HasPlace, Refs

\* Behind the VFS no statement, cut or not, takes an entry out of the tree.
LEMMA TreeStep ==
    TypeInv /\ TypeOK' /\ NamesInv /\ CacheInv /\ ShapeInv /\ Guarded = TRUE /\ TreeInv
        /\ [Next]_vars => TreeInv'
PROOF
  <1> SUFFICES ASSUME TypeOK, OpInFlight, TypeOK', NamesInv, CacheInv, ShapeInv, Guarded = TRUE,
                      TreeInv, [Next]_vars
               PROVE  TreeInv'
    BY DEF TypeInv
  <1>0. dentry \in Tables /\ dentry' \in Tables /\ None \notin Ino /\ Connected(dentry)
    BY DEF TypeOK, Tables, None, Ino, TreeInv
  <1>1. ASSUME UNCHANGED dentry, op'.at \in {"target", "dentry"} => HasPlace(dentry, op'.slot[1])
        PROVE  TreeInv'
    BY <1>0, <1>1 DEF TreeInv, OpParent
  <1>2. ASSUME NEW s \in Slots, Begin(s) PROVE TreeInv'
    <2>1. CASE Lookup(s)
      BY <1>1, <2>1 DEF Lookup, Idle, db
    <2>2. CASE Mkdir(s) \/ Mknod(s) \/ Symlink(s)
      <3>1. HasPlace(dentry, s[1])
        BY <2>2, SlotParent, GuardedPlace DEF Mkdir, Mknod, Symlink
      <3>2. UNCHANGED dentry /\ op'.slot = s
        BY <2>2 DEF Mkdir, Mknod, Symlink, BeginCreate
      <3> QED BY <1>1, <3>1, <3>2
    <2>3. CASE CreateFile(s)
      <3>1. /\ HasPlace(dentry, s[1]) /\ dentry[s] = None /\ op'.at = "idle"
            /\ dentry' = [dentry EXCEPT ![s] = NewIno]
        BY <2>3, SlotParent, GuardedPlace DEF CreateFile, InsertFile, Idle
      <3>2. \A x \in Slots \ {s} : dentry'[x] = dentry[x]
        BY <1>0, <3>1 DEF Tables
      <3> QED BY <1>0, <3>1, <3>2, ConnectedAdd DEF TreeInv, OpParent
    <2>4. ASSUME NEW i \in Ino, Link(i, s) PROVE TreeInv'
      <3>1. /\ HasPlace(dentry, s[1]) /\ dentry[s] = None /\ op'.at = "nlink"
            /\ dentry' = [dentry EXCEPT ![s] = i]
        BY <2>4, SlotParent, GuardedPlace DEF Link, BeginLink
      <3>2. \A x \in Slots \ {s} : dentry'[x] = dentry[x]
        BY <1>0, <3>1 DEF Tables
      <3> QED BY <1>0, <3>1, <3>2, ConnectedAdd DEF TreeInv, OpParent
    <2>5. CASE Unlink(s) \/ Rmdir(s)
      <3>1. /\ dentry' = [dentry EXCEPT ![s] = None] /\ op'.at = "nlink" /\ dentry[s] \in Ino
            /\ kind[dentry[s]] = "dir" => IsEmpty(dentry[s])
        BY <1>0, <2>5 DEF Unlink, Rmdir, BeginRemove, Tables
      <3>2. \A x \in Slots : x[1] = dentry[s] => dentry[x] = None
        BY <3>1, EmptyDirectory DEF ShapeInv, ParentsAreDirs
      <3>3. dentry'[s] = None /\ \A x \in Slots \ {s} : dentry'[x] = dentry[x]
        BY <1>0, <3>1 DEF Tables
      <3> QED BY <1>0, <3>1, <3>2, <3>3, ConnectedRemove DEF TreeInv, OpParent
    <2>6. ASSUME NEW t \in Slots, Rename(s, t) PROVE TreeInv'
      <3>1. /\ dentry[s] \in Ino /\ s # t /\ op'.at = "idle" /\ CallerDir(t[1])
            /\ kind[t[1]] = "dir"
            /\ kind[dentry[s]] = "dir" => ~Below(dentry[s], t[1])
            /\ dentry[t] # None /\ kind[dentry[t]] = "dir" => IsEmpty(dentry[t])
        BY <1>0, <2>6, SlotParent, GuardedParent
           DEF Rename, RenameTxn, CallerRename, Replaceable, Idle, Tables
      <3>2. dentry' = [[dentry EXCEPT ![t] = dentry[s]] EXCEPT ![s] = None]
        BY <1>0, <2>6, <3>1 DEF Rename, RenameTxn, MoveEntry, Tables
      <3>3. /\ dentry'[s] = None /\ dentry'[t] = dentry[s]
            /\ \A x \in Slots \ {s, t} : dentry'[x] = dentry[x]
        BY <1>0, <3>1, <3>2 DEF Tables
      <3>4. \A x \in Slots : dentry[t] # None /\ x[1] = dentry[t] => dentry[x] = None
        BY <1>0, <3>1, EmptyDirectory DEF ShapeInv, ParentsAreDirs, Tables
      <3>5. \E S0 \in SUBSET Ino : ClosedIn(dentry, S0) /\ dentry[s] \in S0 /\ t[1] \notin S0
        <4>1. CASE kind[dentry[s]] = "dir"
          BY <3>1, <4>1 DEF Below, Closed, ClosedIn
        <4>2. CASE kind[dentry[s]] # "dir"
          <5>1. ClosedIn(dentry, {dentry[s]})
            BY <1>0, <4>2 DEF ClosedIn, ShapeInv, ParentsAreDirs
          <5> QED BY <3>1, <4>2, <5>1
        <4> QED BY <4>1, <4>2
      <3>6. HasPlace(dentry, t[1])
        BY <3>1, SlotParent, GuardedPlace
      <3>7. Connected(dentry')
        BY <1>0, <3>1, <3>3, <3>4, <3>5, <3>6, ConnectedMove
      <3> QED BY <3>1, <3>7 DEF TreeInv, OpParent
    <2> QED BY <1>2, <2>1, <2>2, <2>3, <2>4, <2>5, <2>6 DEF Begin
  <1>3. ASSUME NEW i \in Ino, Handle(i) PROVE TreeInv'
    BY <1>1, <1>3 DEF Handle, Open, Pwrite, TruncateToZero, Close, db, TreeInv, OpParent
  <1>4. CASE DentryStatement
    <2>1. /\ op.at = "dentry" /\ op.slot \in Slots /\ dentry[op.slot] = None
          /\ dentry' = [dentry EXCEPT ![op.slot] = op.ino]
          /\ HasPlace(dentry, op.slot[1]) /\ op'.at = "nlink"
      BY <1>4 DEF DentryStatement, OpInFlight, Idle, CacheInv, OpSlot, TreeInv, OpParent, TypeOK
    <2>2. \A x \in Slots \ {op.slot} : dentry'[x] = dentry[x]
      BY <1>0, <2>1 DEF Tables
    <2> QED BY <1>0, <2>1, <2>2, ConnectedAdd DEF TreeInv, OpParent
  <1>5. CASE SymlinkTarget
    BY <1>1, <1>5 DEF SymlinkTarget, TreeInv, OpParent, TypeOK
  <1>6. CASE Continue /\ ~DentryStatement /\ ~SymlinkTarget
    <2>1. UNCHANGED dentry /\ op'.at \notin {"target", "dentry"}
      BY <1>6 DEF Continue, MkdirNlink, MkdirParent, NodeNlink, UnlinkNlink, UnlinkData,
         UnlinkSymlink, DeleteInode, RmdirNlink, RmdirParent, Finish, IdleOp, TypeOK
    <2> QED BY <1>1, <2>1
  <1>7. CASE StatementFails \/ CrashAndReopen
    BY <1>1, <1>7 DEF StatementFails, CrashAndReopen, CutShort, Idle, IdleOp, db
  <1>8. CASE UNCHANGED vars
    BY <1>1, <1>8 DEF vars, TreeInv, OpParent
  <1> QED BY <1>2, <1>3, <1>4, <1>5, <1>6, <1>7, <1>8 DEF Next

\* Behind the VFS, every entry is in a directory that can be reached from the root,
\* in every state: also between the statements of an operation, and after any
\* number of operations cut short (SPEC.md rule 3).
THEOREM TreeStaysConnected == Guarded = TRUE => (Spec => []TreeConnected)
PROOF
  <1> SUFFICES ASSUME Guarded = TRUE PROVE Spec => []TreeConnected
    OBVIOUS
  <1>1. TypeInv /\ CacheInv /\ [Next]_vars => CacheInv'
    BY CacheStep
  <1>2. TypeInv /\ TypeInv' /\ NamesInv /\ CacheInv /\ ShapeInv /\ [Next]_vars => ShapeInv'
    BY ShapeStep DEF TypeInv
  <1>3. TypeInv /\ TypeInv' /\ NamesInv /\ CacheInv /\ ShapeInv /\ TreeInv /\ [Next]_vars => TreeInv'
    BY TreeStep DEF TypeInv
  <1>4. ShapeInv /\ TreeInv => TreeConnected
    BY DEF ShapeInv, ParentsAreDirs, TreeInv, Connected, ClosedIn, Closed, TreeConnected
  <1> QED BY CacheInit, ShapeInit, TreeInit, NamesAlways, <1>1, <1>2, <1>3, <1>4, PTL DEF Spec
(***************************************************************************)
(* The invariant behind LinksRight, as long as nothing was cut short: the  *)
(* count of a file or symlink is the number of its names, up to the name   *)
(* that the operation in progress has written and not yet counted; and an  *)
(* inode without a name is the one that this operation makes or deletes.   *)
(***************************************************************************)
InTransit(i) ==
    op.at # "idle" /\ op.ino = i /\ (op.at \in {"target", "dentry"} \/ op.fn = "unlink")

Exact(i) ==
    kind[i] \in {"file", "symlink"} =>
        /\ nlink[i] + Uncounted(i) = NameCount(dentry, i) + Released(i)
        /\ NameCount(dentry, i) > 0 \/ InTransit(i)

ExactInv == torn = {} => \A i \in Ino : Exact(i)

LEMMA ExactInit == Init => ExactInv
PROOF BY ConstantsAssumption DEF Init, ExactInv, Exact, Ino, ROOT_INO

\* The record of cut operations only grows.
LEMMA TornGrows == [Next]_vars => torn \subseteq torn'
PROOF BY DEF Next, Begin, Lookup, Mkdir, Mknod, Symlink, BeginCreate, CreateFile, InsertFile, Unlink,
          Rmdir, BeginRemove, Link, BeginLink, Rename, RenameTxn, Handle, Open, Pwrite,
          TruncateToZero, Close, Continue, DentryStatement, MkdirNlink, MkdirParent, SymlinkTarget,
          NodeNlink, UnlinkNlink, UnlinkData, UnlinkSymlink, DeleteInode, RmdirNlink, RmdirParent,
          StatementFails, CrashAndReopen, CutShort, db, vars

\* A new inode, which no entry names.
LEMMA InsertInodeCounts ==
    ASSUME TypeOK, NamesInv, NEW k \in Kinds, NEW n \in Int, InsertInode(k, n)
    PROVE  /\ NewIno \in Ino /\ kind[NewIno] = "none" /\ kind'[NewIno] = k /\ nlink'[NewIno] = n
           /\ NameCount(dentry, NewIno) = 0
           /\ \A x \in Ino \ {NewIno} : kind'[x] = kind[x] /\ nlink'[x] = nlink[x]
           /\ \A s \in Slots : dentry[s] # NewIno
PROOF
  <1>1. NewIno \in Ino /\ Refs(NewIno) = {}
    BY InsertInodeNames
  <1>2. NameCount(dentry, NewIno) = 0 /\ \A s \in Slots : dentry[s] # NewIno
    BY <1>1, NamesFinite DEF Refs
  <1>3. kind[NewIno] = "none"
    BY <1>1 DEF NamesInv, FreshUnused, NewIno, Ino, TypeOK
  <1> QED BY <1>1, <1>2, <1>3 DEF InsertInode, TypeOK

\* Behind the VFS, until an operation is cut short, every statement keeps the count
\* of a file at its number of names.
LEMMA ExactStep ==
    TypeInv /\ TypeOK' /\ NamesInv /\ CacheInv /\ ShapeInv /\ Guarded = TRUE /\ ExactInv
        /\ [Next]_vars => ExactInv'
PROOF
  <1> SUFFICES ASSUME TypeOK, OpInFlight, TypeOK', NamesInv, CacheInv, ShapeInv, Guarded = TRUE,
                      ExactInv, [Next]_vars, torn' = {}, NEW i \in Ino
               PROVE  Exact(i)'
    BY DEF TypeInv, ExactInv
  <1> USE SlotParent
  <1>0. Exact(i) /\ torn = {}
    BY TornGrows DEF ExactInv
  <1>n. /\ NameCount(dentry, i) \in Nat /\ NameCount(dentry', i) \in Nat
        /\ nlink[i] \in Int /\ nlink'[i] \in Int
    BY NamesFinite DEF TypeOK
  <1>w. None \notin Ino /\ dentry \in [Slots -> Ino \cup {None}]
    BY DEF None, Ino, TypeOK
  \* The count, the names and the operation's part in them stay.
  <1>u. ASSUME kind'[i] = kind[i], nlink'[i] = nlink[i], UNCHANGED dentry,
               op.at # "nlink" \/ op.fn \in {"mkdir", "rmdir"}, op'.at # "nlink" \/ op'.fn \in {"mkdir", "rmdir"},
               InTransit(i) => InTransit(i)'
        PROVE  Exact(i)'
    BY <1>0, <1>u DEF Exact, Uncounted, Released
  <1>c. ASSUME NEW k \in Kinds, NEW s \in Slots, NEW fn, NEW at \in {"target", "dentry"}, BeginCreate(fn, at, k, s)
        PROVE  Exact(i)'
    <2>1. /\ InsertInode(k, 0) /\ UNCHANGED dentry /\ op.at = "idle"
          /\ op'.at = at /\ op'.ino = NewIno
      BY <1>c DEF BeginCreate, Idle
    <2>2. CASE i = NewIno
      BY <2>1, <2>2, InsertInodeCounts DEF Exact, Uncounted, Released, InTransit
    <2>3. CASE i # NewIno
      <3>1. kind'[i] = kind[i] /\ nlink'[i] = nlink[i] /\ ~InTransit(i)
        BY <2>1, <2>3, InsertInodeCounts DEF InTransit
      <3> QED BY <1>u, <2>1, <3>1
    <2> QED BY <2>2, <2>3
  <1>1. ASSUME NEW s \in Slots, Begin(s) PROVE Exact(i)'
    <2>1. CASE Lookup(s)
      BY <1>u, <2>1 DEF Lookup, Idle, db, InTransit
    <2>2. CASE Mkdir(s) \/ Mknod(s) \/ Symlink(s)
      BY <1>c, <2>2 DEF Mkdir, Mknod, Symlink, Kinds
    <2>3. CASE CreateFile(s)
      <3>1. /\ InsertInode("file", 1) /\ dentry[s] = None /\ dentry' = [dentry EXCEPT ![s] = NewIno]
            /\ op.at = "idle" /\ op' = op
        BY <2>3 DEF CreateFile, InsertFile, Idle
      <3>2. /\ NewIno \in Ino /\ kind'[NewIno] = "file" /\ nlink'[NewIno] = 1
            /\ NameCount(dentry, NewIno) = 0
            /\ \A x \in Ino \ {NewIno} : kind'[x] = kind[x] /\ nlink'[x] = nlink[x]
        BY <3>1, InsertInodeCounts DEF Kinds
      <3>3. NameCount(dentry', i) = NameCount(dentry, i) + Bit(i = NewIno) - Bit(i = dentry[s])
        <4>1. dentry'[s] = NewIno /\ Rewrites(dentry, dentry', s)
          BY <1>w, <3>1, <3>2 DEF Rewrites
        <4>2. NameCount(dentry', i) = NameCount(dentry, i) + Bit(i = dentry'[s]) - Bit(i = dentry[s])
          BY <4>1, NameCountWrite
        <4> QED BY <4>1, <4>2
      <3> QED BY <1>0, <1>n, <1>w, <3>1, <3>2, <3>3 DEF Exact, Uncounted, Released, InTransit, Bit
    <2>4. CASE Unlink(s) \/ Rmdir(s)
      <3>1. /\ dentry[s] \in Ino /\ UNCHANGED <<kind, nlink>> /\ op.at = "idle" /\ op'.at = "nlink"
            /\ dentry' = [dentry EXCEPT ![s] = None] /\ op'.ino = dentry[s]
            /\ op'.fn = "unlink" \/ (op'.fn = "rmdir" /\ kind[dentry[s]] = "dir")
        BY <1>w, <2>4 DEF Unlink, Rmdir, BeginRemove, Idle
      <3>2. NameCount(dentry', i) = NameCount(dentry, i) + Bit(i = None) - Bit(i = dentry[s])
        <4>1. dentry'[s] = None /\ Rewrites(dentry, dentry', s)
          BY <1>w, <3>1 DEF Rewrites
        <4>2. NameCount(dentry', i) = NameCount(dentry, i) + Bit(i = dentry'[s]) - Bit(i = dentry[s])
          BY <4>1, NameCountWrite
        <4> QED BY <4>1, <4>2
      <3> QED BY <1>0, <1>n, <1>w, <3>1, <3>2 DEF Exact, Uncounted, Released, InTransit, Bit
    <2>5. ASSUME NEW l \in Ino, Link(l, s) PROVE Exact(i)'
      <3>1. /\ dentry[s] = None /\ dentry' = [dentry EXCEPT ![s] = l] /\ UNCHANGED <<kind, nlink>>
            /\ op.at = "idle" /\ op'.at = "nlink" /\ op'.ino = l /\ op'.fn = "link"
        BY <2>5 DEF Link, BeginLink, Idle
      <3>2. NameCount(dentry', i) = NameCount(dentry, i) + Bit(i = l) - Bit(i = dentry[s])
        <4>1. dentry'[s] = l /\ Rewrites(dentry, dentry', s)
          BY <1>w, <3>1 DEF Rewrites
        <4>2. NameCount(dentry', i) = NameCount(dentry, i) + Bit(i = dentry'[s]) - Bit(i = dentry[s])
          BY <4>1, NameCountWrite
        <4> QED BY <4>1, <4>2
      <3> QED BY <1>0, <1>n, <1>w, <3>1, <3>2 DEF Exact, Uncounted, Released, InTransit, Bit
    <2>6. ASSUME NEW t \in Slots, Rename(s, t) PROVE Exact(i)'
      <3> DEFINE j == dentry[t]
      <3>1. /\ op.at = "idle" /\ op' = op /\ kind[s[1]] = "dir" /\ kind[t[1]] = "dir"
            /\ NameCount(dentry', i) = NameCount(dentry, i) - Bit(i = j)
        BY <2>6, RenameEffect
      <3>2. /\ kind' = [x \in Ino |-> IF x = j /\ nlink[j] = 1 THEN "none" ELSE kind[x]]
            /\ ~(i = j /\ nlink[j] = 1) =>
                  nlink'[i] = nlink[i] - Bit(i = j)
                              - Bit(kind[dentry[s]] = "dir" /\ s[1] # t[1] /\ i = s[1])
                              + Bit(kind[dentry[s]] = "dir" /\ s[1] # t[1] /\ i = t[1])
        BY <2>6, RenameEffect
      <3>3. kind'[i] \in {"file", "symlink"} =>
                /\ kind[i] \in {"file", "symlink"} /\ ~(i = j /\ nlink[i] = 1)
                /\ nlink'[i] = nlink[i] - Bit(i = j)
        BY <1>n, <3>1, <3>2 DEF Bit
      <3> HIDE DEF j
      <3> QED BY <1>0, <1>n, <3>1, <3>3 DEF Exact, Uncounted, Released, InTransit, Bit
    <2> QED BY <1>1, <2>1, <2>2, <2>3, <2>4, <2>5, <2>6 DEF Begin
  <1>2. ASSUME NEW x \in Ino, Handle(x) PROVE Exact(i)'
    <2>1. UNCHANGED <<kind, nlink, dentry, op>>
      BY <1>2 DEF Handle, Open, Pwrite, TruncateToZero, Close, db
    <2> QED BY <1>0, <2>1 DEF Exact, Uncounted, Released, InTransit
  <1>3. CASE Continue
    <2>o. ~Idle /\ op.ino \in Ino /\ op.slot \in Slots /\ kind[op.slot[1]] = "dir"
      BY <1>3 DEF Continue, DentryStatement, MkdirNlink, MkdirParent, SymlinkTarget, NodeNlink,
         UnlinkNlink, UnlinkData, UnlinkSymlink, DeleteInode, RmdirNlink, RmdirParent, Idle,
         OpInFlight, ShapeInv, OpKinds
    <2>1. CASE DentryStatement
      <3>1. /\ dentry[op.slot] = None /\ dentry' = [dentry EXCEPT ![op.slot] = op.ino]
            /\ UNCHANGED <<kind, nlink>> /\ op.at = "dentry"
            /\ op'.at = "nlink" /\ op'.fn = op.fn /\ op'.ino = op.ino
            /\ op.fn \in {"mkdir", "mknod", "symlink"}
            /\ op.fn = "mkdir" => kind[op.ino] = "dir"
        BY <2>1, <2>o DEF DentryStatement, CacheInv, OpSlot, ShapeInv, OpKinds, TypeOK
      <3>2. NameCount(dentry', i) = NameCount(dentry, i) + Bit(i = op.ino) - Bit(i = dentry[op.slot])
        <4>1. dentry'[op.slot] = op.ino /\ Rewrites(dentry, dentry', op.slot)
          BY <1>w, <2>o, <3>1 DEF Rewrites
        <4>2. NameCount(dentry', i) = NameCount(dentry, i) + Bit(i = dentry'[op.slot]) - Bit(i = dentry[op.slot])
          BY <4>1, <2>o, NameCountWrite
        <4> QED BY <4>1, <4>2
      <3> QED BY <1>0, <1>n, <1>w, <3>1, <3>2 DEF Exact, Uncounted, Released, InTransit, Bit
    <2>2. CASE MkdirNlink
      <3>1. CASE i = op.ino
        BY <2>2, <2>o, <3>1 DEF MkdirNlink, ShapeInv, OpKinds, Exact
      <3>2. CASE i # op.ino
        BY <1>u, <2>2, <2>o, <3>2 DEF MkdirNlink, TypeOK, InTransit
      <3> QED BY <3>1, <3>2
    <2>3. CASE MkdirParent \/ RmdirParent
      <3>1. CASE i = op.slot[1]
        BY <2>3, <2>o, <3>1 DEF MkdirParent, RmdirParent, Exact
      <3>2. CASE i # op.slot[1]
        <4>1. nlink'[i] = nlink[i] /\ UNCHANGED <<kind, dentry>>
          <5>1. nlink' = AddLinks(nlink, op.slot[1], 1) \/ nlink' = AddLinks(nlink, op.slot[1], -1)
            BY <2>3 DEF MkdirParent, RmdirParent
          <5>2. nlink'[i] = nlink[i]
            BY <2>o, <3>2, <5>1, AddLinksElsewhere DEF TypeOK
          <5> QED BY <2>3, <5>2 DEF MkdirParent, RmdirParent
        <4>2. op.at = "parent" /\ op'.at # "nlink" /\ ~InTransit(i)
          BY <2>3 DEF MkdirParent, RmdirParent, Finish, IdleOp, TypeOK, InTransit
        <4> QED BY <1>u, <4>1, <4>2
      <3> QED BY <3>1, <3>2
    <2>4. CASE SymlinkTarget
      BY <1>u, <2>4 DEF SymlinkTarget, TypeOK, InTransit
    <2>5. CASE NodeNlink
      <3>1. /\ UNCHANGED <<kind, dentry>> /\ op'.at = "idle" /\ op.at = "nlink"
            /\ op.fn \in {"mknod", "symlink", "link"} /\ nlink' = AddLinks(nlink, op.ino, 1)
        BY <2>5 DEF NodeNlink, Finish, IdleOp
      <3>2. kind[i] # "none" => nlink'[i] = nlink[i] + Bit(i = op.ino)
        BY <1>n, <2>o, <3>1 DEF AddLinks, Exists, Bit, TypeOK
      <3> QED BY <1>0, <1>n, <3>1, <3>2 DEF Exact, Uncounted, Released, InTransit, Bit
    <2>6. CASE UnlinkNlink
      <3>1. /\ UNCHANGED <<kind, dentry>> /\ op.fn = "unlink" /\ op.at = "nlink"
            /\ nlink' = AddLinks(nlink, op.ino, -1)
            /\ op'.at # "nlink"
            /\ op'.at = "idle" => LinkCount(nlink', op.ino) # 0
            /\ op'.at # "idle" => op'.ino = op.ino /\ op'.fn = "unlink"
        BY <2>6, <2>o DEF UnlinkNlink, IdleOp, TypeOK
      <3>2. kind[i] # "none" => nlink'[i] = nlink[i] - Bit(i = op.ino)
        BY <1>n, <2>o, <3>1 DEF AddLinks, Exists, Bit, TypeOK
      <3>3. i = op.ino /\ kind[i] # "none" /\ op'.at = "idle" => nlink'[i] # 0
        BY <3>1 DEF LinkCount, Exists
      <3>4. /\ Uncounted(i)' = 0 /\ Released(i)' = 0 /\ Uncounted(i) = 0 /\ Released(i) = Bit(i = op.ino)
            /\ (InTransit(i) => i = op.ino) /\ (i = op.ino /\ op'.at # "idle" => InTransit(i)')
        BY <3>1 DEF Uncounted, Released, InTransit, Bit
      <3>5. CASE i = op.ino
        BY <1>0, <1>n, <3>1, <3>2, <3>3, <3>4, <3>5 DEF Exact, Bit
      <3>6. CASE i # op.ino
        BY <1>0, <1>n, <3>1, <3>2, <3>4, <3>6 DEF Exact, Bit
      <3> QED BY <3>5, <3>6
    <2>7. CASE UnlinkData \/ UnlinkSymlink
      BY <1>u, <2>7 DEF UnlinkData, UnlinkSymlink, TypeOK, InTransit
    <2>8. CASE DeleteInode
      <3>1. CASE i = op.ino
        BY <2>8, <2>o, <3>1 DEF DeleteInode, Exact, TypeOK
      <3>2. CASE i # op.ino
        BY <1>u, <2>8, <2>o, <3>2 DEF DeleteInode, TypeOK, IdleOp, InTransit
      <3> QED BY <3>1, <3>2
    <2>9. CASE RmdirNlink
      <3>1. /\ UNCHANGED <<kind, dentry>> /\ kind[op.ino] = "dir" /\ op.fn = "rmdir" /\ op.at = "nlink"
            /\ nlink' = AddLinks(nlink, op.ino, -1) /\ op'.at = "parent"
        BY <2>9, <2>o DEF RmdirNlink, ShapeInv, OpKinds, TypeOK
      <3>2. CASE i = op.ino
        BY <3>1, <3>2 DEF Exact
      <3>3. CASE i # op.ino
        <4>1. nlink'[i] = nlink[i]
          BY <2>o, <3>1, <3>3, AddLinksElsewhere DEF TypeOK
        <4> QED BY <1>u, <3>1, <3>3, <4>1 DEF InTransit
      <3> QED BY <3>2, <3>3
    <2> QED BY <1>3, <2>1, <2>2, <2>3, <2>4, <2>5, <2>6, <2>7, <2>8, <2>9 DEF Continue
  <1>4. CASE StatementFails \/ CrashAndReopen
    <2>1. UNCHANGED <<kind, nlink, dentry, op>> /\ op.at = "idle"
      BY <1>4 DEF StatementFails, CrashAndReopen, CutShort, Idle, db
    <2> QED BY <1>0, <2>1 DEF Exact, Uncounted, Released, InTransit
  <1>5. CASE UNCHANGED vars
    BY <1>0, <1>5 DEF vars, Exact, Uncounted, Released, InTransit
  <1> QED BY <1>1, <1>2, <1>3, <1>4, <1>5 DEF Next
(***************************************************************************)
(* Directories: the ".." links.                                            *)
(***************************************************************************)
NamesDir(k, x) == x # None /\ k[x] = "dir"
SubdirCount(k, d, i) == Cardinality({s \in Slots : s[1] = i /\ NamesDir(k, d[s])})

LEMMA SubdirsFinite == \A k, d, i : SubdirCount(k, d, i) \in Nat
PROOF
  <1> SUFFICES ASSUME NEW k, NEW d, NEW i PROVE SubdirCount(k, d, i) \in Nat
    OBVIOUS
  <1>1. IsFiniteSet({s \in Slots : s[1] = i /\ NamesDir(k, d[s])})
    BY SlotsFinite, FS_Subset
  <1> QED BY <1>1, FS_CardinalityType DEF SubdirCount

\* One row of fs_dentry written: its parent gains or loses a subdirectory.
LEMMA SubdirWrite ==
    ASSUME NEW k, NEW d, NEW e, NEW s \in Slots, Rewrites(d, e, s), NEW i
    PROVE  SubdirCount(k, e, i) = SubdirCount(k, d, i) + Bit(s[1] = i /\ NamesDir(k, e[s]))
                                                       - Bit(s[1] = i /\ NamesDir(k, d[s]))
PROOF
  <1> DEFINE D == {x \in Slots : x[1] = i /\ NamesDir(k, d[x])}
             E == {x \in Slots : x[1] = i /\ NamesDir(k, e[x])}
             new == s[1] = i /\ NamesDir(k, e[s])
             old == s[1] = i /\ NamesDir(k, d[s])
  <1>0. SubdirCount(k, d, i) = Cardinality(D) /\ SubdirCount(k, e, i) = Cardinality(E)
    BY DEF SubdirCount
  <1>1. IsFiniteSet(D) /\ Cardinality(D) \in Nat
    <2>1. D \in SUBSET Slots
      OBVIOUS
    <2> HIDE DEF D
    <2> QED BY <2>1, SlotsFinite, FS_Subset, FS_CardinalityType
  <1>2. \A x \in Slots : x # s => e[x] = d[x]
    BY DEF Rewrites
  <1>3. CASE new <=> old
    <2>1. E = D
      BY <1>2, <1>3
    <2> HIDE DEF D, E, new, old
    <2> QED BY <1>0, <1>1, <1>3, <2>1 DEF Bit, new, old
  <1>4. CASE new /\ ~old
    <2>1. E = D \cup {s} /\ s \notin D
      BY <1>2, <1>4
    <2>2. Cardinality(E) = Cardinality(D) + 1
      BY <1>1, <2>1, FS_AddElement
    <2> HIDE DEF D, E
    <2> QED BY <1>0, <1>1, <1>4, <2>2 DEF Bit
  <1>5. CASE ~new /\ old
    <2>1. E = D \ {s} /\ s \in D
      BY <1>2, <1>5
    <2>2. Cardinality(E) = Cardinality(D) - 1
      BY <1>1, <2>1, FS_RemoveElement
    <2> HIDE DEF D, E
    <2> QED BY <1>0, <1>1, <1>5, <2>2 DEF Bit
  <1> QED BY <1>3, <1>4, <1>5

\* Rows of inodes that go, or that no entry names, make no subdirectory.
LEMMA SubdirFewer ==
    ASSUME NEW k, NEW k2, NEW d, NEW i, \A s \in Slots : NamesDir(k2, d[s]) => NamesDir(k, d[s])
    PROVE  SubdirCount(k2, d, i) <= SubdirCount(k, d, i)
PROOF
  <1> DEFINE D == {s \in Slots : s[1] = i /\ NamesDir(k, d[s])}
             E == {s \in Slots : s[1] = i /\ NamesDir(k2, d[s])}
  <1>1. SubdirCount(k, d, i) = Cardinality(D) /\ SubdirCount(k2, d, i) = Cardinality(E)
    BY DEF SubdirCount
  <1>2. D \in SUBSET Slots /\ E \in SUBSET D
    OBVIOUS
  <1> HIDE DEF D, E
  <1>3. IsFiniteSet(D)
    BY <1>2, SlotsFinite, FS_Subset
  <1> QED BY <1>1, <1>2, <1>3, FS_Subset

\* mkdir makes an empty directory, in another one; mknod and symlink make none.
OpNew ==
    op.at # "idle" =>
        /\ op.fn = "mkdir" => op.slot[1] # op.ino /\ \A s \in Slots : s[1] = op.ino => dentry[s] = None
        /\ op.fn \in {"mknod", "symlink"} => kind[op.ino] # "dir"

\* A parent lacks the link of the subdirectory that mkdir has written, and still
\* has the one of the subdirectory that rmdir has deleted.
Owed(i) == Bit(op.fn = "mkdir" /\ op.at \in {"nlink", "parent"} /\ op.slot[1] = i)
Ahead(i) == Bit(op.fn = "rmdir" /\ op.at \in {"nlink", "parent"} /\ op.slot[1] = i)

\* The directory that mkdir has written and not yet given its links.
Unfinished(i) == op.fn = "mkdir" /\ op.at = "nlink" /\ op.ino = i

DirCover(i) ==
    kind[i] = "dir" /\ (i = ROOT_INO \/ NameCount(dentry, i) > 0) /\ ~Unfinished(i) =>
        nlink[i] + Owed(i) >= 2 + SubdirCount(kind, dentry, i) + Ahead(i)

DirInv == OpNew /\ (torn = {} => \A i \in Ino : DirCover(i))

LEMMA DirInit == Init => DirInv
PROOF
  <1> SUFFICES ASSUME Init PROVE DirInv
    OBVIOUS
  <1>1. ASSUME NEW i \in Ino PROVE SubdirCount(kind, dentry, i) = 0
    <2>1. {s \in Slots : s[1] = i /\ NamesDir(kind, dentry[s])} = {}
      BY DEF Init, NamesDir
    <2> QED BY <2>1, FS_EmptySet DEF SubdirCount
  <1>2. ASSUME NEW i \in Ino, kind[i] = "dir" PROVE nlink[i] = 2
    BY <1>2 DEF Init
  <1> QED BY <1>1, <1>2 DEF Init, DirInv, OpNew, DirCover, Owed, Ahead, Unfinished, Bit, IdleOp

LEMMA OpNewStep ==
    TypeInv /\ TypeOK' /\ NamesInv /\ ShapeInv /\ Guarded = TRUE /\ OpNew /\ [Next]_vars => OpNew'
PROOF
  <1> SUFFICES ASSUME TypeOK, OpInFlight, TypeOK', NamesInv, ShapeInv, Guarded = TRUE, OpNew, [Next]_vars
               PROVE  OpNew'
    BY DEF TypeInv
  <1> USE SlotParent
  <1>u. ASSUME UNCHANGED <<kind, dentry>>, op'.at = "idle" \/ (op'.fn = op.fn /\ op'.ino = op.ino /\ op'.slot = op.slot /\ op.at # "idle")
        PROVE  OpNew'
    BY <1>u DEF OpNew
  <1>1. ASSUME NEW s \in Slots, Begin(s) PROVE OpNew'
    <2>1. CASE Mkdir(s)
      <3>1. /\ InsertInode("dir", 0) /\ UNCHANGED dentry /\ kind[s[1]] = "dir"
            /\ op' = [fn |-> "mkdir", at |-> "dentry", ino |-> NewIno, slot |-> s]
        BY <2>1, GuardedParent DEF Mkdir, BeginCreate
      <3>2. kind[NewIno] = "none"
        BY <3>1, InsertInodeCounts DEF Kinds
      <3> QED BY <3>1, <3>2 DEF OpNew, ShapeInv, ParentsAreDirs
    <2>2. CASE Mknod(s) \/ Symlink(s)
      <3>1. PICK k \in {"file", "symlink"} : InsertInode(k, 0)
        BY <2>2 DEF Mknod, Symlink, BeginCreate
      <3>2. op'.fn \in {"mknod", "symlink"} /\ op'.ino = NewIno
        BY <2>2 DEF Mknod, Symlink, BeginCreate
      <3>3. kind'[NewIno] = k
        BY <3>1, InsertInodeCounts DEF Kinds
      <3> QED BY <3>2, <3>3 DEF OpNew
    <2>3. CASE Unlink(s) \/ Rmdir(s) \/ \E i \in Ino : Link(i, s)
      <3>1. op'.fn \in {"unlink", "rmdir", "link"}
        BY <2>3 DEF Unlink, Rmdir, BeginRemove, Link, BeginLink
      <3> QED BY <3>1 DEF OpNew
    <2>4. CASE Lookup(s) \/ CreateFile(s) \/ \E t \in Slots : Rename(s, t)
      <3>1. op'.at = "idle"
        BY <2>4 DEF Lookup, CreateFile, InsertFile, Rename, RenameTxn, Idle
      <3> QED BY <3>1 DEF OpNew
    <2> QED BY <1>1, <2>1, <2>2, <2>3, <2>4 DEF Begin
  <1>2. ASSUME NEW i \in Ino, Handle(i) PROVE OpNew'
    BY <1>2 DEF Handle, Open, Pwrite, TruncateToZero, Close, db, OpNew
  <1>3. CASE DentryStatement
    <2>1. /\ dentry' = [dentry EXCEPT ![op.slot] = op.ino] /\ UNCHANGED kind
          /\ op'.fn = op.fn /\ op'.ino = op.ino /\ op'.slot = op.slot /\ op.at # "idle"
      BY <1>3 DEF DentryStatement, TypeOK
    <2> QED BY <2>1 DEF OpNew, TypeOK
  <1>4. CASE DeleteInode
    BY <1>4 DEF DeleteInode, IdleOp, OpNew
  <1>5. CASE Continue /\ ~DentryStatement /\ ~DeleteInode
    BY <1>u, <1>5 DEF Continue, MkdirNlink, MkdirParent, SymlinkTarget, NodeNlink, UnlinkNlink, UnlinkData,
       UnlinkSymlink, RmdirNlink, RmdirParent, Finish, IdleOp, TypeOK
  <1>6. CASE StatementFails \/ CrashAndReopen
    BY <1>u, <1>6 DEF StatementFails, CrashAndReopen, CutShort, Idle, IdleOp, db
  <1>7. CASE UNCHANGED vars
    BY <1>7 DEF vars, OpNew
  <1> QED BY <1>1, <1>2, <1>3, <1>4, <1>5, <1>6, <1>7 DEF Next
\* Behind the VFS, until an operation is cut short, every statement leaves a directory
\* with a name its own two links and one for each subdirectory.
LEMMA DirStep ==
    TypeInv /\ TypeOK' /\ NamesInv /\ CacheInv /\ ShapeInv /\ Guarded = TRUE /\ DirInv
        /\ [Next]_vars => DirInv'
PROOF
  <1> SUFFICES ASSUME TypeInv, TypeOK, OpInFlight, TypeOK', NamesInv, CacheInv, ShapeInv, Guarded = TRUE,
                      DirInv, [Next]_vars
               PROVE  DirInv'
    BY DEF TypeInv
  <1>1. OpNew'
    BY OpNewStep DEF DirInv
  <1> SUFFICES ASSUME torn' = {}, NEW i \in Ino PROVE DirCover(i)'
    BY <1>1 DEF DirInv
  <1> USE SlotParent
  <1>0. DirCover(i) /\ OpNew
    BY TornGrows DEF DirInv
  <1> DEFINE c == SubdirCount(kind, dentry, i)
             b == SubdirCount(kind', dentry', i)
  <1>n. /\ c \in Nat /\ b \in Nat /\ nlink[i] \in Int /\ nlink'[i] \in Int
        /\ NameCount(dentry, i) \in Nat /\ NameCount(dentry', i) \in Nat
    BY SubdirsFinite, NamesFinite DEF TypeOK
  <1>w. None \notin Ino /\ dentry \in [Slots -> Ino \cup {None}]
    BY DEF None, Ino, TypeOK
  <1>z. /\ op.at \notin {"nlink", "parent"} => Owed(i) = 0 /\ Ahead(i) = 0 /\ ~Unfinished(i)
        /\ op'.at \notin {"nlink", "parent"} => Owed(i)' = 0 /\ Ahead(i)' = 0 /\ ~Unfinished(i)'
        /\ Owed(i) \in {0, 1} /\ Ahead(i) \in {0, 1} /\ Owed(i)' \in {0, 1} /\ Ahead(i)' \in {0, 1}
    BY DEF Owed, Ahead, Unfinished, Bit
  <1> HIDE DEF c, b
  \* The directory keeps its name, its links and what the operation owes it, and gains nothing.
  <1>u. ASSUME kind'[i] = "dir" => kind[i] = "dir",
               kind'[i] = "dir" /\ (i = ROOT_INO \/ NameCount(dentry', i) > 0) /\ ~Unfinished(i)' =>
                   /\ i = ROOT_INO \/ NameCount(dentry, i) > 0
                   /\ ~Unfinished(i)
                   /\ nlink'[i] + Owed(i)' - b - Ahead(i)' >= nlink[i] + Owed(i) - c - Ahead(i)
        PROVE  DirCover(i)'
    BY <1>0, <1>n, <1>z, <1>u DEF DirCover, c, b
  \* Entries stay, and no row becomes one of a named directory.
  <1>s. ASSUME UNCHANGED dentry, \A s \in Slots : NamesDir(kind', dentry[s]) => NamesDir(kind, dentry[s])
        PROVE  b <= c /\ NameCount(dentry', i) = NameCount(dentry, i)
    BY <1>s, SubdirFewer DEF b, c
  <1>c. ASSUME NEW k \in Kinds, NEW s \in Slots, NEW fn, NEW at \in {"target", "dentry"}, BeginCreate(fn, at, k, s)
        PROVE  DirCover(i)'
    <2>1. InsertInode(k, 0) /\ UNCHANGED dentry /\ op.at = "idle" /\ op'.at = at
      BY <1>c DEF BeginCreate, Idle
    <2>2. /\ NewIno \in Ino /\ NameCount(dentry, NewIno) = 0 /\ NewIno # ROOT_INO
          /\ \A x \in Ino \ {NewIno} : kind'[x] = kind[x] /\ nlink'[x] = nlink[x]
          /\ \A x \in Slots : dentry[x] # NewIno
      BY <2>1, InsertInodeCounts, InsertInodeNames
    <2>3. b <= c /\ NameCount(dentry', i) = NameCount(dentry, i)
      BY <1>s, <1>w, <2>1, <2>2 DEF NamesDir
    <2>4. CASE i = NewIno
      BY <2>2, <2>3, <2>4 DEF DirCover
    <2>5. CASE i # NewIno
      BY <1>u, <1>n, <1>z, <2>1, <2>2, <2>3, <2>5
    <2> QED BY <2>4, <2>5
  <1>2. ASSUME NEW s \in Slots, Begin(s) PROVE DirCover(i)'
    <2>1. CASE Lookup(s)
      <3>1. UNCHANGED <<kind, nlink, dentry, op>>
        BY <2>1 DEF Lookup, db
      <3> QED BY <1>0, <3>1 DEF DirCover, Owed, Ahead, Unfinished
    <2>2. CASE Mkdir(s) \/ Mknod(s) \/ Symlink(s)
      BY <1>c, <2>2 DEF Mkdir, Mknod, Symlink, Kinds
    <2>3. CASE CreateFile(s)
      <3>1. /\ InsertInode("file", 1) /\ dentry[s] = None /\ dentry' = [dentry EXCEPT ![s] = NewIno]
            /\ op.at = "idle" /\ op'.at = "idle"
        BY <2>3 DEF CreateFile, InsertFile, Idle
      <3>2. /\ NewIno \in Ino /\ kind'[NewIno] = "file"
            /\ \A x \in Ino \ {NewIno} : kind'[x] = kind[x] /\ nlink'[x] = nlink[x]
            /\ \A x \in Slots : dentry[x] # NewIno
        BY <3>1, InsertInodeCounts DEF Kinds
      <3>3. dentry'[s] = NewIno /\ Rewrites(dentry, dentry', s)
        BY <1>w, <3>1, <3>2 DEF Rewrites
      <3>4. SubdirCount(kind', dentry, i) <= c
        BY <1>w, <3>2, SubdirFewer DEF NamesDir, c
      <3>5. b = SubdirCount(kind', dentry, i) + Bit(s[1] = i /\ NamesDir(kind', dentry'[s]))
                                              - Bit(s[1] = i /\ NamesDir(kind', dentry[s]))
        BY <3>3, SubdirWrite DEF b
      <3>6. NameCount(dentry', i) = NameCount(dentry, i) + Bit(i = dentry'[s]) - Bit(i = dentry[s])
        BY <3>3, NameCountWrite
      <3>7. SubdirCount(kind', dentry, i) \in Nat /\ ~NamesDir(kind', dentry'[s]) /\ ~NamesDir(kind', dentry[s])
        BY <3>1, <3>2, <3>3, SubdirsFinite DEF NamesDir
      <3>8. b <= c /\ (kind'[i] = "dir" => i # NewIno /\ NameCount(dentry', i) = NameCount(dentry, i))
        BY <1>n, <1>w, <3>1, <3>2, <3>3, <3>4, <3>5, <3>6, <3>7 DEF Bit
      <3> QED BY <1>u, <1>n, <1>z, <3>1, <3>2, <3>8
    <2>4. CASE Unlink(s) \/ Rmdir(s) \/ \E l \in Ino : Link(l, s)
      <3>1. PICK v \in Ino \cup {None} : dentry' = [dentry EXCEPT ![s] = v] /\ v # dentry[s]
        BY <1>w, <2>4 DEF Unlink, Rmdir, BeginRemove, Link, BeginLink
      <3>2. dentry'[s] = v /\ Rewrites(dentry, dentry', s)
        BY <1>w, <3>1 DEF Rewrites
      <3>3. b = c + Bit(s[1] = i /\ NamesDir(kind', dentry'[s])) - Bit(s[1] = i /\ NamesDir(kind', dentry[s]))
        <4>1. kind' = kind
          BY <2>4 DEF Unlink, Rmdir, BeginRemove, Link, BeginLink
        <4> QED BY <3>2, <4>1, SubdirWrite DEF b, c
      <3>4. NameCount(dentry', i) = NameCount(dentry, i) + Bit(i = dentry'[s]) - Bit(i = dentry[s])
        BY <3>2, NameCountWrite
      <3>5. UNCHANGED <<kind, nlink>> /\ op.at = "idle"
        BY <2>4 DEF Unlink, Rmdir, BeginRemove, Link, BeginLink, Idle
      <3>6. CASE Unlink(s)
        <4>1. v = None /\ kind[dentry[s]] # "dir" /\ op'.fn = "unlink"
          BY <1>w, <2>4, <3>1, <3>6 DEF Unlink, BeginRemove
        <4>2. b = c /\ NameCount(dentry', i) <= NameCount(dentry, i)
          BY <1>n, <1>w, <3>2, <3>3, <3>4, <3>5, <4>1 DEF Bit, NamesDir
        <4>3. Owed(i)' = 0 /\ Ahead(i)' = 0
          BY <4>1 DEF Owed, Ahead, Bit
        <4> QED BY <1>u, <1>n, <1>z, <3>5, <4>2, <4>3
      <3>7. CASE Rmdir(s)
        <4>1. /\ v = None /\ kind[dentry[s]] = "dir" /\ dentry[s] # None
              /\ op'.fn = "rmdir" /\ op'.at = "nlink" /\ op'.slot = s
          BY <1>w, <2>4, <3>1, <3>7 DEF Rmdir, BeginRemove
        <4>2. b = c - Bit(s[1] = i) /\ NameCount(dentry', i) <= NameCount(dentry, i)
          BY <1>n, <1>w, <3>2, <3>3, <3>4, <3>5, <4>1 DEF Bit, NamesDir
        <4>3. Owed(i)' = 0 /\ Ahead(i)' = Bit(s[1] = i)
          BY <4>1 DEF Owed, Ahead, Bit
        <4> QED BY <1>u, <1>n, <1>z, <3>5, <4>2, <4>3 DEF Bit
      <3>8. ASSUME NEW l \in Ino, Link(l, s) PROVE DirCover(i)'
        <4>1. v = l /\ kind[l] # "dir" /\ dentry[s] = None /\ op'.fn = "link"
          BY <1>w, <3>1, <3>8 DEF Link, BeginLink, Linkable
        <4>2. b = c /\ (kind[i] = "dir" => NameCount(dentry', i) = NameCount(dentry, i))
          BY <1>n, <1>w, <3>2, <3>3, <3>4, <3>5, <4>1 DEF Bit, NamesDir
        <4>3. Owed(i)' = 0 /\ Ahead(i)' = 0
          BY <4>1 DEF Owed, Ahead, Bit
        <4> QED BY <1>u, <1>n, <1>z, <3>5, <4>2, <4>3
      <3> QED BY <2>4, <3>6, <3>7, <3>8
    <2>5. ASSUME NEW t \in Slots, Rename(s, t) PROVE DirCover(i)'
      <3> DEFINE j == dentry[t]
                 m == dentry[s]
                 e == [dentry EXCEPT ![t] = m]
                 isDir == kind[m] = "dir"
      <3>1. /\ m \in Ino /\ j \in Ino \cup {None} /\ m # j /\ s # t
            /\ j # None => (kind[j] = "dir" <=> isDir)
            /\ op.at = "idle" /\ op' = op
            /\ dentry' = [e EXCEPT ![s] = None]
            /\ NameCount(dentry', i) = NameCount(dentry, i) - Bit(i = j)
        BY <2>5, RenameEffect
      <3>2. /\ kind' = [x \in Ino |-> IF x = j /\ nlink[j] = 1 THEN "none" ELSE kind[x]]
            /\ ~(i = j /\ nlink[j] = 1) =>
                  nlink'[i] = nlink[i] - Bit(i = j) - Bit(isDir /\ s[1] # t[1] /\ i = s[1])
                              + Bit(isDir /\ s[1] # t[1] /\ i = t[1])
        BY <2>5, RenameEffect
      <3>3. /\ e[t] = m /\ e[s] = m /\ dentry'[s] = None
            /\ Rewrites(dentry, e, t) /\ Rewrites(e, dentry', s)
        BY <1>w, <3>1 DEF Rewrites
      <3> HIDE DEF e
      <3>4. /\ SubdirCount(kind, e, i) = c + Bit(t[1] = i /\ NamesDir(kind, m)) - Bit(t[1] = i /\ NamesDir(kind, j))
            /\ SubdirCount(kind, dentry', i) = SubdirCount(kind, e, i)
                  + Bit(s[1] = i /\ NamesDir(kind, dentry'[s])) - Bit(s[1] = i /\ NamesDir(kind, m))
        BY <3>3, SubdirWrite DEF c
      <3>5. b <= SubdirCount(kind, dentry', i)
        <4>1. \A x \in Slots : NamesDir(kind', dentry'[x]) => NamesDir(kind, dentry'[x])
          BY <3>2 DEF NamesDir, TypeOK
        <4> QED BY <4>1, SubdirFewer DEF b
      <3>6. SubdirCount(kind, e, i) \in Nat /\ SubdirCount(kind, dentry', i) \in Nat
        BY SubdirsFinite
      <3>7. /\ NamesDir(kind, m) <=> isDir
            /\ ~NamesDir(kind, dentry'[s])
        BY <1>w, <3>1, <3>3 DEF NamesDir
      <3>8. b <= c + Bit(t[1] = i /\ isDir) - Bit(s[1] = i /\ isDir)
        <4>1. Bit(t[1] = i /\ NamesDir(kind, j)) >= 0 /\ Bit(s[1] = i /\ NamesDir(kind, dentry'[s])) = 0
          BY <3>7 DEF Bit
        <4>2. Bit(t[1] = i /\ NamesDir(kind, j)) \in Int /\ Bit(t[1] = i /\ isDir) \in Int /\ Bit(s[1] = i /\ isDir) \in Int
          BY DEF Bit
        <4>3. SubdirCount(kind, e, i) <= c + Bit(t[1] = i /\ isDir)
          BY <1>n, <3>4, <3>6, <3>7, <4>1, <4>2
        <4> QED BY <1>n, <3>4, <3>5, <3>6, <3>7, <4>1, <4>2, <4>3
      \* The directory that is replaced has no name left.
      <3>9. i = j /\ kind[i] = "dir" => i # ROOT_INO /\ NameCount(dentry', i) = 0
        <4> SUFFICES ASSUME i = j, kind[i] = "dir" PROVE i # ROOT_INO /\ NameCount(dentry', i) = 0
          OBVIOUS
        <4>1. \A x \in Slots : dentry'[x] # i
          <5>1. \A x \in Slots : dentry[x] = i => x = t
            BY <1>w DEF NamesInv, DirNamedOnce
          <5>2. \A x \in Slots : dentry'[x] = IF x = s THEN None ELSE IF x = t THEN m ELSE dentry[x]
            BY <1>w, <3>1, <3>3 DEF Rewrites
          <5> QED BY <1>w, <3>1, <5>1, <5>2
        <4>2. i # ROOT_INO
          BY DEF NamesInv, RootProtected, Refs
        <4> QED BY <4>1, <4>2, NamesFinite
      <3>10. CASE i = j
        BY <3>2, <3>9, <3>10 DEF DirCover
      <3>11. CASE i # j
        <4> HIDE DEF j, m, isDir
        <4>1. NameCount(dentry', i) = NameCount(dentry, i) /\ kind'[i] = kind[i]
          BY <1>n, <3>1, <3>2, <3>11 DEF Bit
        <4>2. nlink'[i] - b >= nlink[i] - c
          BY <1>n, <3>2, <3>8, <3>11 DEF Bit
        <4> QED BY <1>u, <1>n, <1>z, <3>1, <4>1, <4>2
      <3> QED BY <3>10, <3>11
    <2> QED BY <1>2, <2>1, <2>2, <2>3, <2>4, <2>5 DEF Begin
  <1>3. ASSUME NEW x \in Ino, Handle(x) PROVE DirCover(i)'
    <2>1. UNCHANGED <<kind, nlink, dentry, op>>
      BY <1>3 DEF Handle, Open, Pwrite, TruncateToZero, Close, db
    <2> QED BY <1>0, <2>1 DEF DirCover, Owed, Ahead, Unfinished
  <1>4. CASE Continue
    <2>o. ~Idle /\ op.at # "idle" /\ op.ino \in Ino /\ op.ino # ROOT_INO /\ op.slot \in Slots /\ kind[op.slot[1]] = "dir"
      BY <1>4 DEF Continue, DentryStatement, MkdirNlink, MkdirParent, SymlinkTarget, NodeNlink,
         UnlinkNlink, UnlinkData, UnlinkSymlink, DeleteInode, RmdirNlink, RmdirParent, Idle,
         OpInFlight, ShapeInv, OpKinds, NamesInv, OpNames
    \* Statements that leave rows and entries.
    <2>s. UNCHANGED <<kind, dentry>> => b = c /\ NameCount(dentry', i) = NameCount(dentry, i)
      BY DEF b, c
    <2>1. CASE DentryStatement
      <3>1. /\ dentry[op.slot] = None /\ dentry' = [dentry EXCEPT ![op.slot] = op.ino]
            /\ UNCHANGED <<kind, nlink>> /\ op.at = "dentry"
            /\ op'.at = "nlink" /\ op'.fn = op.fn /\ op'.ino = op.ino /\ op'.slot = op.slot
            /\ op.fn \in {"mkdir", "mknod", "symlink"}
            /\ op.fn = "mkdir" <=> kind[op.ino] = "dir"
        BY <1>0, <2>1, <2>o DEF DentryStatement, CacheInv, OpSlot, ShapeInv, OpKinds, OpNew, TypeOK
      <3>2. dentry'[op.slot] = op.ino /\ Rewrites(dentry, dentry', op.slot)
        BY <1>w, <2>o, <3>1 DEF Rewrites
      <3>3. b = c + Bit(op.slot[1] = i /\ NamesDir(kind, dentry'[op.slot]))
                  - Bit(op.slot[1] = i /\ NamesDir(kind, dentry[op.slot]))
        <4>1. kind' = kind
          BY <3>1
        <4> QED BY <2>o, <3>2, <4>1, SubdirWrite DEF b, c
      <3>4. NameCount(dentry', i) = NameCount(dentry, i) + Bit(i = dentry'[op.slot]) - Bit(i = dentry[op.slot])
        BY <2>o, <3>2, NameCountWrite
      <3>5. b = c + Bit(op.slot[1] = i /\ op.fn = "mkdir") /\ (i # op.ino => NameCount(dentry', i) = NameCount(dentry, i))
        BY <1>n, <1>w, <2>o, <3>1, <3>2, <3>3, <3>4 DEF Bit, NamesDir
      <3>6. Owed(i)' = Bit(op.slot[1] = i /\ op.fn = "mkdir") /\ Ahead(i)' = 0
        BY <3>1 DEF Owed, Ahead, Bit
      <3>7. CASE i = op.ino
        BY <3>1, <3>7 DEF DirCover, Unfinished
      <3>8. CASE i # op.ino
        BY <1>u, <1>n, <1>z, <3>1, <3>5, <3>6, <3>8 DEF Bit
      <3> QED BY <3>7, <3>8
    <2>2. CASE MkdirNlink
      <3>1. /\ UNCHANGED <<kind, dentry>> /\ op.fn = "mkdir" /\ op.at = "nlink" /\ op'.at = "parent"
            /\ op'.fn = op.fn /\ op'.ino = op.ino /\ op'.slot = op.slot
            /\ nlink' = [nlink EXCEPT ![op.ino] = 2]
        BY <2>2 DEF MkdirNlink, TypeOK
      <3>2. Owed(i)' = Owed(i) /\ Ahead(i)' = 0 /\ Ahead(i) = 0 /\ (Unfinished(i) <=> i = op.ino)
        BY <3>1 DEF Owed, Ahead, Unfinished, Bit
      <3>3. CASE i = op.ino
        <4>1. {s \in Slots : s[1] = i /\ NamesDir(kind, dentry[s])} = {}
          BY <1>0, <2>o, <3>1, <3>3 DEF OpNew, NamesDir
        <4>2. c = 0
          BY <4>1, FS_EmptySet DEF SubdirCount, c
        <4>3. nlink'[i] = 2 /\ b = 0
          BY <2>o, <2>s, <3>1, <3>3, <4>2 DEF TypeOK
        <4> QED BY <1>n, <1>z, <3>2, <4>3 DEF DirCover, b
      <3>4. CASE i # op.ino
        <4>1. nlink'[i] = nlink[i]
          BY <3>1, <3>4 DEF TypeOK
        <4> QED BY <1>u, <1>n, <1>z, <2>s, <3>1, <3>2, <3>4, <4>1
      <3> QED BY <3>3, <3>4
    <2>3. CASE MkdirParent
      <3>1. /\ UNCHANGED <<kind, dentry>> /\ op.fn = "mkdir" /\ op.at = "parent" /\ op'.at = "idle"
            /\ nlink' = AddLinks(nlink, op.slot[1], 1)
        BY <2>3 DEF MkdirParent, Finish, IdleOp
      <3>2. nlink'[i] = nlink[i] + Bit(op.slot[1] = i)
        BY <1>n, <2>o, <3>1 DEF AddLinks, Exists, Bit, TypeOK
      <3>3. Owed(i) = Bit(op.slot[1] = i) /\ Ahead(i) = 0 /\ ~Unfinished(i)
        BY <3>1 DEF Owed, Ahead, Unfinished, Bit
      <3> QED BY <1>u, <1>n, <1>z, <2>s, <3>1, <3>2, <3>3 DEF Bit
    <2>4. CASE SymlinkTarget \/ UnlinkData \/ UnlinkSymlink
      <3>1. /\ UNCHANGED <<kind, nlink, dentry>>
            /\ op.at \notin {"nlink", "parent"} /\ op'.at \notin {"nlink", "parent"}
        BY <2>4 DEF SymlinkTarget, UnlinkData, UnlinkSymlink, TypeOK
      <3> QED BY <1>u, <1>n, <1>z, <2>s, <3>1
    <2>5. CASE NodeNlink
      <3>1. /\ UNCHANGED <<kind, dentry>> /\ op'.at = "idle" /\ nlink' = AddLinks(nlink, op.ino, 1)
            /\ op.fn \in {"mknod", "symlink", "link"}
        BY <2>5 DEF NodeNlink, Finish, IdleOp
      <3>2. nlink'[i] >= nlink[i]
        BY <1>n, <2>o, <3>1 DEF AddLinks, TypeOK
      <3>3. Owed(i) = 0 /\ Ahead(i) = 0 /\ ~Unfinished(i)
        BY <3>1 DEF Owed, Ahead, Unfinished, Bit
      <3> QED BY <1>u, <1>n, <1>z, <2>s, <3>1, <3>2, <3>3
    <2>6. CASE UnlinkNlink
      <3>1. /\ UNCHANGED <<kind, dentry>> /\ nlink' = AddLinks(nlink, op.ino, -1) /\ op.fn = "unlink"
            /\ op'.at \notin {"nlink", "parent"} /\ kind[op.ino] # "dir"
        BY <2>6, <2>o DEF UnlinkNlink, IdleOp, ShapeInv, OpKinds, TypeOK
      <3>2. kind[i] = "dir" => nlink'[i] = nlink[i]
        BY <2>o, <3>1, AddLinksElsewhere DEF TypeOK
      <3>3. Owed(i) = 0 /\ Ahead(i) = 0 /\ ~Unfinished(i)
        BY <3>1 DEF Owed, Ahead, Unfinished, Bit
      <3> QED BY <1>u, <1>n, <1>z, <2>s, <3>1, <3>2, <3>3
    <2>7. CASE DeleteInode
      <3>1. /\ UNCHANGED dentry /\ kind' = [kind EXCEPT ![op.ino] = "none"]
            /\ nlink' = [nlink EXCEPT ![op.ino] = 0] /\ op.at = "inode" /\ op'.at = "idle"
        BY <2>7 DEF DeleteInode, IdleOp
      <3>2. b <= c /\ NameCount(dentry', i) = NameCount(dentry, i)
        BY <1>s, <1>w, <2>o, <3>1 DEF NamesDir, TypeOK
      <3>3. CASE i = op.ino
        BY <3>1, <3>3 DEF DirCover, TypeOK
      <3>4. CASE i # op.ino
        <4>1. nlink'[i] = nlink[i] /\ kind'[i] = kind[i]
          BY <3>1, <3>4 DEF TypeOK
        <4> QED BY <1>u, <1>n, <1>z, <3>1, <3>2, <4>1
      <3> QED BY <3>3, <3>4
    <2>8. CASE RmdirNlink
      <3>1. /\ UNCHANGED <<kind, dentry>> /\ op.fn = "rmdir" /\ op.at = "nlink" /\ op'.at = "parent"
            /\ op'.fn = op.fn /\ op'.slot = op.slot /\ Refs(op.ino) = {}
            /\ nlink' = AddLinks(nlink, op.ino, -1)
        BY <2>8, <2>o DEF RmdirNlink, ShapeInv, OpKinds, TypeOK
      <3>2. Ahead(i)' = Ahead(i) /\ Owed(i) = 0 /\ Owed(i)' = 0 /\ ~Unfinished(i)
        BY <3>1 DEF Owed, Ahead, Unfinished, Bit
      <3>3. CASE i = op.ino
        <4>1. NameCount(dentry', i) = 0
          BY <3>1, <3>3, NamesFinite DEF Refs
        <4> QED BY <2>o, <3>3, <4>1 DEF DirCover
      <3>4. CASE i # op.ino
        <4>1. nlink'[i] = nlink[i]
          BY <2>o, <3>1, <3>4, AddLinksElsewhere DEF TypeOK
        <4> QED BY <1>u, <1>n, <1>z, <2>s, <3>1, <3>2, <4>1
      <3> QED BY <3>3, <3>4
    <2>9. CASE RmdirParent
      <3>1. /\ UNCHANGED <<kind, dentry>> /\ op.fn = "rmdir" /\ op.at = "parent"
            /\ op'.at \notin {"nlink", "parent"} /\ nlink' = AddLinks(nlink, op.slot[1], -1)
        BY <2>9, <2>o DEF RmdirParent, IdleOp, ShapeInv, OpKinds, TypeOK
      <3>2. nlink'[i] = nlink[i] - Bit(op.slot[1] = i)
        BY <1>n, <2>o, <3>1 DEF AddLinks, Exists, Bit, TypeOK
      <3>3. Ahead(i) = Bit(op.slot[1] = i) /\ Owed(i) = 0 /\ ~Unfinished(i)
        BY <3>1 DEF Owed, Ahead, Unfinished, Bit
      <3> QED BY <1>u, <1>n, <1>z, <2>s, <3>1, <3>2, <3>3 DEF Bit
    <2> QED BY <1>4, <2>1, <2>2, <2>3, <2>4, <2>5, <2>6, <2>7, <2>8, <2>9 DEF Continue
  <1>5. CASE StatementFails \/ CrashAndReopen
    <2>1. UNCHANGED <<kind, nlink, dentry, op>>
      BY <1>5 DEF StatementFails, CrashAndReopen, CutShort, db
    <2> QED BY <1>0, <2>1 DEF DirCover, Owed, Ahead, Unfinished
  <1>6. CASE UNCHANGED vars
    BY <1>0, <1>6 DEF vars, DirCover, Owed, Ahead, Unfinished
  <1> QED BY <1>2, <1>3, <1>4, <1>5, <1>6 DEF Next

\* Behind the VFS, between operations that all ran to their end, the link count of a
\* file or symlink is exactly the number of its names and none is left without one,
\* and a directory counts at least its own links and those of its subdirectories.
THEOREM LinksStayRight == Guarded = TRUE => (Spec => []LinksRight)
PROOF
  <1> SUFFICES ASSUME Guarded = TRUE PROVE Spec => []LinksRight
    OBVIOUS
  <1>1. TypeInv /\ CacheInv /\ [Next]_vars => CacheInv'
    BY CacheStep
  <1>2. TypeInv /\ TypeInv' /\ NamesInv /\ CacheInv /\ ShapeInv /\ [Next]_vars => ShapeInv'
    BY ShapeStep DEF TypeInv
  <1>3. TypeInv /\ TypeInv' /\ NamesInv /\ CacheInv /\ ShapeInv /\ ExactInv /\ [Next]_vars => ExactInv'
    BY ExactStep DEF TypeInv
  <1>4. TypeInv /\ TypeInv' /\ NamesInv /\ CacheInv /\ ShapeInv /\ DirInv /\ [Next]_vars => DirInv'
    BY DirStep DEF TypeInv
  <1>5. TypeInv /\ ExactInv /\ DirInv => LinksRight
    <2> SUFFICES ASSUME TypeOK, ExactInv, DirInv, op.at = "idle", torn = {}
                 PROVE  FileLinksExact /\ DirLinksCover
      BY DEF TypeInv, LinksRight, Idle
    <2>1. \A i : NameCount(dentry, i) = Cardinality(Refs(i)) /\ NameCount(dentry, i) \in Nat
                 /\ (NameCount(dentry, i) = 0 <=> Refs(i) = {})
      BY NamesFinite DEF NameCount, Refs
    <2>2. \A i : SubdirCount(kind, dentry, i) = Cardinality(Subdirs(i)) /\ SubdirCount(kind, dentry, i) \in Nat
      <3>1. \A i : SubdirCount(kind, dentry, i) = Cardinality(Subdirs(i))
        BY DEF SubdirCount, Subdirs, NamesDir
      <3> QED BY <3>1, SubdirsFinite
    <2>3. ASSUME NEW i \in Ino, Exists(i), kind[i] # "dir"
          PROVE  Refs(i) # {} /\ nlink[i] = Cardinality(Refs(i))
      <3>1. kind[i] \in {"file", "symlink"} /\ nlink[i] \in Int
        BY <2>3 DEF Exists, TypeOK, Kinds
      <3>2. nlink[i] + 0 = NameCount(dentry, i) + 0 /\ NameCount(dentry, i) > 0
        BY <3>1 DEF ExactInv, Exact, Uncounted, Released, InTransit
      <3> QED BY <2>1, <3>1, <3>2
    <2>4. ASSUME NEW i \in Ino, kind[i] = "dir", i = ROOT_INO \/ Refs(i) # {}
          PROVE  nlink[i] >= 2 + Cardinality(Subdirs(i))
      <3>1. Owed(i) = 0 /\ Ahead(i) = 0 /\ ~Unfinished(i) /\ nlink[i] \in Int
        BY DEF Owed, Ahead, Unfinished, Bit, TypeOK
      <3>2. i = ROOT_INO \/ NameCount(dentry, i) > 0
        BY <2>1, <2>4
      <3>3. nlink[i] + Owed(i) >= 2 + SubdirCount(kind, dentry, i) + Ahead(i)
        BY <2>4, <3>1, <3>2 DEF DirInv, DirCover
      <3> QED BY <2>2, <3>1, <3>3
    <2> QED BY <2>3, <2>4 DEF FileLinksExact, DirLinksCover
  <1> QED BY CacheInit, ShapeInit, ExactInit, DirInit, NamesAlways, <1>1, <1>2, <1>3, <1>4, <1>5, PTL DEF Spec
==============================================================================
