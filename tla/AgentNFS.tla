------------------------------- MODULE AgentNFS -------------------------------
(***************************************************************************)
(* cli/src/nfs.rs: the adapter between the NFS server and the SDK's file   *)
(* system.  Every operator is what one method does while it holds the      *)
(* file-system mutex: from the file system to its answer                   *)
(*     [st: status, fs: the file system afterwards, id: an inode or None]. *)
(* The file system is a record                                             *)
(*     dentry: <<directory, name>> -> inode     attr: inode -> attributes  *)
(*     next: the next inode number                                         *)
(* Names are numbers: readdir orders entries by them.                      *)
(***************************************************************************)
EXTENDS NfsPermissions, Sequences, FiniteSets, FiniteSetsExt

CONSTANTS Names, MaxId
ASSUME NameAssumption == Names \subseteq Nat /\ MaxId \in Nat \ {0}

None == 0
\* A field of sattr3: Void or a value.
Void == {}
Some(v) == {v}
Value(o) == CHOOSE v \in o : TRUE
ROOT_INO == 1
Ids == 1..MaxId

Exists(fs, i) == i \in DOMAIN fs.attr
At(fs, d, n) == IF <<d, n>> \in DOMAIN fs.dentry THEN fs.dentry[<<d, n>>] ELSE None
IsDir(fs, i) == Exists(fs, i) /\ fs.attr[i].kind = "dir"
NamesOf(fs, i) == {s \in DOMAIN fs.dentry : fs.dentry[s] = i}
Done(fs, i) == [st |-> "OK", fs |-> fs, id |-> i]
Failed(fs, st) == [st |-> st, fs |-> fs, id |-> None]

\* Entries lie in directories there were and name inodes there are, and inode
\* numbers are given out in order.
FsOK(fs) ==
    /\ fs \in [dentry : [DOMAIN fs.dentry -> DOMAIN fs.attr],
               attr : [DOMAIN fs.attr -> Range(fs.attr)], next : 1..(MaxId + 1)]
    /\ DOMAIN fs.dentry \subseteq Ids \X Names /\ IsFiniteSet(DOMAIN fs.dentry)
    /\ DOMAIN fs.attr \subseteq 1..(fs.next - 1)

\* Every inode has all its attributes.
AttrsOK(fs) == \A i \in DOMAIN fs.attr :
    LET a == fs.attr[i]
    IN a = [kind |-> a.kind, uid |-> a.uid, gid |-> a.gid, mode |-> a.mode, ctime |-> a.ctime]

vfs_getattr(fs, i) == IF Exists(fs, i) THEN Done(fs, i) ELSE Failed(fs, "NOENT")

\* "." names the directory itself before anything is looked at.
vfs_lookup(fs, d, n) ==
    IF ~Exists(fs, d) THEN Failed(fs, "NOENT")
    ELSE IF ~IsDir(fs, d) THEN Failed(fs, "NOTDIR")
    ELSE IF At(fs, d, n) = None THEN Failed(fs, "NOENT")
    ELSE Done(fs, At(fs, d, n))

\* A change of a file gives it a new ctime (those of directories do not matter
\* to any call).
Touch(fs, i) == [fs EXCEPT !.attr[i].ctime = @ + 1]

\* The possible answers of setattr: chmod, chown, then truncate and utimens
\* under one lock, each of which the store may refuse, with what came before
\* it done.
Chmod(fs, i, mode) == IF mode = Void THEN fs ELSE Touch([fs EXCEPT !.attr[i].mode = Value(mode)], i)
Chown(fs, i, uid, gid) ==
    IF uid = Void /\ gid = Void THEN fs
    ELSE Touch([fs EXCEPT !.attr[i].uid = IF uid = Void THEN @ ELSE Value(uid),
                          !.attr[i].gid = IF gid = Void THEN @ ELSE Value(gid)], i)
vfs_setattr(fs, i, sattr) ==
    LET moded == Chmod(fs, i, sattr.mode)
        owned == Chown(moded, i, sattr.uid, sattr.gid)
        all == IF sattr.size \/ sattr.times THEN Touch(owned, i) ELSE owned
    IN IF ~Exists(fs, i) THEN {Failed(fs, "NOENT")}
       ELSE {Done(all, i)} \cup {Failed(f, "IO") : f \in {fs, moded, owned, all}}

vfs_read(fs, i) == IF Exists(fs, i) THEN Done(fs, i) ELSE Failed(fs, "NOENT")
vfs_write(fs, i) == IF Exists(fs, i) THEN Done(Touch(fs, i), i) ELSE Failed(fs, "NOENT")
vfs_readlink(fs, i) ==
    IF Exists(fs, i) /\ fs.attr[i].kind = "symlink" THEN Done(fs, i) ELSE Failed(fs, "NOENT")

\* A new entry: the SDK refuses a name that is taken.  Directories keep their
\* rows, so one that a call got through to is still there.
Insert(fs, d, n, kind, mode, auth) ==
    IF At(fs, d, n) # None THEN Failed(fs, "EXIST")
    ELSE IF fs.next > MaxId THEN Failed(fs, "NOSPC")
    ELSE LET i == fs.next
             a == [kind |-> kind, uid |-> auth.uid, gid |-> Max(auth.gids), mode |-> mode, ctime |-> 0]
         IN Done([fs EXCEPT
                !.next = i + 1,
                !.attr = [j \in DOMAIN @ \cup {i} |-> IF j = i THEN a ELSE @[j]],
                !.dentry = [s \in DOMAIN @ \cup {<<d, n>>} |-> IF s = <<d, n>> THEN i ELSE @[s]]], i)

DefaultFile == Bits("user", {"read", "write"}) \cup Bits("group", {"read"}) \cup Bits("other", {"read"})
DefaultDir == Bits("user", {"read", "write", "execute"}) \cup Bits("group", {"read", "execute"})
              \cup Bits("other", {"read", "execute"})

vfs_create_Existing(fs, d, n, auth) ==
    IF At(fs, d, n) # None THEN Done(fs, At(fs, d, n)) ELSE Insert(fs, d, n, "file", DefaultFile, auth)
vfs_create(fs, d, n, auth) == Insert(fs, d, n, "file", DefaultFile, auth)
\* Looks the name up and creates under one lock.
vfs_create_exclusive(fs, d, n, auth) ==
    IF At(fs, d, n) # None THEN Failed(fs, "EXIST") ELSE Insert(fs, d, n, "file", DefaultFile, auth)
vfs_mkdir(fs, d, n, auth) == Insert(fs, d, n, "dir", DefaultDir, auth)
vfs_mknod(fs, d, n, auth) == Insert(fs, d, n, "fifo", DefaultFile, auth)
vfs_symlink(fs, d, n, auth) == Insert(fs, d, n, "symlink", DefaultFile, auth)

\* The inode of a file goes with its last name; that of a directory stays.
Drop(fs, s) ==
    LET i == fs.dentry[s]
        keep == IF IsDir(fs, i) \/ Cardinality(NamesOf(fs, i)) > 1 THEN DOMAIN fs.attr ELSE DOMAIN fs.attr \ {i}
    IN [fs EXCEPT !.dentry = [x \in DOMAIN @ \ {s} |-> @[x]], !.attr = [j \in keep |-> @[j]]]
Empty(fs, i) == \A s \in DOMAIN fs.dentry : s[1] # i

\* remove serves REMOVE and RMDIR: it asks the entry what it is.
vfs_remove(fs, d, n) ==
    IF At(fs, d, n) = None THEN Failed(fs, "NOENT")
    ELSE IF IsDir(fs, At(fs, d, n)) /\ ~Empty(fs, At(fs, d, n)) THEN Failed(fs, "NOTEMPTY")
    ELSE Done(Drop(fs, <<d, n>>), None)

\* Over another name of the same inode the target is dropped like any other.
vfs_rename(fs, d, n, e, m) ==
    LET i == At(fs, d, n)
        j == At(fs, e, m)
        f == IF j = None THEN fs ELSE Drop(fs, <<e, m>>)
    IN IF i = None THEN Failed(fs, "NOENT")
       ELSE IF j # None /\ IsDir(fs, i) # IsDir(fs, j)
            THEN Failed(fs, IF IsDir(fs, j) THEN "ISDIR" ELSE "NOTDIR")
       ELSE IF j # None /\ IsDir(fs, j) /\ ~Empty(fs, j) THEN Failed(fs, "NOTEMPTY")
       ELSE Done(Touch([f EXCEPT !.dentry =
                [s \in (DOMAIN @ \ {<<d, n>>}) \cup {<<e, m>>} |-> IF s = <<e, m>> THEN i ELSE @[s]]], i), i)

vfs_link(fs, i, d, n) ==
    IF ~Exists(fs, i) THEN Failed(fs, "NOENT")
    ELSE IF At(fs, d, n) # None THEN Failed(fs, "EXIST")
    ELSE Done(Touch([fs EXCEPT !.dentry =
             [s \in DOMAIN @ \cup {<<d, n>>} |-> IF s = <<d, n>> THEN i ELSE @[s]]], i), i)

-----------------------------------------------------------------------------
(* readdir: the entries after the one whose inode number is start_after,    *)
(* at most max of them, and whether they are the last.                      *)
Ordered(fs, d) ==
    LET here == {s[2] : s \in {x \in DOMAIN fs.dentry : x[1] = d}}
    IN [k \in 1..Cardinality(here) |->
          CHOOSE n \in here : Cardinality({m \in here : m < n}) = k - 1]

vfs_readdir_FromIt(fs, d, start_after, max) ==
    LET all == Ordered(fs, d)
        found == {k \in DOMAIN all : At(fs, d, all[k]) = start_after}
        skipped == IF start_after = None THEN 0 ELSE IF found = {} THEN Len(all) ELSE Min(found)
        page == SubSeq(all, skipped + 2, Min({Len(all), skipped + max}))
    IN [names |-> page, end |-> Len(page) + skipped >= Len(all)]

vfs_readdir(fs, d, start_after, max) ==
    LET all == Ordered(fs, d)
        found == {k \in DOMAIN all : At(fs, d, all[k]) = start_after}
        skipped == IF start_after = None THEN 0 ELSE IF found = {} THEN Len(all) ELSE Min(found)
        page == SubSeq(all, skipped + 1, Min({Len(all), skipped + max}))
    IN [names |-> page, end |-> Len(page) + skipped >= Len(all)]
===============================================================================
