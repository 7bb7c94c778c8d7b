---------------------------- MODULE AgentFSPaths ----------------------------
(***************************************************************************)
(* The path-based API of AgentFS: the same tables, reached by resolving    *)
(* paths through the dentry cache, which is trusted on a hit and filled on *)
(* a miss.  Only the last component of a path is ever followed through     *)
(* symlinks, and only by stat, which remove and rename use to find out     *)
(* whether they deal with a directory.                                     *)
(*                                                                         *)
(* A path is the sequence of its components after normalize_path; symlink  *)
(* targets are absolute.  A call that fails its checks has the effect of   *)
(* PathLookup, or of two of them: it fills the cache.                      *)
(***************************************************************************)
EXTENDS AgentFS, SequencesExt

CONSTANTS
    MaxDepth,   \* bound: components of a path
    MaxFollow,  \* max_symlink_depth
    MaxLinks,   \* bound: link counts explored, see LinksBounded
    Targets     \* the symlink targets in use

VARIABLE target  \* fs_symlink.target, meaningful for the inodes in symlinks

pathVars == <<vars, target>>

Paths == SeqOf(Names, MaxDepth)
Dirs == SeqOf(Names, MaxDepth - 1)     \* what can still take a last component

ASSUME PathAssumption ==
    /\ MaxDepth \in Nat \ {0}
    /\ MaxFollow \in Nat \ {0}
    /\ MaxLinks \in Nat
    /\ Targets \subseteq Paths

(***************************************************************************)
(* resolve_path_with_conn: the possible results of walking a path with     *)
(* cache c, as the inode reached (None if there is none) and the cache.    *)
(***************************************************************************)
WalkStep(w, n) ==
    LET s == <<w.at, n>> IN
    IF w.at = None THEN {w}
    ELSE IF w.cache[s] # None THEN {[w EXCEPT !.at = w.cache[s]]}
    ELSE IF dentry[s] = None THEN {[w EXCEPT !.at = None]}
    ELSE {[at |-> dentry[s], cache |-> c] : c \in CacheInsert(w.cache, s, dentry[s])}

Walk(path, c) ==
    LET upTo[k \in 0 .. Len(path)] ==
            IF k = 0 THEN {[at |-> ROOT_INO, cache |-> c]}
            ELSE UNION {WalkStep(w, path[k]) : w \in upTo[k - 1]}
    IN  upTo[Len(path)]

(***************************************************************************)
(* stat_with_conn: follow the last component through at most MaxFollow     *)
(* symlinks.  kind is "none" if nothing is there, and still "symlink" when *)
(* the limit is reached (SymlinkLoop).                                     *)
(***************************************************************************)
StatStep(x) ==
    IF x.kind # "symlink" THEN {x}
    ELSE {LET k == IF w.at = None THEN "none"
                   ELSE IF kind[w.at] = "symlink" /\ w.at \notin symlinks THEN "none"
                   ELSE kind[w.at]
          IN  [path |-> IF k = "symlink" THEN target[w.at] ELSE x.path,
               cache |-> w.cache, kind |-> k] : w \in Walk(x.path, x.cache)}

Stat(path, c) ==
    LET after[k \in 0 .. MaxFollow] ==
            IF k = 0 THEN {[path |-> path, cache |-> c, kind |-> "symlink"]}
            ELSE UNION {StatStep(x) : x \in after[k - 1]}
    IN  after[MaxFollow]

(***************************************************************************)
(* lstat, stat, readlink, read_file, pread, and every call that fails.     *)
(***************************************************************************)
PathLookup(path) ==
    /\ Idle
    /\ \E x \in Stat(path, cache) : cache' = x.cache
    /\ UNCHANGED <<db, open, op, faults, torn, target>>

(***************************************************************************)
(* mkdir, mknod, symlink, create_file, link: resolve the parent, then as   *)
(* in module AgentFS.                                                      *)
(***************************************************************************)
PathMkdir(dir, n) ==
    \E w \in Walk(dir, cache) :
        /\ w.at # None /\ CallerDir(w.at)
        /\ BeginCreate("mkdir", "dentry", "dir", <<w.at, n>>)
        /\ cache' = w.cache
        /\ UNCHANGED target

PathMknod(dir, n) ==
    \E w \in Walk(dir, cache) :
        /\ w.at # None /\ CallerDir(w.at)
        /\ BeginCreate("mknod", "dentry", "file", <<w.at, n>>)
        /\ cache' = w.cache
        /\ UNCHANGED target

PathSymlink(dir, n, to) ==
    \E w \in Walk(dir, cache) :
        /\ w.at # None /\ CallerDir(w.at)
        /\ BeginCreate("symlink", "target", "symlink", <<w.at, n>>)
        /\ target' = [target EXCEPT ![NewIno] = to]
        /\ cache' = w.cache

PathCreateFile(dir, n) ==
    \E w \in Walk(dir, cache) :
        /\ w.at # None /\ CallerDir(w.at)
        /\ InsertFile(<<w.at, n>>)
        /\ cache' \in CacheInsert(w.cache, <<w.at, n>>, NewIno)
        /\ open' = HoldHandle(NewIno)
        /\ UNCHANGED <<data, target>>

PathLink(old, dir, n) ==
    \E x \in Walk(old, cache) : x.at # None /\
        \E w \in Walk(dir, x.cache) :
            /\ w.at # None /\ CallerDir(w.at)
            /\ BeginLink(x.at, <<w.at, n>>)
            /\ cache' = w.cache
            /\ UNCHANGED target

(***************************************************************************)
(* remove: the inode comes from the path as it is, its kind from stat.     *)
(***************************************************************************)
PathRemove(dir, n) ==
    \E x \in Walk(Append(dir, n), cache) : x.at \notin {None, ROOT_INO} /\ IsEmpty(x.at) /\
        \E st \in Stat(Append(dir, n), x.cache) : st.kind \in {"dir", "file"} /\
            \E w \in Walk(dir, st.cache) :
                /\ w.at # None
                /\ BeginRemove(IF st.kind = "dir" THEN "removedir" ELSE "unlink",
                               x.at, <<w.at, n>>)
                /\ cache' = CacheRemove(w.cache, <<w.at, n>>)
                /\ UNCHANGED target

(***************************************************************************)
(* rename: the source is moved by its entry; the replaced inode comes from *)
(* the path, looked up again inside the transaction.                       *)
(***************************************************************************)
Commit(s, t, i, j, isDir, c) ==
    /\ RenameTxn(s, t, j, isDir)
    /\ cache' \in CacheAfterRename(c, s, t, i)
    /\ UNCHANGED target

PathRename(fromDir, fromName, toDir, toName) ==
    LET from == Append(fromDir, fromName)
        to == Append(toDir, toName)
    IN  \E x \in Walk(from, cache) : x.at # None /\
        \E st \in Stat(from, x.cache) :
            /\ st.kind \in {"dir", "file"}
            /\ st.kind = "dir" => ~IsPrefix(from, to)
            /\ \E p \in Walk(fromDir, st.cache) : p.at # None /\
               \E q \in Walk(toDir, p.cache) : q.at # None /\
               \E y \in Walk(to, q.cache) :
                   LET s == <<p.at, fromName>>
                       t == <<q.at, toName>>
                       isDir == st.kind = "dir"
                   IN  /\ CallerDir(p.at) /\ CallerDir(q.at) /\ CallerRename(s, t)
                       /\ IF y.at = None
                          THEN Commit(s, t, x.at, None, isDir, y.cache)
                          ELSE \E sd \in Stat(to, y.cache) :
                                   /\ sd.kind \in {"dir", "file"}
                                   /\ Replaceable(isDir, y.at, sd.kind = "dir")
                                   /\ Commit(s, t, x.at, y.at, isDir, sd.cache)

(***************************************************************************)
(* pwrite creates a missing file in its transaction and does not cache it; *)
(* truncate and open resolve the path.                                     *)
(***************************************************************************)
\* What the caller checks (EISDIR): neither pwrite nor truncate does.
CallerContent(i) == Guarded => kind[i] # "dir"

PathPwrite(dir, n) ==
    \E w \in Walk(dir, cache) : w.at # None /\
        \E x \in Walk(Append(dir, n), w.cache) :
            /\ cache' = x.cache
            /\ IF x.at = None
               THEN /\ CallerDir(w.at)
                    /\ InsertFile(<<w.at, n>>)
                    /\ data' \in {data, data \cup {NewIno}}
               ELSE /\ Idle
                    /\ CallerContent(x.at)
                    /\ data' \in {data, data \cup {x.at}}
                    /\ UNCHANGED <<kind, nlink, dentry, symlinks, next, op, faults, torn>>
            /\ UNCHANGED <<open, target>>

PathTruncate(path) ==
    /\ Idle
    /\ \E x \in Walk(path, cache) :
        /\ x.at # None /\ CallerContent(x.at)
        /\ data' \in {data \ {x.at}, data, data \cup {x.at}}
        /\ cache' = x.cache
    /\ UNCHANGED <<kind, nlink, dentry, symlinks, next, open, op, faults, torn, target>>

PathOpen(path) ==
    /\ Idle
    /\ \E x \in Walk(path, cache) :
        /\ x.at # None
        /\ open' = HoldHandle(x.at)
        /\ cache' = x.cache
    /\ UNCHANGED <<db, op, faults, torn, target>>

PathInit == Init /\ target = [i \in Ino |-> <<>>]

PathBegin(dir, n) ==
    \/ PathMkdir(dir, n) \/ PathMknod(dir, n) \/ PathCreateFile(dir, n)
    \/ PathRemove(dir, n) \/ PathPwrite(dir, n)
    \/ \E to \in Targets : PathSymlink(dir, n, to)
    \/ \E old \in Paths : PathLink(old, dir, n)
    \/ \E d \in Dirs, m \in Names : PathRename(dir, n, d, m)

\* A symlink that is moved back and forth while its target changes from a
\* directory to a file moves the link counts of its parents without end: no
\* operation begins once a count has left the bounds.  A cut leaves counts of
\* 0, and operations go on with that debris; one more removal makes it -1.
LinksBounded == \A i \in Ino : Exists(i) => nlink[i] \in -1 .. MaxLinks

\* What is done with the handle that open returns is in module AgentFS.
PathNext ==
    \/ \E dir \in Dirs, n \in Names : LinksBounded /\ PathBegin(dir, n)
    \/ \E path \in Paths :
           LinksBounded /\ (PathLookup(path) \/ PathTruncate(path) \/ PathOpen(path))
    \/ Continue /\ UNCHANGED target
    \/ StatementFails /\ UNCHANGED target
    \/ CrashAndReopen /\ UNCHANGED target

PathSpec == PathInit /\ [][PathNext]_pathVars
=============================================================================
