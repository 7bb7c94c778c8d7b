------------------------------ MODULE FuseSession ------------------------------
(***************************************************************************)
(* A FUSE mount: the processes that use it, what the kernel caches for     *)
(* them, the session thread of cli/src/fuser (one request at a time), the  *)
(* handlers of cli/src/fuse.rs over HostFS, and the thread that sends      *)
(* invalidations to the kernel.  One directory, the root, is served.       *)
(*                                                                         *)
(* The kernel side is what the handlers rely on: a process that changes    *)
(* the directory holds its lock until the answer, lookups and listings     *)
(* share it, an invalidation takes it, replies with an entry count as a    *)
(* lookup of its inode, and FORGETs arrive at any later time.              *)
(***************************************************************************)
EXTENDS HostFS, Sequences, SequencesExt

CONSTANTS Callers,   \* processes
          Owner,     \* those running as the user that mounted
          Uses,      \* caller -> the requests it makes
          MaxCalls   \* bound: requests sent in all

VARIABLES
    h,          \* HostFS and the host directory
    openFiles,  \* fh -> host inode of the open file
    nextFh,
    state,      \* of the session: "new", "ready", "drain", "ended"
    at,         \* the request the session thread works on, or Nothing
    due,        \* invalidations the running handler still has to queue
    inval,      \* the deferred notifications, in order
    sending,    \* a name the notify thread is invalidating, or NoName
    queue,      \* requests the kernel has for /dev/fuse
    forgets,    \* inode -> lookups the kernel gives back
    dentry,     \* name -> inode number the kernel caches, or None
    refs,       \* inode -> lookups the kernel holds
    lock,       \* who holds the directory's lock
    pending,    \* caller -> TRUE while it waits for an answer
    held,       \* caller -> handles it has open
    errors,     \* errnos processes were told
    calls,      \* requests sent so far
    mounted,    \* the kernel still has the mount
    given,      \* history: inode -> host inode it was given out for
    linked      \* history: inodes answered to a LINK request

kernel == <<queue, forgets, dentry, refs, lock, pending, held, errors, calls, mounted, given, linked>>
daemon == <<h, openFiles, nextFh, state, at, due, inval, sending>>
vars == <<h, openFiles, nextFh, state, at, due, inval, sending, queue, forgets, dentry, refs, lock,
          pending, held, errors, calls, mounted, given, linked>>

NoName == "none"
ASSUME FuseAssumption == MaxCalls \in Nat /\ NoName \notin Names /\ "none" \notin Callers
Nothing == [op |-> "none", c |-> "none", n |-> NoName, m |-> NoName, ino |-> None, fh |-> None]
NotifyThread == "notify"

Changing == {"create", "mkdir", "mknod", "symlink", "unlink", "rmdir", "link", "rename"}
Sharing == {"lookup", "readdir"}
OnInode == {"open", "getattr", "setattr", "readlink"}
OnHandle == {"read", "write", "flush", "fsync", "release"}

Init ==
    /\ \E N \in SUBSET Names \ {{}} : \* one file, under one name or hard-linked
          h = [NewHost EXCEPT !.dir = [n \in Names |-> IF n \in N THEN Min(HostInodes) ELSE None]]
    /\ openFiles = [f \in {} |-> None] /\ nextFh = 1
    /\ state = "new" /\ at = Nothing /\ due = <<>> /\ inval = <<>> /\ sending = NoName
    /\ queue = <<[Nothing EXCEPT !.op = "init"]>>
    /\ forgets = [i \in {} |-> None] /\ dentry = [n \in Names |-> None]
    /\ refs = [i \in {} |-> None] /\ lock = {} /\ pending = [c \in Callers |-> FALSE]
    /\ held = [c \in Callers |-> {}] /\ errors = {}
    /\ calls = 0 /\ mounted = TRUE /\ given = [i \in {} |-> None] /\ linked = {}

-----------------------------------------------------------------------------
(* The kernel.                                                             *)

Free == lock = {}
Shared == \A l \in lock : l[2] = "shared"
HandlesOn(i) == \E c \in Callers : \E fh \in held[c] : given[i] = openFiles[fh]

Send(c, r) ==
    /\ mounted /\ ~pending[c] /\ calls < MaxCalls /\ r.op \in Uses[c]
    /\ calls' = calls + 1
    /\ queue' = Append(queue, [r EXCEPT !.c = c])
    /\ pending' = [pending EXCEPT ![c] = TRUE]
    /\ lock' = IF r.op \in Changing THEN lock \cup {<<c, "alone">>}
               ELSE IF r.op \in Sharing THEN lock \cup {<<c, "shared">>}
               ELSE lock
    /\ UNCHANGED <<daemon, forgets, dentry, refs, held, errors, mounted, given, linked>>

Req(op, n, m, i, fh) == [op |-> op, c |-> "none", n |-> n, m |-> m, ino |-> i, fh |-> fh]

\* A name that is not cached is looked up; a listing is never cached.
CallShared(c, op, n) ==
    /\ Shared /\ op = "lookup" => dentry[n] = None
    /\ Send(c, Req(op, n, NoName, ROOT_INO, None))

\* The name was looked up under the lock and is free.
CallCreate(c, op, n) == Free /\ h.dir[n] = None /\ Send(c, Req(op, n, NoName, ROOT_INO, None))

CallRemove(c, op, n) ==
    /\ Free /\ dentry[n] # None
    /\ (op = "rmdir") = (h.kind[given[dentry[n]]] = "dir")
    /\ Send(c, Req(op, n, NoName, ROOT_INO, None))

CallMove(c, op, n, m) ==
    /\ Free /\ n # m /\ dentry[n] # None
    /\ op = "link" => h.dir[m] = None /\ h.kind[given[dentry[n]]] # "dir"
    /\ op = "rename" /\ h.dir[m] # None => (h.kind[h.dir[m]] = "dir") = (h.kind[given[dentry[n]]] = "dir")
    /\ Send(c, Req(op, n, m, dentry[n], None))

CallOnInode(c, op, n) == dentry[n] # None /\ Send(c, Req(op, n, NoName, dentry[n], None))

CallOnHandle(c, op) == op # "release" /\ \E fh \in held[c] : Send(c, Req(op, NoName, NoName, None, fh))

\* The last close: RELEASE is sent in the background, nobody waits for it.
Close(c) ==
    /\ mounted /\ ~pending[c]
    /\ \E fh \in held[c] :
          /\ held' = [held EXCEPT ![c] = @ \ {fh}]
          /\ queue' = Append(queue, Req("release", NoName, NoName, None, fh))
    /\ UNCHANGED <<daemon, forgets, dentry, refs, lock, pending, errors, calls, mounted, given, linked>>

\* Memory pressure: a dentry goes, and with its inode's last user a FORGET is
\* sent for all its lookups.
Unpinned(i, d) ==
    /\ i \in DOMAIN refs /\ \A n \in Names : d[n] # i
    /\ ~HandlesOn(i)
    /\ \A k \in 1..Len(queue) : queue[k].ino # i
    /\ at.ino # i

Evict(n) ==
    /\ dentry[n] # None /\ Free
    /\ dentry' = [dentry EXCEPT ![n] = None]
    /\ UNCHANGED <<daemon, queue, forgets, refs, lock, pending, held, errors, calls, mounted, given, linked>>

Forget(i) ==
    /\ Unpinned(i, dentry)
    /\ forgets' = [j \in DOMAIN forgets \cup {i} |->
                     IF j # i THEN forgets[j]
                     ELSE refs[i] + (IF i \in DOMAIN forgets THEN forgets[i] ELSE 0)]
    /\ refs' = Restrict(refs, DOMAIN refs \ {i})
    /\ UNCHANGED <<daemon, queue, dentry, lock, pending, held, errors, calls, mounted, given, linked>>

\* umount or an abort: every waiting process is released, /dev/fuse gives ENODEV.
Unmount ==
    /\ mounted /\ mounted' = FALSE
    /\ queue' = <<>> /\ forgets' = [i \in {} |-> None] /\ refs' = [i \in {} |-> None]
    /\ dentry' = [n \in Names |-> None]
    /\ lock' = lock \ {<<c, k>> : c \in Callers, k \in {"alone", "shared"}}
    /\ pending' = [c \in Callers |-> FALSE] /\ held' = [c \in Callers |-> {}]
    /\ UNCHANGED <<daemon, errors, calls, given, linked>>

-----------------------------------------------------------------------------
(* The session thread.                                                     *)

Looping == state \in {"new", "ready"} /\ at = Nothing /\ due = <<>>

Receive ==
    /\ Looping /\ mounted /\ queue # <<>>
    /\ at' = Head(queue) /\ queue' = Tail(queue)
    /\ UNCHANGED <<h, openFiles, nextFh, state, due, inval, sending, forgets, dentry, refs, lock,
                   pending, held, errors, calls, mounted, given, linked>>

\* What an answer does in the kernel; a write after the unmount is lost.
Answer(a, d, rf, hd) ==
    /\ at' = Nothing
    /\ IF mounted /\ at.c \in Callers
       THEN /\ pending' = [pending EXCEPT ![at.c] = FALSE]
            /\ lock' = {l \in lock : l[1] # at.c}
            /\ dentry' = d /\ refs' = rf /\ held' = hd
            /\ errors' = errors \cup ({a} \ {"ok"})
       ELSE UNCHANGED <<pending, lock, dentry, refs, held, errors>>
    /\ UNCHANGED <<state, inval, sending, queue, forgets, calls, mounted>>

Error(a) == Answer(a, dentry, refs, held) /\ due' = <<>> /\ UNCHANGED <<h, openFiles, nextFh, given, linked>>

\* A reply with an entry: one more lookup of inode i, cached under name n.
Entry(n, i, h2, hd) ==
    /\ h' = h2 /\ due' = <<>>
    /\ given' = [j \in DOMAIN given \cup {i} |-> IF j = i THEN h2.cache[i].src ELSE given[j]]
    /\ Answer("ok", [dentry EXCEPT ![n] = i],
              [j \in DOMAIN refs \cup {i} |->
                 (IF j \in DOMAIN refs THEN refs[j] ELSE 0) + (IF j = i THEN 1 ELSE 0)], hd)

\* Requests of other users are refused, except those the kernel sends itself.
Permitted == at.c \notin Callers \/ at.c \in Owner \/ at.op \in {"read", "readdir", "write", "fsync", "release"}
Working(op) == at.op = op /\ (op = "init" \/ state = "ready") /\ Permitted

Refuse == at # Nothing /\ at.op # "init" /\ ~Permitted /\ Error("EACCES")

HandleInit ==
    /\ Working("init") /\ at' = Nothing /\ state' = "ready"
    /\ UNCHANGED <<h, openFiles, nextFh, due, inval, sending, kernel>>

\* That there is no such name is no failure.
HandleLookup ==
    /\ Working("lookup")
    /\ IF h.dir[at.n] = None THEN Error("ok")
       ELSE LET h2 == HostLookup(h, at.n)
            IN Entry(at.n, InoOf(h2, h.dir[at.n]), h2, held) /\ UNCHANGED <<openFiles, nextFh, linked>>

HandleGetattr == Working("getattr") /\ Error(IF HostGetattr(h, at.ino) THEN "ok" ELSE "ENOENT")

\* chmod, chown, truncate, utimens in turn; a failure leaves the earlier ones.
HandleSetattr == Working("setattr") /\ Error(IF HostChange(h, at.ino) THEN "ok" ELSE "ENOENT")

HandleReadlink == Working("readlink") /\ Error(IF HostReadlink(h, at.ino) THEN "ok" ELSE "ENOENT")

\* The listing is taken from readdir_plus.
HandleReaddir ==
    /\ Working("readdir") /\ due' = <<>>
    /\ \E new \in NewInodes(h) : h' = HostReaddirPlus(h, new)
    /\ Answer("ok", dentry, refs, held)
    /\ UNCHANGED <<openFiles, nextFh, given, linked>>

\* The host gives a new file the lowest number that nothing keeps, or none.
HostFull == Unused(h, Range(openFiles)) = {}
NewHostInode == Min(Unused(h, Range(openFiles)))

Created(h2) ==
    IF HostFull THEN Error("ENOSPC")
    ELSE Entry(at.n, InoOf(h2, h2.dir[at.n]), h2, held) /\ UNCHANGED <<openFiles, nextFh, linked>>
HandleMknod == Working("mknod") /\ Created(HostMknod(h, at.n, NewHostInode))
HandleMkdir == Working("mkdir") /\ Created(HostMkdir(h, at.n, NewHostInode))
HandleSymlink == Working("symlink") /\ Created(HostSymlink(h, at.n, NewHostInode))

AllocFh == nextFh' = nextFh + 1

Opened(f) == openFiles' = [x \in DOMAIN openFiles \cup {nextFh} |-> IF x = nextFh THEN f ELSE openFiles[x]]
Holding == [c \in Callers |-> IF c = at.c THEN held[c] \cup {nextFh} ELSE held[c]]

HandleCreate ==
    /\ Working("create")
    /\ IF HostFull THEN Error("ENOSPC")
       ELSE LET f == NewHostInode
                h2 == HostCreateFile(h, at.n, f)
            IN Entry(at.n, InoOf(h2, f), h2, Holding) /\ Opened(f) /\ AllocFh /\ UNCHANGED linked

HandleOpen ==
    /\ Working("open")
    /\ IF ~HostOpen(h, at.ino) THEN Error("ENOENT")
       ELSE /\ Opened(h.cache[at.ino].src) /\ AllocFh /\ due' = <<>>
            /\ Answer("ok", dentry, refs, Holding)
            /\ UNCHANGED <<h, given, linked>>

OnOpenFile == Error(IF at.fh \in DOMAIN openFiles THEN "ok" ELSE "EBADF")
HandleRead == Working("read") /\ OnOpenFile
HandleWrite == Working("write") /\ OnOpenFile
HandleFlush == Working("flush") /\ OnOpenFile
HandleFsync == Working("fsync") /\ OnOpenFile

HandleRelease ==
    /\ Working("release")
    /\ openFiles' = Restrict(openFiles, DOMAIN openFiles \ {at.fh})
    /\ Answer("ok", dentry, refs, held) /\ due' = <<>>
    /\ UNCHANGED <<h, nextFh, given, linked>>

\* After a removal or a rename has been answered, the names go to the notifier.
Removed(h2, d, names) ==
    /\ h' = h2 /\ due' = names
    /\ Answer("ok", d, refs, held)
    /\ UNCHANGED <<openFiles, nextFh, given, linked>>

HandleUnlink == Working("unlink") /\ Removed(HostUnlink(h, at.n), [dentry EXCEPT ![at.n] = None], <<at.n>>)
HandleRmdir == Working("rmdir") /\ Removed(HostRmdir(h, at.n), [dentry EXCEPT ![at.n] = None], <<at.n>>)
HandleRename ==
    /\ Working("rename")
    /\ Removed(HostRename(h, at.n, at.m),
               [dentry EXCEPT ![at.m] = dentry[at.n], ![at.n] = None], <<at.n, at.m>>)

HandleLink ==
    /\ Working("link")
    /\ IF ~GetInodeFd(h, at.ino) THEN Error("ENOENT")
       ELSE /\ Entry(at.m, at.ino, HostLink(h, at.ino, at.m), held)
            /\ linked' = linked \cup {at.ino}
            /\ UNCHANGED <<openFiles, nextFh>>

\* FORGET and BATCH_FORGET have no answer.
Forgotten(S) ==
    /\ h' = HostForget(h, Restrict(forgets, S))
    /\ forgets' = Restrict(forgets, DOMAIN forgets \ S)
    /\ UNCHANGED <<openFiles, nextFh, state, at, due, inval, sending, queue, dentry, refs, lock,
                   pending, held, errors, calls, mounted, given, linked>>
HandleForget == Looping /\ state = "ready" /\ \E i \in DOMAIN forgets : Forgotten({i})
HandleBatchForget == Looping /\ state = "ready" /\ Cardinality(DOMAIN forgets) > 1 /\ Forgotten(DOMAIN forgets)

QueueInval_Direct ==
    /\ due # <<>> /\ (mounted => Free)
    /\ due' = Tail(due)
    /\ dentry' = IF mounted THEN [dentry EXCEPT ![Head(due)] = None] ELSE dentry
    /\ UNCHANGED <<h, openFiles, nextFh, state, at, inval, sending, queue, forgets, refs, lock,
                   pending, held, errors, calls, mounted, given, linked>>

QueueInval ==
    /\ due # <<>>
    /\ inval' = Append(inval, Head(due)) /\ due' = Tail(due)
    /\ UNCHANGED <<h, openFiles, nextFh, state, at, sending, kernel>>

\* ENODEV ends the loop, which drops the sender and joins the notify thread.
LeaveLoop ==
    /\ Looping /\ ~mounted /\ state' = "drain"
    /\ UNCHANGED <<h, openFiles, nextFh, at, due, inval, sending, kernel>>

JoinNotifyThread ==
    /\ state = "drain" /\ inval = <<>> /\ sending = NoName /\ state' = "ended"
    /\ UNCHANGED <<h, openFiles, nextFh, at, due, inval, sending, kernel>>

-----------------------------------------------------------------------------
(* The notify thread.                                                      *)

TakeInval ==
    /\ sending = NoName /\ inval # <<>>
    /\ sending' = Head(inval) /\ inval' = Tail(inval)
    /\ UNCHANGED <<h, openFiles, nextFh, state, at, due, kernel>>

\* The write returns once the kernel has locked the directory and dropped the
\* dentry; without a mount it fails and is only logged.
SendInval ==
    /\ sending # NoName /\ (mounted => Free)
    /\ sending' = NoName
    /\ dentry' = IF mounted THEN [dentry EXCEPT ![sending] = None] ELSE dentry
    /\ UNCHANGED <<h, openFiles, nextFh, state, at, due, inval, queue, forgets, refs, lock, pending,
                   held, errors, calls, mounted, given, linked>>

NameRequest ==
    \/ HandleLookup
    \/ HandleGetattr
    \/ HandleSetattr
    \/ HandleReadlink
    \/ HandleMknod
    \/ HandleMkdir
    \/ HandleUnlink
    \/ HandleRmdir
    \/ HandleSymlink
    \/ HandleRename
    \/ HandleLink

FileRequest ==
    \/ HandleOpen
    \/ HandleRead
    \/ HandleWrite
    \/ HandleFlush
    \/ HandleRelease
    \/ HandleFsync
    \/ HandleReaddir

SessionThread ==
    \/ Receive
    \/ Refuse
    \/ HandleInit
    \/ NameRequest
    \/ FileRequest
    \/ HandleCreate
    \/ HandleForget
    \/ HandleBatchForget
    \/ QueueInval
    \/ LeaveLoop
    \/ JoinNotifyThread

Notify == TakeInval \/ SendInval

Kernel ==
    \/ \E c \in Callers, n \in Names :
          \/ \E op \in Sharing : CallShared(c, op, n)
          \/ \E op \in {"create", "mkdir", "mknod", "symlink"} : CallCreate(c, op, n)
          \/ \E op \in {"unlink", "rmdir"} : CallRemove(c, op, n)
          \/ \E op \in OnInode : CallOnInode(c, op, n)
          \/ \E op \in {"link", "rename"}, m \in Names : CallMove(c, op, n, m)
    \/ \E c \in Callers : \E op \in OnHandle : CallOnHandle(c, op)
    \/ \E c \in Callers : Close(c)
    \/ \E n \in Names : Evict(n)
    \/ \E i \in DOMAIN refs : Forget(i)
    \/ Unmount

Next == SessionThread \/ Notify \/ Kernel

\* Both threads run on; processes and the kernel owe nothing.
Spec == Init /\ [][Next]_vars /\ WF_vars(SessionThread) /\ WF_vars(Notify)

-----------------------------------------------------------------------------
TypeOK ==
    /\ \A n \in Names : h.dir[n] \in HostInodes \cup {None} /\ dentry[n] \in Nat
    /\ \A i \in DOMAIN h.cache : i < h.next /\ h.cache[i].src \in HostInodes /\ h.cache[i].nlookup \in Nat \ {0}
    /\ \A i, j \in DOMAIN h.cache : h.cache[i].src = h.cache[j].src => i = j
    /\ DOMAIN openFiles \subseteq 1..nextFh /\ Range(openFiles) \subseteq HostInodes
    /\ state \in {"new", "ready", "drain", "ended"}
    /\ \A i \in DOMAIN refs : refs[i] \in Nat \ {0} /\ i \in DOMAIN given
    /\ calls \in 0..MaxCalls /\ (at = Nothing \/ due = <<>>)

\* An inode the kernel holds lookups of is still cached and still the file it
\* was given out for, whatever FORGETs are late, files removed and host inode
\* numbers reused (get_or_create_inode, forget).
InodesServed ==
    \A i \in DOMAIN refs \ linked : i \in DOMAIN h.cache /\ h.cache[i].src = given[i]

\* A process that uses a handle it holds is never told EBADF, and one that
\* uses an inode it reached never ENOENT, unless the inode was hard-linked:
\* link counts no lookup and the kernel's FORGET takes one too many back.
NoStaleHandle ==
    /\ mounted => \A c \in Callers : held[c] \subseteq DOMAIN openFiles
    /\ "EBADF" \notin errors
    /\ "ENOENT" \in errors => linked # {}

\* Every request is answered, though invalidations need the lock the callers
\* hold; and an unmounted session delivers what is queued and ends.
Progress ==
    /\ \A c \in Callers : pending[c] ~> ~pending[c]
    /\ ~mounted ~> state = "ended"
================================================================================
