------------------------------- MODULE NfsServer -------------------------------
(***************************************************************************)
(* The NFS server of cli/src/nfsserve over AgentNFS.  Each call that a     *)
(* connection delivers runs as a task of its own.  A handler takes the     *)
(* file-system mutex anew for every question it asks, so its steps         *)
(* interleave with those of other tasks; a step here is one holding of the *)
(* mutex.  Post-operation attributes, which are only reported, are left    *)
(* out.                                                                    *)
(*                                                                         *)
(* Clients keep a call until it is answered: they may send it again on     *)
(* the same connection, and do so on the next one after a disconnection.   *)
(***************************************************************************)
EXTENDS AgentNFS, SequencesExt

CONSTANTS Clients,
          Auth,        \* client -> credential
          Scenarios,   \* what is called: client -> sequence of procedures
          Sattrs,      \* new attributes SETATTR is called with
          Tree,        \* the file system to begin with
          PageSize,    \* entries readdir is asked for
          Fit,         \* entries that fit into a READDIRPLUS reply
          MaxXid,      \* bound: calls in all
          MaxConn,     \* bound: connections of a client
          MaxLives,    \* bound: starts of the server
          MaxFaults    \* bound: copies, broken connections, restarts, forgotten calls

ASSUME NfsAssumption ==
    /\ FsOK(Tree) /\ AttrsOK(Tree) /\ PageSize \in Nat /\ Fit \in Nat
    /\ MaxXid \in Nat /\ MaxConn \in Nat /\ MaxLives \in Nat /\ MaxFaults \in Nat

VARIABLES
    script,    \* the scenario of this behaviour
    fs,
    life,      \* the generation number in the file handles
    tasks,     \* running handlers: task -> where it is, what it keeps, its output
    tracker,   \* <<xid, connection>> -> "InProgress" | "Completed"
    calls,     \* xid -> call, for the xids used so far
    waiting,   \* xids whose caller has no answer yet
    conn,      \* client -> number (port) of its connection
    up,        \* client -> the connection is open
    listing,   \* a client's directory enumeration: cookie, names seen, end
    answers,   \* history: xid -> statuses answered
    effects,   \* history: xid -> <<connection, life>> its operation ran in
    expired,   \* history: xids dropped from the tracker
    faults,    \* faults so far
    owed       \* history: inodes a non-root user's write should have stripped of set-id bits

vars == <<script, fs, life, tasks, tracker, calls, waiting, conn, up, listing, answers, effects, expired, faults, owed>>
client == <<script, calls, waiting, conn, up, listing, answers>>

NoVal == "none"
NewListing == [cookie |-> None, seen |-> {}, due |-> {}, moved |-> FALSE, end |-> TRUE]

Init ==
    /\ script \in Scenarios
    /\ fs = Tree /\ life = 1 /\ tasks = <<>> /\ tracker = <<>> /\ calls = <<>> /\ waiting = {}
    /\ conn = [c \in Clients |-> 1] /\ up = [c \in Clients |-> TRUE]
    /\ listing = NewListing /\ answers = <<>> /\ effects = <<>> /\ expired = {} /\ faults = 0 /\ owed = {}

-----------------------------------------------------------------------------
(* Clients.                                                                *)

\* The task of the copy-th arrival of call x on its caller's connection.
Task(x, copy) == [xid |-> x, conn |-> <<calls'[x].c, conn'[calls'[x].c]>>, copy |-> copy]
NewTask == [pc |-> "rpc", kept |-> NoVal, out |-> <<>>, made |-> None]
Spawn(T) == tasks' = [t \in DOMAIN tasks \cup T |-> IF t \in T THEN NewTask ELSE tasks[t]]

Call(proc, id, d, n, e, m) ==
    [c |-> NoVal, proc |-> proc, life |-> life, id |-> id, d |-> d, n |-> n, e |-> e, m |-> m,
     sattr |-> NoVal, guard |-> None, cookie |-> None]

Send(c, call) ==
    /\ up[c] /\ Len(calls) < MaxXid
    /\ LET k == Cardinality({x \in DOMAIN calls : calls[x].c = c}) + 1
       IN k <= Len(script[c]) /\ call.proc = script[c][k]
    /\ calls' = Append(calls, [call EXCEPT !.c = c])
    /\ waiting' = waiting \cup {Len(calls')}
    /\ answers' = Append(answers, <<>>) /\ effects' = Append(effects, <<>>)
    /\ UNCHANGED <<conn, up>>
    /\ Spawn({Task(Len(calls'), 1)})
    /\ UNCHANGED <<script, fs, life, tracker, expired, faults, owed>>

Files == {i \in DOMAIN fs.attr : ~IsDir(fs, i)}
Dirs == {i \in DOMAIN fs.attr : IsDir(fs, i)}
OnObject == {"GETATTR", "READ", "FSINFO", "ACCESS", "PATHCONF", "FSSTAT", "WRITE", "READLINK"}
OnName == {"LOOKUP", "CREATE", "GUARDED", "EXCLUSIVE", "REMOVE", "MKDIR", "SYMLINK", "MKNOD"}
Other == {"NULL", "COMMIT", "MNT", "UMNT", "GETPORT", "ACL", "BADVERS", "MALFORMED"}

SendOther(c) == \E p \in Other : Send(c, Call(p, None, None, None, None, None)) /\ UNCHANGED listing
SendOnObject(c) == \E p \in OnObject, i \in Files :
    Send(c, Call(p, i, None, None, None, None)) /\ UNCHANGED listing
SendOnName(c) == \E p \in OnName, d \in Dirs, n \in Names :
    Send(c, Call(p, None, d, n, None, None)) /\ UNCHANGED listing
SendRename(c) == \E s, t \in Dirs \X Names :
    /\ s # t /\ At(fs, s[1], s[2]) \notin {None, t[1]}
    /\ Send(c, Call("RENAME", None, s[1], s[2], t[1], t[2])) /\ UNCHANGED listing
SendLink(c) == \E i \in Files, d \in Dirs, n \in Names :
    Send(c, Call("LINK", i, d, n, None, None)) /\ UNCHANGED listing
\* The guard is the ctime the client knows.
SendSetattr(c) == \E i \in Files, a \in Sattrs : \E g \in {None, fs.attr[i].ctime + 1} :
    /\ Send(c, [Call("SETATTR", i, None, None, None, None) EXCEPT !.sattr = a, !.guard = g])
    /\ UNCHANGED listing

\* An enumeration of the root begins, or goes on with the cookie it has; it
\* has to show the entries there are from its beginning to its end.
SendReaddirplus(c) ==
    /\ \A x \in waiting : calls[x].proc # "READDIRPLUS"
    /\ listing' = IF listing.end
                  THEN [NewListing EXCEPT !.due = {s \in DOMAIN fs.dentry : s[1] = ROOT_INO},
                                              !.moved = Cardinality(Range(fs.dentry)) < Cardinality(DOMAIN fs.dentry),
                                              !.end = FALSE]
                  ELSE listing
    /\ Send(c, [Call("READDIRPLUS", ROOT_INO, None, None, None, None) EXCEPT !.cookie = listing'.cookie])
SendReaddir(c) ==
    Send(c, Call("READDIR", ROOT_INO, None, None, None, None)) /\ UNCHANGED listing

Fault == faults < MaxFaults /\ faults' = faults + 1

\* A time-out: the call is sent again on the same connection.
Retransmit(x) ==
    /\ Fault
    /\ x \in waiting /\ up[calls[x].c]
    /\ UNCHANGED client
    /\ Task(x, 2) \notin DOMAIN tasks /\ Spawn({Task(x, 2)})
    /\ UNCHANGED <<fs, life, tracker, effects, expired, owed>>

Disconnect(c) ==
    /\ Fault
    /\ up[c] /\ conn[c] < MaxConn
    /\ up' = [up EXCEPT ![c] = FALSE]
    /\ UNCHANGED <<script, fs, life, tasks, tracker, calls, waiting, conn, listing, answers, effects, expired, owed>>

\* A new connection has a new port; what is unanswered is sent again.
Reconnect(c) ==
    /\ ~up[c] /\ conn[c] < MaxConn
    /\ up' = [up EXCEPT ![c] = TRUE] /\ conn' = [conn EXCEPT ![c] = @ + 1]
    /\ UNCHANGED <<script, calls, waiting, listing, answers>>
    /\ Spawn({Task(x, 1) : x \in {y \in waiting : calls[y].c = c}})
    /\ UNCHANGED <<fs, life, tracker, effects, expired, faults, owed>>

-----------------------------------------------------------------------------
(* Tasks.                                                                  *)

CallOf(t) == calls[t.xid]
AuthOf(t) == Auth[CallOf(t).c]
In(t, proc, pc) == CallOf(t).proc = proc /\ tasks[t].pc = pc
Kept(t) == tasks[t].kept
End(t) == tasks' = Restrict(tasks, DOMAIN tasks \ {t})

Become(t, u) ==
    /\ tasks' = [tasks EXCEPT ![t] = u]
    /\ UNCHANGED <<life, tracker, client, expired, faults>>

Respond(t, st) ==
    /\ Become(t, [tasks[t] EXCEPT !.pc = "reply", !.out = Append(@, st)])
    /\ UNCHANGED <<fs, effects, owed>>
Proceed(t, pc, v) ==
    /\ Become(t, [tasks[t] EXCEPT !.pc = pc, !.kept = v])
    /\ UNCHANGED <<fs, effects, owed>>
Decide(t, ok, pc, v) == IF ok THEN Proceed(t, pc, v) ELSE Respond(t, "ACCES")

\* The listing's cookie cannot be trusted any more: the names of the inode it
\* stands for have changed.
Moved(f) == listing.cookie # None /\ NamesOf(f, listing.cookie) # NamesOf(fs, listing.cookie)

\* The operation itself and the answer r that it gives.
Perform(t, r, o) ==
    /\ tasks' = [tasks EXCEPT ![t] = [tasks[t] EXCEPT !.pc = "reply", !.out = Append(@, r.st), !.made = r.id]]
    /\ fs' = r.fs /\ owed' = o
    /\ effects' = IF r.st = "OK" THEN [effects EXCEPT ![t.xid] = Append(@, <<t.conn, life>>)] ELSE effects
    /\ listing' = [listing EXCEPT
                      !.due = {s \in @ : At(r.fs, s[1], s[2]) = At(fs, s[1], s[2])},
                      !.moved = @ \/ Moved(r.fs)]
    /\ UNCHANGED <<script, life, tracker, calls, waiting, conn, up, answers, expired, faults>>

\* fh_to_id and getattr, with which the handlers begin: a handle of an earlier
\* life of the server is stale, an inode may be gone.
fh_to_id(t, A) == IF CallOf(t).life # life THEN Respond(t, "STALE") ELSE A
Admit(t, i, A) == fh_to_id(t, IF vfs_getattr(fs, i).st = "OK" THEN A ELSE Respond(t, "NOENT"))

-----------------------------------------------------------------------------
(* handle_rpc.                                                             *)

is_retransmission_Completed(k) == k \in DOMAIN tracker /\ tracker[k] = "Completed"
is_retransmission_AnyPort(k) == \E x \in DOMAIN tracker : x[1] = k[1] /\ x[2][1] = k[2][1]
is_retransmission(k) == k \in DOMAIN tracker

Mark(k, state) == tracker' = [x \in DOMAIN tracker \cup {k} |-> IF x = k THEN state ELSE tracker[x]]

\* A new call is InProgress; a retransmission ends here, without an answer.
handle_rpc(t) ==
    /\ tasks[t].pc = "rpc"
    /\ LET k == <<t.xid, t.conn>>
       IN IF CallOf(t).proc = "BADVERS"
          THEN Become(t, [tasks[t] EXCEPT !.pc = "reply", !.out = <<"RPC_MISMATCH">>])
          ELSE /\ IF is_retransmission(k)
                  THEN End(t) /\ UNCHANGED tracker
                  ELSE tasks' = [tasks EXCEPT ![t].pc = "start"] /\ Mark(k, "InProgress")
               /\ UNCHANGED <<life, client, expired, faults>>
    /\ UNCHANGED <<fs, effects, owed>>

housekeeping_All(k) ==
    /\ Fault
    /\ k \in DOMAIN tracker
    /\ tracker' = [x \in DOMAIN tracker \ {k} |-> tracker[x]]
    /\ expired' = expired \cup {k[1]}
    /\ UNCHANGED <<fs, life, tasks, client, effects, owed>>

\* housekeeping drops what was completed more than a minute ago.
housekeeping(k) ==
    /\ Fault
    /\ k \in DOMAIN tracker /\ tracker[k] = "Completed"
    /\ tracker' = [x \in DOMAIN tracker \ {k} |-> tracker[x]]
    /\ expired' = expired \cup {k[1]}
    /\ UNCHANGED <<fs, life, tasks, client, effects, owed>>

\* The answer reaches the client if the connection is still the one it came in.
Delivered(t) == up[t.conn[1]] /\ conn[t.conn[1]] = t.conn[2] /\ t.xid \in waiting

\* What the client takes from a page: its names and the cookie of the last,
\* whose entry may have moved since the page was made.
TakePage(t) ==
    IF CallOf(t).proc # "READDIRPLUS" \/ tasks[t].out # <<"OK">> THEN listing
    ELSE IF Kept(t).slots = <<>> THEN [listing EXCEPT !.end = Kept(t).end]
    ELSE LET s == Last(Kept(t).slots)
         IN [listing EXCEPT
               !.seen = @ \cup ToSet(Kept(t).slots), !.end = Kept(t).end, !.cookie = s[3],
               !.moved = @ \/ NamesOf(fs, s[3]) # {<<s[1], s[2]>>}]

mark_processed(t) == IF <<t.xid, t.conn>> \in DOMAIN tracker
                     THEN Mark(<<t.xid, t.conn>>, "Completed") ELSE UNCHANGED tracker

reply(t) ==
    /\ tasks[t].pc = "reply" /\ mark_processed(t)
    /\ End(t)
    /\ IF Delivered(t)
       THEN /\ waiting' = waiting \ {t.xid}
            /\ answers' = [answers EXCEPT ![t.xid] = Append(@, [st |-> Head(tasks[t].out), id |-> tasks[t].made])]
            /\ listing' = TakePage(t)
       ELSE UNCHANGED <<waiting, answers, listing>>
    /\ UNCHANGED <<script, fs, life, calls, conn, up, effects, expired, faults, owed>>

\* A handler that cannot read its arguments ends the connection.
handler_error(t) ==
    /\ In(t, "MALFORMED", "start") /\ mark_processed(t)
    /\ End(t)
    /\ up' = IF conn[t.conn[1]] = t.conn[2] THEN [up EXCEPT ![t.conn[1]] = FALSE] ELSE up
    /\ waiting' = waiting \ {t.xid}
    /\ UNCHANGED <<script, fs, life, calls, conn, listing, answers, effects, expired, faults, owed>>

handle_mount(t) ==
    \/ In(t, "MNT", "start") /\ Respond(t, vfs_getattr(fs, ROOT_INO).st)
    \/ In(t, "UMNT", "start") /\ Respond(t, "OK")
handle_portmap(t) == In(t, "GETPORT", "start") /\ Respond(t, "OK")
unavailable(t) == (In(t, "ACL", "start") \/ In(t, "COMMIT", "start")) /\ Respond(t, "UNAVAIL")

-----------------------------------------------------------------------------
(* Handlers that change nothing.                                           *)

nfsproc3_null(t) == In(t, "NULL", "start") /\ Respond(t, "OK")
nfsproc3_getattr(t) == In(t, "GETATTR", "start") /\ Admit(t, CallOf(t).id, Respond(t, "OK"))

\* The attributes are optional in these three answers.
nfsproc3_fsinfo(t) == In(t, "FSINFO", "start") /\ fh_to_id(t, Respond(t, "OK"))
nfsproc3_pathconf(t) == In(t, "PATHCONF", "start") /\ fh_to_id(t, Respond(t, "OK"))
nfsproc3_fsstat(t) == In(t, "FSSTAT", "start") /\ fh_to_id(t, Respond(t, "OK"))

AllAccess == {"READ", "LOOKUP", "MODIFY", "EXTEND", "DELETE", "EXECUTE"}
nfsproc3_access(t) ==
    /\ In(t, "ACCESS", "start")
    /\ Admit(t, CallOf(t).id,
             /\ Become(t, [tasks[t] EXCEPT !.pc = "reply", !.out = <<"OK">>,
                                    !.kept = compute_access(AuthOf(t), fs.attr[CallOf(t).id], AllAccess)])
             /\ UNCHANGED <<fs, effects, owed>>)

nfsproc3_lookup(t) ==
    \/ In(t, "LOOKUP", "start") /\
       Admit(t, CallOf(t).d, Decide(t, can_execute(AuthOf(t), fs.attr[CallOf(t).d]), "op", NoVal))
    \/ In(t, "LOOKUP", "op") /\ LET r == vfs_lookup(fs, CallOf(t).d, CallOf(t).n)
                                IN IF r.st = "OK" THEN Proceed(t, "attr", NoVal) ELSE Respond(t, r.st)
    \/ In(t, "LOOKUP", "attr") /\ Respond(t, "OK")

nfsproc3_read(t) ==
    \/ In(t, "READ", "start") /\
       Admit(t, CallOf(t).id, Decide(t, can_read(AuthOf(t), fs.attr[CallOf(t).id]), "op", NoVal))
    \/ In(t, "READ", "op") /\ Respond(t, vfs_read(fs, CallOf(t).id).st)

nfsproc3_readlink(t) ==
    \/ In(t, "READLINK", "start") /\ Admit(t, CallOf(t).id, Proceed(t, "op", NoVal))
    \/ In(t, "READLINK", "op") /\ Respond(t, vfs_readlink(fs, CallOf(t).id).st)

\* Entries are written while they fit; only if all did is the end passed on.
Page(t, p) ==
    LET d == CallOf(t).id
        fit == SubSeq(p.names, 1, Min({Fit, Len(p.names)}))
        slots == [k \in DOMAIN fit |-> <<d, fit[k], At(fs, d, fit[k])>>]
    IN /\ Become(t, [tasks[t] EXCEPT !.pc = "reply", !.out = <<"OK">>,
                              !.kept = [slots |-> slots, end |-> p.end /\ Len(fit) = Len(p.names)]])
       /\ UNCHANGED <<fs, effects, owed>>

MayList(t) == Admit(t, CallOf(t).id, Decide(t, can_read(AuthOf(t), fs.attr[CallOf(t).id]), "op", NoVal))

nfsproc3_readdirplus(t) ==
    \/ In(t, "READDIRPLUS", "start") /\ MayList(t)
    \/ In(t, "READDIRPLUS", "op") /\ Page(t, vfs_readdir(fs, CallOf(t).id, CallOf(t).cookie, PageSize))

\* readdir_simple takes no cookie: every page is the first.
nfsproc3_readdir(t) ==
    \/ In(t, "READDIR", "start") /\ MayList(t)
    \/ In(t, "READDIR", "op") /\ Page(t, vfs_readdir(fs, CallOf(t).id, None, PageSize))

-----------------------------------------------------------------------------
(* Handlers that change the file system.                                   *)

SetId == {<<"special", "suid">>, <<"special", "sgid">>}
NoSattr == [mode |-> Void, uid |-> Void, gid |-> Void, size |-> FALSE, times |-> FALSE]

\* A write by a user other than root takes the set-id bits away, under another
\* holding of the mutex and from the mode that the write saw.  If that fails,
\* the answer is OK all the same and nothing more is owed.
nfsproc3_write_Kept(t) ==
    \/ In(t, "WRITE", "start") /\
       Admit(t, CallOf(t).id, Decide(t, can_write(AuthOf(t), fs.attr[CallOf(t).id]), "op", NoVal))
    \/ /\ In(t, "WRITE", "op")
       /\ LET i == CallOf(t).id
              r == vfs_write(fs, i)
          IN Perform(t, r, IF r.st = "OK" /\ AuthOf(t).uid # RootUid THEN owed \cup {i} ELSE owed)

Clears(t, i) == In(t, "WRITE", "clear") /\ CallOf(t).id = i
nfsproc3_write(t) ==
    \/ In(t, "WRITE", "start") /\
       Admit(t, CallOf(t).id, Decide(t, can_write(AuthOf(t), fs.attr[CallOf(t).id]), "op", NoVal))
    \/ /\ In(t, "WRITE", "op")
       /\ LET i == CallOf(t).id
              r == vfs_write(fs, i)
              unprivileged == r.st = "OK" /\ AuthOf(t).uid # RootUid
              due == IF unprivileged THEN owed \cup {i} ELSE owed
          IN IF unprivileged /\ r.fs.attr[i].mode \cap SetId # {}
             THEN /\ Become(t, [tasks[t] EXCEPT !.pc = "clear", !.kept = r.fs.attr[i].mode \ SetId])
                  /\ fs' = r.fs /\ owed' = due /\ UNCHANGED effects
             ELSE Perform(t, r, due)
    \/ /\ In(t, "WRITE", "clear")
       /\ LET i == CallOf(t).id
          IN \E r \in vfs_setattr(fs, i, [NoSattr EXCEPT !.mode = Some(Kept(t))]) :
                Perform(t, [r EXCEPT !.st = "OK"], IF r.st = "OK" THEN owed \cup {i} ELSE owed \ {i})

\* Whether the caller may make these changes to a file with attributes a.
Refused(auth, a, n) ==
    IF n.size /\ ~can_write(auth, a) THEN "ACCES"
    ELSE IF n.mode # Void /\ ~is_owner(auth, a) THEN "PERM"
    ELSE IF n.uid # Void /\ auth.uid # RootUid /\ n.uid # Some(a.uid) THEN "PERM"
    ELSE IF n.gid # Void /\ auth.uid # RootUid /\ ~(is_owner(auth, a) /\ is_in_group(auth, Value(n.gid))) THEN "PERM"
    ELSE IF n.times /\ ~is_owner(auth, a) THEN "PERM"
    ELSE "OK"

\* The mode that is stored: no set-gid for a group the caller is not in, no
\* set-id bits after a change of owner or group.
NewMode(auth, a, n) ==
    IF auth.uid = RootUid THEN n.mode
    ELSE IF n.mode # Void
    THEN IF is_in_group(auth, IF n.gid # Void THEN Value(n.gid) ELSE a.gid)
         THEN n.mode ELSE Some(Value(n.mode) \ {<<"special", "sgid">>})
    ELSE IF (n.uid # Void \/ n.gid # Void) /\ a.mode \cap SetId # {} THEN Some(a.mode \ SetId)
    ELSE Void

\* A guard that does not match writes NOT_SYNC, and the call goes on.
nfsproc3_setattr(t) ==
    \/ /\ In(t, "SETATTR", "start")
       /\ Admit(t, CallOf(t).id,
             LET a == fs.attr[CallOf(t).id]
                 n == CallOf(t).sattr
                 st == Refused(AuthOf(t), a, n)
                 stale == CallOf(t).guard \notin {None, a.ctime + 1}
             IN IF st # "OK" THEN Respond(t, st)
                ELSE /\ Become(t, [tasks[t] EXCEPT !.pc = "op", !.kept = [n EXCEPT !.mode = NewMode(AuthOf(t), a, n)],
                                            !.out = IF stale THEN <<"NOT_SYNC">> ELSE <<>>])
                     /\ UNCHANGED <<fs, effects, owed>>)
    \/ /\ In(t, "SETATTR", "op")
       /\ \E r \in vfs_setattr(fs, CallOf(t).id, Kept(t)) :
             Perform(t, r, IF r.fs # fs /\ Kept(t).mode # Void /\ Value(Kept(t).mode) \cap SetId # {}
                           THEN owed \ {CallOf(t).id} ELSE owed)

\* The beginning of the calls that add an entry to directory d.
MayModify(t, d, pc) == Admit(t, d, Decide(t, can_modify_directory(AuthOf(t), fs.attr[d]), pc, NoVal))

nfsproc3_create(t) ==
    \/ In(t, "CREATE", "start") /\ MayModify(t, CallOf(t).d, "op")
    \/ In(t, "EXCLUSIVE", "start") /\ MayModify(t, CallOf(t).d, "op")
    \/ In(t, "GUARDED", "start") /\ MayModify(t, CallOf(t).d, "look")
    \/ In(t, "GUARDED", "look") /\
       IF vfs_lookup(fs, CallOf(t).d, CallOf(t).n).st = "OK" THEN Respond(t, "EXIST") ELSE Proceed(t, "op", NoVal)
    \/ In(t, "EXCLUSIVE", "op") /\ Perform(t, vfs_create_exclusive(fs, CallOf(t).d, CallOf(t).n, AuthOf(t)), owed)
    \/ (In(t, "CREATE", "op") \/ In(t, "GUARDED", "op")) /\
       Perform(t, vfs_create(fs, CallOf(t).d, CallOf(t).n, AuthOf(t)), owed)

nfsproc3_mkdir(t) ==
    \/ In(t, "MKDIR", "start") /\ MayModify(t, CallOf(t).d, "op")
    \/ In(t, "MKDIR", "op") /\ Perform(t, vfs_mkdir(fs, CallOf(t).d, CallOf(t).n, AuthOf(t)), owed)

nfsproc3_symlink(t) ==
    \/ In(t, "SYMLINK", "start") /\ MayModify(t, CallOf(t).d, "op")
    \/ In(t, "SYMLINK", "op") /\ Perform(t, vfs_symlink(fs, CallOf(t).d, CallOf(t).n, AuthOf(t)), owed)

nfsproc3_mknod(t) ==
    \/ In(t, "MKNOD", "start") /\ MayModify(t, CallOf(t).d, "op")
    \/ In(t, "MKNOD", "op") /\ Perform(t, vfs_mknod(fs, CallOf(t).d, CallOf(t).n, AuthOf(t)), owed)

\* The file first, then the directory.
nfsproc3_link(t) ==
    \/ In(t, "LINK", "start") /\ Admit(t, CallOf(t).id,
          IF IsDir(fs, CallOf(t).id) THEN Respond(t, "ISDIR") ELSE Proceed(t, "dir", NoVal))
    \/ In(t, "LINK", "dir") /\ MayModify(t, CallOf(t).d, "op")
    \/ In(t, "LINK", "op") /\ Perform(t, vfs_link(fs, CallOf(t).id, CallOf(t).d, CallOf(t).n), owed)

\* In a directory with the sticky bit the entry is looked up (at "look") and
\* its attributes read (at "entry") before the caller may take its name away.
Sticky(a) == <<"special", "sticky">> \in a.mode
FromDir(t, a, k, look, ok) ==
    IF Sticky(a) THEN Proceed(t, look, k) ELSE Decide(t, can_modify_directory(AuthOf(t), a), ok, k)
LookEntry(t, a, d, n, entry, ok) ==
    LET r == vfs_lookup(fs, d, n)
    IN IF r.st = "OK" THEN Proceed(t, entry, [Kept(t) EXCEPT !.id = r.id])
       ELSE Decide(t, can_modify_directory(AuthOf(t), a), ok, Kept(t))
MayTake(t, a, e) == IF Exists(fs, e) THEN can_delete_entry(AuthOf(t), a, fs.attr[e])
                    ELSE can_modify_directory(AuthOf(t), a)

nfsproc3_remove(t) ==
    \/ In(t, "REMOVE", "start") /\ Admit(t, CallOf(t).d,
          LET a == fs.attr[CallOf(t).d] IN FromDir(t, a, [from |-> a, id |-> None], "look", "op"))
    \/ In(t, "REMOVE", "look") /\ LookEntry(t, Kept(t).from, CallOf(t).d, CallOf(t).n, "entry", "op")
    \/ In(t, "REMOVE", "entry") /\ Decide(t, MayTake(t, Kept(t).from, Kept(t).id), "op", Kept(t))
    \/ In(t, "REMOVE", "op") /\ Perform(t, vfs_remove(fs, CallOf(t).d, CallOf(t).n), owed)

\* Both directories, then the source's entry, then the target's.  A directory
\* leaves a sticky directory only with its owner.
nfsproc3_rename(t) ==
    LET k == Kept(t)
        c == CallOf(t)
        captive == /\ Exists(fs, k.id) /\ IsDir(fs, k.id) /\ c.d # c.e
                   /\ AuthOf(t).uid \notin {RootUid, fs.attr[k.id].uid}
    IN \/ In(t, "RENAME", "start") /\
          Admit(t, c.d, Proceed(t, "todir", [from |-> fs.attr[c.d], to |-> NoVal, id |-> None]))
       \/ In(t, "RENAME", "todir") /\
          Admit(t, c.e, FromDir(t, k.from, [k EXCEPT !.to = fs.attr[c.e]], "look", "target"))
       \/ In(t, "RENAME", "look") /\ LookEntry(t, k.from, c.d, c.n, "entry", "target")
       \/ In(t, "RENAME", "entry") /\ Decide(t, MayTake(t, k.from, k.id) /\ ~captive, "target", k)
       \/ In(t, "RENAME", "target") /\
          IF Sticky(k.to) THEN LookEntry(t, k.to, c.e, c.m, "toentry", "op")
          ELSE Decide(t, can_modify_directory(AuthOf(t), k.to), "op", k)
       \/ In(t, "RENAME", "toentry") /\ Decide(t, MayTake(t, k.to, k.id), "op", k)
       \/ In(t, "RENAME", "op") /\ Perform(t, vfs_rename(fs, c.d, c.n, c.e, c.m), owed)

-----------------------------------------------------------------------------
\* The server stops and starts: tasks and the tracker are gone, handles stale,
\* and the set-id bits that a write had not yet taken away stay.
Restart ==
    /\ Fault
    /\ life < MaxLives /\ life' = life + 1
    /\ tasks' = <<>> /\ tracker' = <<>> /\ up' = [c \in Clients |-> FALSE]
    /\ owed' = {i \in owed : ~\E t \in DOMAIN tasks : Clears(t, i)}
    /\ UNCHANGED <<script, fs, calls, waiting, conn, listing, answers, effects, expired>>

Run(t) ==
    \/ handle_rpc(t) \/ reply(t) \/ handler_error(t) \/ handle_mount(t) \/ handle_portmap(t) \/ unavailable(t)
    \/ nfsproc3_null(t) \/ nfsproc3_getattr(t) \/ nfsproc3_fsinfo(t) \/ nfsproc3_pathconf(t) \/ nfsproc3_fsstat(t)
    \/ nfsproc3_access(t) \/ nfsproc3_lookup(t) \/ nfsproc3_read(t) \/ nfsproc3_readlink(t)
    \/ nfsproc3_readdirplus(t) \/ nfsproc3_readdir(t) \/ nfsproc3_write(t) \/ nfsproc3_setattr(t)
    \/ nfsproc3_create(t) \/ nfsproc3_mkdir(t) \/ nfsproc3_symlink(t) \/ nfsproc3_mknod(t) \/ nfsproc3_link(t)
    \/ nfsproc3_remove(t) \/ nfsproc3_rename(t)

Server == \E t \in DOMAIN tasks : Run(t)

Client(c) ==
    \/ SendOther(c) \/ SendOnObject(c) \/ SendOnName(c) \/ SendRename(c) \/ SendLink(c) \/ SendSetattr(c)
    \/ SendReaddirplus(c) \/ SendReaddir(c) \/ Disconnect(c) \/ Reconnect(c)

Next ==
    \/ Server
    \/ \E c \in Clients : Client(c)
    \/ \E x \in waiting : Retransmit(x)
    \/ \E k \in DOMAIN tracker : housekeeping(k)
    \/ Restart

\* The runtime runs every task on: each waits only for the fair mutex.
Spec == Init /\ [][Next]_vars /\ WF_vars(Server)

-----------------------------------------------------------------------------
TypeOK ==
    /\ FsOK(fs) /\ AttrsOK(fs)
    /\ \A t \in DOMAIN tasks : /\ t.xid \in 1..Len(calls)
                        /\ tasks[t].pc # "rpc" /\ CallOf(t).proc # "BADVERS" => <<t.xid, t.conn>> \in DOMAIN tracker
    /\ waiting \subseteq 1..Len(calls) /\ Len(answers) = Len(calls)

\* On one connection and while the tracker remembers it, a call runs once
\* however often it arrives and wherever its first copy is; and no copy runs
\* after a restart, when the tracker has forgotten everything, because its
\* handles are stale (is_retransmission, fh_to_id).
RunsOnce ==
    \A x \in 1..Len(effects) \ expired :
        /\ IsInjective(effects[x])
        /\ \A j, k \in DOMAIN effects[x] : effects[x][j][2] = effects[x][k][2]

\* A file that a user other than root has written into has no set-id bits,
\* whatever others do to it between the write and the clearing, unless a WRITE
\* is still about to clear them, its setattr failed, a restart cut it off, or
\* a SETATTR has given the file such bits since (write, setattr).
HasSetId(f, i) == Exists(f, i) /\ f.attr[i].mode \cap SetId # {}
SetIdGoes == \A i \in owed : HasSetId(fs, i) => \E t \in DOMAIN tasks : Clears(t, i)

\* No two calls are told that they created the same file, though GUARDED looks
\* the name up and creates it under two holdings of the mutex (create).
OneCreator ==
    \A x, y \in 1..Len(calls) : \A j \in DOMAIN answers[x], k \in DOMAIN answers[y] :
        /\ {calls[x].proc, calls[y].proc} \subseteq {"CREATE", "GUARDED", "EXCLUSIVE"}
        /\ answers[x][j].st = "OK" /\ answers[y][k].st = "OK" /\ answers[x][j].id = answers[y][k].id
        => x = y

\* An enumeration that is told it has ended has shown every entry that was
\* there all the time, provided the entry under the cookie stayed where it was
\* and no inode has two names (readdir, nfsproc3_readdirplus).
ShowsAll == {<<s[1], s[2]>> : s \in listing.seen}
ListingComplete == listing.end /\ ~listing.moved => listing.due \subseteq ShowsAll

\* A SETATTR that is told NOT_SYNC has not changed the file.
GuardHolds ==
    \A x \in 1..Len(calls) : \A k \in DOMAIN answers[x] : answers[x][k].st = "NOT_SYNC" => effects[x] = <<>>

\* Every call is answered unless its connection breaks: a copy that is dropped
\* without an answer has an original that gets one (handle_rpc).
Answered == []<>(\A x \in waiting : ~up[calls[x].c])
================================================================================
