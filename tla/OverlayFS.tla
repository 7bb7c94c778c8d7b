------------------------------ MODULE OverlayFS ------------------------------
(***************************************************************************)
(* sdk/rust/src/filesystem/overlayfs.rs: a read-only base directory under  *)
(* an AgentFS delta.  Calls come one at a time (the FUSE session loop and  *)
(* the NFS mutex serialise them), but a call is a sequence of separately   *)
(* committed statements, so it can stop, by an error or a crash, after any *)
(* of them.  `todo` is the rest of the running handler: one step per       *)
(* helper that commits something.                                          *)
(*                                                                         *)
(* Paths have at most two components: deep enough for a parent that must   *)
(* be copied up before its child.                                          *)
(***************************************************************************)
EXTENDS Integers, Sequences, FiniteSets, SequencesExt

CONSTANTS
    Names,      \* directory entry names
    Base,       \* the base tree: path -> "dir" | "file" | "symlink"
    MaxDelta,   \* bound: delta inode numbers
    MaxIno,     \* bound: overlay inode numbers of one session
    MaxSession  \* bound: how many mounts the callers live through

Paths == [1..1 -> Names] \cup [1..2 -> Names]
Root == <<>>
None == 0

ASSUME BaseIsTree ==
    /\ DOMAIN Base \subseteq Paths
    /\ \A p \in DOMAIN Base : Base[p] \in {"dir", "file", "symlink"}
    /\ \A p \in DOMAIN Base : Len(p) = 2 => Front(p) \in DOMAIN Base /\ Base[Front(p)] = "dir"

ASSUME BoundsAssumption ==
    /\ IsFiniteSet(Names)
    /\ MaxDelta \in Nat \ {0} /\ MaxIno \in Nat /\ MaxSession \in Nat \ {0}

VARIABLES
    ent,        \* delta fs_dentry: <<directory inode, name>> -> inode
    node,       \* delta inodes: inode -> [kind, from, mod]
    nextDelta,  \* AUTOINCREMENT of the delta
    whiteouts,  \* fs_whiteout and its copy in memory
    origin,     \* fs_origin and its copy in memory: delta inode -> base inode
    mem,        \* the maps of this session; see Memory
    op,         \* the handler that is running
    answer,     \* of the last call
    dcache,     \* what the kernel remembers: path -> overlay inode
    session,    \* how many times the overlay was mounted
    stale       \* history: a hard link, a directory rename, a remount after a
                \* copy-up, or a copy-up or rename cut short, after which paths or numbers
                \* kept in the maps or in fs_origin may mean another file

durable == <<ent, node, nextDelta, whiteouts, origin>>
vars == <<ent, node, nextDelta, whiteouts, origin, mem, op, answer, dcache, session, stale>>

Idle == [what |-> "idle", p |-> <<>>, q |-> <<>>]
Ready == op.call = Idle

Drop(f, S) == [x \in DOMAIN f \ S |-> f[x]]
Add(f, x, v) == [y \in DOMAIN f \cup {x} |-> IF y = x THEN v ELSE f[y]]

-----------------------------------------------------------------------------
(* The two layers.                                                         *)

DeltaWalk(p) ==
    LET d[i \in 0..Len(p)] ==
          IF i = 0 THEN 1
          ELSE IF <<d[i - 1], p[i]>> \in DOMAIN ent THEN ent[<<d[i - 1], p[i]>>] ELSE None
    IN d[Len(p)]

BaseLookup_Reuse(m, p) ==
    IF p \notin DOMAIN Base \/ p \in DOMAIN m.src THEN m
    ELSE [m EXCEPT !.src = Add(m.src, p, Cardinality(DOMAIN m.src) + 2)]

\* HostFS numbers what it is asked for, in the order it is asked, from 2.
BaseLookup(m, p) ==
    IF p \notin DOMAIN Base \/ p \in DOMAIN m.src THEN m
    ELSE [m EXCEPT !.src = Add(m.src, p, m.nextSrc), !.nextSrc = m.nextSrc + 1]

\* Looks up one component after the other, of which the base has at most two.
BaseWalk(m, p) ==
    IF p = Root THEN m
    ELSE IF Len(p) = 1 THEN BaseLookup(m, p)
    ELSE BaseLookup(BaseLookup(m, SubSeq(p, 1, 1)), SubSeq(p, 1, 2))

SrcPath(m, b) ==
    IF b = 1 THEN Root
    ELSE IF \E p \in DOMAIN m.src : m.src[p] = b THEN CHOOSE p \in DOMAIN m.src : m.src[p] = b
    ELSE <<"forgotten">>

IsWhiteout(p) == \E i \in 1..Len(p) : SubSeq(p, 1, i) \in whiteouts

BaseNode(p) == [kind |-> Base[p], mod |-> FALSE,
                from |-> IF Base[p] = "dir" THEN <<>> ELSE p]

-----------------------------------------------------------------------------
(* The maps in memory.                                                     *)

Memory == [inode |-> [x \in {1} |-> [layer |-> "delta", ino |-> 1, path |-> Root]],
           rev |-> [k \in {<<"delta", 1>>} |-> 1],
           path |-> [p \in {Root} |-> 1],
           next |-> 2,
           src |-> [p \in {} |-> None], nextSrc |-> 2]

GetOrCreate(m, layer, u, p) ==
    IF <<layer, u>> \in DOMAIN m.rev THEN m
    ELSE [m EXCEPT !.inode = Add(@, m.next, [layer |-> layer, ino |-> u, path |-> p]),
                   !.rev = Add(@, <<layer, u>>, m.next),
                   !.path = Add(@, p, m.next),
                   !.next = @ + 1]

RefreshMapping(m, x, d, p) ==
    LET old == m.inode[x].path
        pm == IF old \in DOMAIN m.path /\ m.path[old] = x THEN Drop(m.path, {old}) ELSE m.path
    IN [m EXCEPT !.inode[x] = [layer |-> "delta", ino |-> d, path |-> p],
                 !.rev = Add(@, <<"delta", d>>, x),
                 !.path = Add(pm, p, x)]

PromoteToDelta_Skipped(m, p, d) == m

PromoteToDelta(m, p, d) ==
    IF p \notin DOMAIN m.path \/ m.inode[m.path[p]].layer # "base" THEN m
    ELSE LET x == m.path[p]
         IN [m EXCEPT !.inode[x] = [layer |-> "delta", ino |-> d, path |-> @.path],
                      !.rev = Add(Drop(@, {<<"base", m.inode[x].ino>>}), <<"delta", d>>, x)]

UpdateMapping_Lost(m, x, d) == [m EXCEPT !.rev = Add(@, <<"delta", d>>, x)]

UpdateMapping(m, x, d) ==
    [m EXCEPT !.inode[x] = [layer |-> "delta", ino |-> d, path |-> @.path],
              !.rev = Add(@, <<"delta", d>>, x)]

ResolveDeltaParent(m, x) ==
    IF m.inode[x].layer = "delta" THEN m.inode[x].ino
    ELSE LET d == DeltaWalk(m.inode[x].path)
         IN IF d # None /\ node[d].kind = "dir" THEN d ELSE None

\* lookup(x, n): the overlay inode found, None if there is none, and the maps
\* as the call leaves them.
Look(m, x, n) ==
    LET info == m.inode[x]
        p == Append(info.path, n)
        dp == ResolveDeltaParent(m, x)
    IN  IF IsWhiteout(p) THEN [ino |-> None, m |-> m]
        ELSE IF dp # None /\ <<dp, n>> \in DOMAIN ent
        THEN LET d == ent[<<dp, n>>]
                 m1 == GetOrCreate(m, "delta", d, p)
             IN IF d \in DOMAIN origin /\ <<"base", origin[d]>> \in DOMAIN m1.rev
                THEN LET x1 == m1.rev[<<"base", origin[d]>>]
                     IN [ino |-> x1, m |-> RefreshMapping(m1, x1, d, p)]
                ELSE [ino |-> m1.rev[<<"delta", d>>], m |-> m1]
        ELSE LET m1 == IF info.layer = "base" THEN m ELSE BaseWalk(m, info.path)
                 b == Append(IF info.layer = "base" THEN SrcPath(m, info.ino) ELSE info.path, n)
                 m2 == BaseLookup(m1, b)
                 m3 == GetOrCreate(m2, "base", m2.src[b], p)
             IN IF b \in DOMAIN Base THEN [ino |-> m3.rev[<<"base", m2.src[b]>>], m |-> m3]
                ELSE [ino |-> None, m |-> m1]

\* What an overlay inode stands for: a delta inode or a base path.
Kind(m, x) ==
    LET i == m.inode[x]
    IN IF i.layer = "delta"
       THEN IF i.ino \in DOMAIN node THEN node[i.ino].kind ELSE "gone"
       ELSE IF SrcPath(m, i.ino) \in DOMAIN Base THEN Base[SrcPath(m, i.ino)] ELSE "gone"

BaseDir(m, x) == IF m.inode[x].layer = "base" THEN SrcPath(m, m.inode[x].ino) ELSE m.inode[x].path

Listed(m, x) ==
    {n \in Names :
        /\ ~IsWhiteout(Append(m.inode[x].path, n))
        /\ \/ m.inode[x].layer = "delta" /\ <<m.inode[x].ino, n>> \in DOMAIN ent
           \/ Append(BaseDir(m, x), n) \in DOMAIN Base}

-----------------------------------------------------------------------------
(* Running a handler.                                                      *)

Rest == Tail(op.todo)
Doing(s) == ~Ready /\ op.todo # <<>> /\ Head(op.todo).do = s
At == Head(op.todo).at
Step(s, p) == [do |-> s, at |-> p]
Advance == op' = [op EXCEPT !.todo = Rest]

Nothing == [kind |-> "none", from |-> <<>>, mod |-> FALSE]

Visible ==
    LET shown[p \in {Root} \cup Paths] ==
          IF p = Root THEN [kind |-> "dir", from |-> <<>>, mod |-> FALSE]
          ELSE IF IsWhiteout(p) \/ shown[Front(p)].kind # "dir"
          THEN Nothing
          ELSE IF DeltaWalk(p) # None THEN node[DeltaWalk(p)]
          ELSE IF p \in DOMAIN Base THEN BaseNode(p)
          ELSE Nothing
    IN [p \in {q \in Paths : shown[q].kind # "none"} |-> shown[p]]

NoOp == [call |-> Idle, x |-> 1, y |-> 1, src |-> None, made |-> None, todo |-> <<>>, before |-> <<>>]

Return(a) ==
    /\ op' = NoOp
    /\ answer' = a

\* x, y: overlay inodes the handler was given; src: the base inode it copies up.
Begin(call, x, y, src, m, todo) ==
    /\ op' = [call |-> call, x |-> x, y |-> y, src |-> src,
              made |-> None, todo |-> todo, before |-> Visible]
    /\ mem' = m
    /\ UNCHANGED <<durable, answer, dcache, session>>

\* ensure_parent_dirs: for the one parent a path of two components has.
Parents(p) ==
    IF Len(p) = 1 THEN <<>>
    ELSE <<Step("clear", Front(p)), Step("parent", Front(p)), Step("parent_origin", Front(p))>>

\* copy_up: nothing if the path is already in the delta.
CopyUp(m, p, b) ==
    IF DeltaWalk(p) # None THEN <<>>
    ELSE Parents(p) \o <<Step("copy", p)>>
         \o (IF SrcPath(m, b) \in DOMAIN Base /\ Base[SrcPath(m, b)] = "file"
             THEN <<Step("fill", p)>> ELSE <<>>)
         \o <<Step("origin", p)>>

RemoveWhiteout_Kept ==
    /\ Doing("clear") /\ Advance
    /\ UNCHANGED <<durable, mem, answer, dcache, session, stale>>

RemoveWhiteout ==
    /\ Doing("clear") /\ Advance
    /\ whiteouts' = whiteouts \ {At}
    /\ UNCHANGED <<ent, node, nextDelta, origin, mem, answer, dcache, session, stale>>

NewNode(dir, n, v) ==
    /\ nextDelta <= MaxDelta
    /\ ent' = Add(ent, <<dir, n>>, nextDelta)
    /\ node' = Add(node, nextDelta, v)
    /\ nextDelta' = nextDelta + 1

EnsureParent ==
    /\ Doing("parent")
    /\ mem' = BaseWalk(mem, At)
    /\ IF DeltaWalk(At) # None
       THEN /\ IF node[DeltaWalk(At)].kind = "dir" THEN Advance /\ UNCHANGED answer ELSE Return("error")
            /\ UNCHANGED <<ent, node, nextDelta>>
       ELSE /\ NewNode(1, Last(At), [kind |-> "dir", from |-> <<>>, mod |-> FALSE])
            /\ op' = [op EXCEPT !.todo = Rest, !.made = nextDelta]
            /\ UNCHANGED answer
    /\ UNCHANGED <<whiteouts, origin, dcache, session, stale>>

ParentOrigin ==
    /\ Doing("parent_origin")
    /\ op' = [op EXCEPT !.todo = Rest, !.made = None]
    /\ IF op.made # None /\ At \in DOMAIN Base
       THEN /\ origin' = Add(origin, op.made, mem.src[At])
            /\ mem' = PromoteToDelta(mem, At, op.made)
       ELSE UNCHANGED <<origin, mem>>
    /\ UNCHANGED <<ent, node, nextDelta, whiteouts, answer, dcache, session, stale>>

\* The type of the base file decides what is made; a regular file starts empty.
Copy ==
    /\ Doing("copy")
    /\ LET s == SrcPath(mem, op.src) IN
       IF s \notin DOMAIN Base \/ DeltaWalk(Front(At)) = None
       THEN Return("error") /\ UNCHANGED <<ent, node, nextDelta>>
       ELSE /\ NewNode(DeltaWalk(Front(At)), Last(At),
                       [kind |-> Base[s], mod |-> FALSE,
                        from |-> IF Base[s] = "symlink" THEN s ELSE <<>>])
            /\ op' = [op EXCEPT !.todo = Rest, !.made = nextDelta]
            /\ UNCHANGED answer
    /\ UNCHANGED <<whiteouts, origin, mem, dcache, session, stale>>

Fill ==
    /\ Doing("fill") /\ Advance
    /\ node' = [node EXCEPT ![op.made].from = SrcPath(mem, op.src)]
    /\ UNCHANGED <<ent, nextDelta, whiteouts, origin, mem, answer, dcache, session, stale>>

\* The mapping is updated with it where the caller is copy_up_and_update_mapping.
AddOrigin ==
    /\ Doing("origin")
    /\ op' = [op EXCEPT !.todo = Rest, !.made = None]
    /\ origin' = Add(origin, op.made, op.src)
    /\ mem' = IF op.call.what \in {"modify", "open"} THEN UpdateMapping(mem, op.x, op.made) ELSE mem
    /\ stale' = (stale \/ (op.call.what = "rename" /\ node[op.made].kind = "dir"))
    /\ UNCHANGED <<ent, node, nextDelta, whiteouts, answer, dcache, session>>

\* The delta call a modifying handler ends with: NotFound for an inode the
\* delta no longer has; open changes nothing.
Touch ==
    /\ Doing("touch")
    /\ LET d == mem.inode[op.x].ino IN
       IF d \notin DOMAIN node THEN Return("error") /\ UNCHANGED node
       ELSE /\ node' = IF op.call.what = "modify" THEN [node EXCEPT ![d].mod = TRUE] ELSE node
            /\ Advance /\ UNCHANGED answer
    /\ UNCHANGED <<ent, nextDelta, whiteouts, origin, mem, dcache, session, stale>>

\* The entry a creating handler ends with; delta answers AlreadyExists for a
\* name it has.  A new inode is known to the caller at once.
Make ==
    /\ Doing("create")
    /\ LET dir == ResolveDeltaParent(mem, op.x) IN
       IF dir = None \/ <<dir, Last(At)>> \in DOMAIN ent
       THEN Return("error") /\ UNCHANGED <<ent, node, nextDelta, mem>>
       ELSE /\ NewNode(dir, Last(At), [kind |-> op.call.what, from |-> <<>>, mod |-> FALSE])
            /\ mem' = GetOrCreate(mem, "delta", nextDelta, At)
            /\ Advance /\ UNCHANGED answer
    /\ UNCHANGED <<whiteouts, origin, dcache, session, stale>>

\* delta.link gives the inode op.y stands for a second name.
MakeLink ==
    /\ Doing("link")
    /\ LET dir == ResolveDeltaParent(mem, op.x)
           i == mem.inode[op.y]
           d == IF i.layer = "delta" THEN i.ino ELSE DeltaWalk(i.path)
       IN IF dir = None \/ <<dir, Last(At)>> \in DOMAIN ent \/ d \notin DOMAIN node
          THEN Return("error") /\ UNCHANGED ent
          ELSE ent' = Add(ent, <<dir, Last(At)>>, d) /\ Advance /\ UNCHANGED answer
    /\ stale' = TRUE
    /\ UNCHANGED <<node, nextDelta, whiteouts, origin, mem, dcache, session>>

HasEntries(d) == \E e \in DOMAIN ent : e[1] = d

\* A name leaves the delta, and its inode with the last name.
Unbind(e, rest) ==
    node' = IF \E f \in DOMAIN rest : rest[f] = ent[e] THEN node ELSE Drop(node, {ent[e]})

RemoveDelta_DentryKept ==
    /\ Doing("remove") /\ Advance
    /\ LET e == <<ResolveDeltaParent(mem, op.x), Last(At)>>
       IN node' = IF e \in DOMAIN ent THEN Drop(node, {ent[e]}) ELSE node
    /\ UNCHANGED <<ent, answer, nextDelta, whiteouts, origin, mem, dcache, session, stale>>

\* delta.unlink or delta.rmdir; a name the delta does not have is no error.
RemoveDelta ==
    /\ Doing("remove")
    /\ LET e == <<ResolveDeltaParent(mem, op.x), Last(At)>> IN
       IF e \notin DOMAIN ent THEN Advance /\ UNCHANGED <<ent, node, answer>>
       ELSE IF HasEntries(ent[e]) THEN Return("error") /\ UNCHANGED <<ent, node>>
       ELSE ent' = Drop(ent, {e}) /\ Unbind(e, ent') /\ Advance /\ UNCHANGED answer
    /\ UNCHANGED <<nextDelta, whiteouts, origin, mem, dcache, session, stale>>

CreateWhiteout_Skipped ==
    /\ Doing("whiteout") /\ Advance
    /\ UNCHANGED <<durable, mem, answer, dcache, session, stale>>

\* The name is looked up again: what still shows comes from the base.
CreateWhiteout ==
    /\ Doing("whiteout") /\ Advance
    /\ LET seen == Look(mem, op.x, Last(At)) IN
       /\ whiteouts' = IF seen.ino = None THEN whiteouts ELSE whiteouts \cup {At}
       /\ mem' = seen.m
    /\ UNCHANGED <<ent, node, nextDelta, origin, answer, dcache, session, stale>>

\* delta.rename of op.call's first name to its second, replacing what is there.
Move ==
    /\ Doing("move")
    /\ LET e == <<ResolveDeltaParent(mem, op.x), Last(op.call.p)>>
           f == <<ResolveDeltaParent(mem, op.y), Last(At)>>
           clash == /\ f \in DOMAIN ent
                    /\ \/ HasEntries(ent[f])
                       \/ (node[ent[f]].kind = "dir") # (node[ent[e]].kind = "dir")
       IN /\ IF e \notin DOMAIN ent \/ f[1] = None \/ clash
             THEN Return("error") /\ UNCHANGED <<ent, node>>
             ELSE /\ ent' = Add(Drop(ent, {e}), f, ent[e])
                  /\ IF f \in DOMAIN ent THEN Unbind(f, ent') ELSE UNCHANGED node
                  /\ Advance /\ UNCHANGED answer
          /\ stale' = (stale \/ (e \in DOMAIN ent /\ node[ent[e]].kind = "dir"))
    /\ UNCHANGED <<nextDelta, whiteouts, origin, mem, dcache, session>>

-----------------------------------------------------------------------------
(* The handlers.  The kernel names a file by the overlay inode of its      *)
(* parent and a name, or by the overlay inode it was given for it.         *)

Call(what, p, q) == [what |-> what, p |-> p, q |-> q]
Serving == Ready /\ mem.next <= MaxIno
Parent(p) == dcache[Front(p)]
Known(p) == p \in DOMAIN dcache
KnownParent(p) == Known(Front(p)) /\ Kind(mem, Parent(p)) = "dir"
Found(p) == Look(mem, Parent(p), Last(p))
OverlayPath(p) == Append(mem.inode[Parent(p)].path, Last(p))
Below(p) == {r \in DOMAIN dcache : Len(r) >= Len(p) /\ SubSeq(r, 1, Len(p)) = p}

Lookup(p) ==
    /\ Serving /\ KnownParent(p) /\ Found(p).ino # None
    /\ mem' = Found(p).m
    /\ dcache' = Add(dcache, p, Found(p).ino)
    /\ UNCHANGED <<durable, op, answer, session, stale>>

\* One entry of the directory that i and the base path bd stand for.
NumberEntry(m, i, bd, layer, n) ==
    LET at == Append(i.path, n)
        b == BaseLookup(m, Append(bd, n))
        d == ent[<<i.ino, n>>]
    IN IF layer = "base" /\ IsWhiteout(at) THEN b
       ELSE IF layer = "base" THEN GetOrCreate(b, "base", b.src[Append(bd, n)], at)
       ELSE IF d \in DOMAIN origin THEN GetOrCreate(m, "base", origin[d], at)
       ELSE GetOrCreate(m, "delta", d, at)

NumberEntries(m, i, bd, layer, s) ==
    LET num[k \in 0..Len(s)] == IF k = 0 THEN m ELSE NumberEntry(num[k - 1], i, bd, layer, s[k])
    IN num[Len(s)]

\* readdir_plus numbers every entry it lists, base entries first.
ReaddirPlus(p) ==
    /\ Serving /\ Known(p)
    /\ LET x == dcache[p]
           i == mem.inode[x]
           bd == BaseDir(mem, x)
           fromBase == {n \in Names : Append(bd, n) \in DOMAIN Base}
           fromDelta == {n \in Names : ~IsWhiteout(Append(i.path, n)) /\ <<i.ino, n>> \in DOMAIN ent}
           m1 == NumberEntries(IF i.layer = "base" THEN mem ELSE BaseWalk(mem, i.path),
                               i, bd, "base", SetToSeq(fromBase))
       IN /\ Kind(mem, x) = "dir"
          /\ mem' = IF i.layer = "base" THEN m1 ELSE NumberEntries(m1, i, bd, "delta", SetToSeq(fromDelta))
    /\ UNCHANGED <<durable, op, answer, dcache, session, stale>>

\* What the four creating handlers share.  The caller looked the name up and
\* found nothing (mkdir looks it up itself).  "file" stands for all that is made
\* and is no directory.
CreateNode(p, k) ==
    /\ Serving /\ KnownParent(p) /\ Found(p).ino = None
    /\ LET at == OverlayPath(p)
       IN Begin(Call(k, p, p), Parent(p), 1, None, Found(p).m,
                <<Step("clear", at)>> \o Parents(at) \o <<Step("create", at)>>)
    /\ UNCHANGED stale

Mkdir(p) == CreateNode(p, "dir")
CreateFile(p) == CreateNode(p, "file")
Mknod(p) == CreateNode(p, "file")
Symlink(p) == CreateNode(p, "file")

\* What the handlers on an inode share: copy up, then the delta call.
OnInode(what, p) ==
    /\ Serving /\ Known(p)
    /\ LET x == dcache[p]
           i == mem.inode[x]
       IN /\ ~IsWhiteout(i.path)
          /\ Begin(Call(what, p, p), x, 1, i.ino,
                   IF i.layer = "base" /\ DeltaWalk(i.path) # None
                   THEN UpdateMapping(mem, x, DeltaWalk(i.path)) ELSE mem,
                   (IF i.layer = "base" THEN CopyUp(mem, i.path, i.ino) ELSE <<>>)
                   \o <<Step("touch", i.path)>>)
    /\ UNCHANGED stale

Chmod(p) == OnInode("modify", p)
Chown(p) == OnInode("modify", p)
Utimens(p) == OnInode("modify", p)
Open(p) == OnInode("open", p)

Unlink(p) ==
    /\ Serving /\ Known(p) /\ KnownParent(p) /\ Found(p).ino # None
    /\ Kind(Found(p).m, Found(p).ino) # "dir"
    /\ Begin(Call("remove", p, p), Parent(p), 1, None, Found(p).m,
             <<Step("remove", OverlayPath(p)), Step("whiteout", OverlayPath(p))>>)
    /\ UNCHANGED stale

Rmdir(p) ==
    /\ Serving /\ Known(p) /\ KnownParent(p) /\ Found(p).ino # None
    /\ Kind(Found(p).m, Found(p).ino) = "dir"
    /\ Listed(Found(p).m, Found(p).ino) = {}
    /\ Begin(Call("remove", p, p), Parent(p), 1, None, Found(p).m,
             <<Step("remove", OverlayPath(p)), Step("whiteout", OverlayPath(p))>>)
    /\ UNCHANGED stale

\* copy_up without the new mapping; the answer keeps the first name's inode.
Link(p, q) ==
    /\ Serving /\ Known(p) /\ KnownParent(q) /\ Found(q).ino = None
    /\ Kind(mem, dcache[p]) \notin {"dir", "gone"}
    /\ LET x == dcache[p]
           i == mem.inode[x]
           at == OverlayPath(q)
       IN Begin(Call("link", p, q), Parent(q), x, i.ino, Found(q).m,
                (IF i.layer = "base" THEN CopyUp(mem, i.path, i.ino) ELSE <<>>)
                \o <<Step("clear", at)>> \o Parents(at) \o <<Step("link", at)>>)
    /\ UNCHANGED stale

\* The kernel only sends a rename between files of one type, and neither below
\* the other.  The paths in inode_map do not follow a directory that moves.
Rename(p, q) ==
    /\ Serving /\ Known(p) /\ KnownParent(p) /\ KnownParent(q)
    /\ ~IsPrefix(p, q) /\ ~IsPrefix(q, p)
    /\ LET src == Found(p)
           dst == Look(src.m, Parent(q), Last(q))
           i == dst.m.inode[src.ino]
           dir == Kind(src.m, src.ino) = "dir"
       IN /\ src.ino # None /\ src.ino # dst.ino
          /\ dst.ino # None => (Kind(dst.m, dst.ino) = "dir") = dir
          /\ dir => Len(q) <= Len(p)
          /\ Begin(Call("rename", p, q), Parent(p), Parent(q), i.ino, dst.m,
                   (IF i.layer = "base" THEN CopyUp(dst.m, OverlayPath(p), i.ino) ELSE <<>>)
                   \o <<Step("clear", OverlayPath(q))>> \o Parents(OverlayPath(q))
                   \o <<Step("move", OverlayPath(q)), Step("whiteout", OverlayPath(p))>>)
    /\ UNCHANGED stale

\* The handler ran to its end.  The adapter has the kernel drop the dentries a
\* removal or a rename touched.
Reply ==
    /\ ~Ready /\ op.todo = <<>> /\ Return("ok")
    /\ LET c == op.call
           made == mem.rev[<<"delta", ent[<<ResolveDeltaParent(mem, op.x), Last(c.p)>>]>>]
       IN dcache' = CASE c.what \in {"file", "dir"} -> Add(dcache, c.p, made)
                      [] c.what = "link" -> Add(dcache, c.q, op.y)
                      [] c.what \in {"remove", "rename"} -> Drop(dcache, Below(c.p) \cup Below(c.q))
                      [] OTHER -> dcache
    /\ UNCHANGED <<durable, mem, session, stale>>

\* A copy-up without its content or origin, or a call that fails after the
\* tree changed: a cleared whiteout, a rename that is not hidden at its source.
CutShort == ~Ready /\ (op.made # None \/ Visible # op.before)

\* Any statement of a handler may fail; what was committed before it stays.
Fail ==
    /\ ~Ready /\ op.todo # <<>> /\ Return("error")
    /\ stale' = (stale \/ CutShort)
    /\ UNCHANGED <<durable, mem, dcache, session>>

\* The kernel evicts an inode.  HostFS closes its descriptor when the count of
\* lookups says so; the overlay keeps its own maps.
Forget(p) ==
    /\ Ready /\ p # Root /\ Known(p) /\ Below(p) = {p}
    /\ dcache' = Drop(dcache, {p})
    /\ LET i == mem.inode[dcache[p]] IN
       \/ UNCHANGED mem
       \/ i.layer = "base" /\ mem' = [mem EXCEPT !.src = Drop(@, {SrcPath(mem, i.ino)})]
    /\ UNCHANGED <<durable, op, answer, session, stale>>

\* The process stops, in the middle of a call or not, and the overlay is
\* mounted again: whiteouts and origins are loaded, numbers start afresh.
Remount ==
    /\ session < MaxSession /\ session' = session + 1
    /\ mem' = Memory /\ op' = NoOp
    /\ dcache' = [p \in {Root} |-> 1]
    /\ answer' = IF Ready THEN answer ELSE "error"
    /\ stale' = (stale \/ DOMAIN origin # {} \/ CutShort)
    /\ UNCHANGED durable

Init ==
    /\ ent = [e \in {} |-> None] /\ nextDelta = 2
    /\ node = [d \in {1} |-> [kind |-> "dir", from |-> <<>>, mod |-> FALSE]]
    /\ whiteouts = {} /\ origin = [d \in {} |-> None]
    /\ mem = Memory /\ op = NoOp /\ answer = "ok"
    /\ dcache = [p \in {Root} |-> 1] /\ session = 1 /\ stale = FALSE

Next ==
    \/ \E p \in Paths :
          \/ Lookup(p)
          \/ Mkdir(p)
          \/ CreateFile(p)
          \/ Mknod(p)
          \/ Symlink(p)
          \/ Chmod(p)
          \/ Chown(p)
          \/ Utimens(p)
          \/ Open(p)
          \/ Unlink(p)
          \/ Rmdir(p)
          \/ Forget(p)
          \/ \E q \in Paths : Link(p, q)
          \/ \E q \in Paths : Rename(p, q)
    \/ \E p \in {Root} \cup Paths : ReaddirPlus(p)
    \/ RemoveWhiteout
    \/ EnsureParent
    \/ ParentOrigin
    \/ Copy
    \/ Fill
    \/ AddOrigin
    \/ Touch
    \/ Make
    \/ MakeLink
    \/ RemoveDelta
    \/ CreateWhiteout
    \/ Move
    \/ Reply
    \/ Fail
    \/ Remount

Spec == Init /\ [][Next]_vars

-----------------------------------------------------------------------------
(* getattr, and what a caller may conclude from it.                        *)

Getattr(x) ==
    LET i == mem.inode[x] IN
    IF IsWhiteout(i.path) \/ Kind(mem, x) = "gone" THEN Nothing
    ELSE IF i.layer = "delta" THEN node[i.ino] ELSE BaseNode(SrcPath(mem, i.ino))

TypeOK ==
    /\ \A e \in DOMAIN ent : e[1] \in DOMAIN node /\ e[2] \in Names /\ ent[e] \in DOMAIN node
    /\ \A d \in DOMAIN node : /\ node[d].kind \in {"dir", "file", "symlink"}
                             /\ node[d].from \in {<<>>} \cup DOMAIN Base /\ node[d].mod \in BOOLEAN
    /\ nextDelta \in 2..MaxDelta + 1
    /\ \A d \in DOMAIN origin : d < nextDelta /\ origin[d] \in Nat
    /\ \A x \in DOMAIN mem.inode : x < mem.next /\ mem.inode[x].layer \in {"delta", "base"}
    /\ \A p \in DOMAIN dcache : dcache[p] \in DOMAIN mem.inode
    /\ answer \in {"ok", "error"} /\ session \in 1..MaxSession /\ stale \in BOOLEAN

U == INSTANCE UnionTree WITH
        Start <- [p \in DOMAIN Base |-> BaseNode(p)],
        tree <- IF Ready THEN Visible ELSE op.before,
        call <- op.call

\* To its callers the overlay is one writable tree that starts as the base:
\* a successful call does what it says and nothing else, and a call that fails
\* or is cut short by a crash changes no name but its own.
ImplementsUnion == U!Init /\ [][U!Next \/ stale]_(U!vars)

\* Two names never share an overlay inode, or the kernel would take one file
\* for the other (get_or_create_overlay_ino, lookup's origin mapping).
NoAliasing ==
    ~stale => \A p, q \in DOMAIN dcache : dcache[p] = dcache[q] => p = q

\* The same of every state, the remounted ones included: the comment in lookup
\* takes an origin to be safe once the reverse map has a live entry for it.
NeverAliases == \A p, q \in DOMAIN dcache : dcache[p] = dcache[q] => p = q

\* An inode the kernel holds answers for the file at its name or not at all,
\* however often that file was copied up, replaced or forgotten meanwhile.
AttrOfItsName ==
    ~stale /\ Ready =>
        \A p \in DOMAIN dcache \ {Root} :
            Getattr(dcache[p]) \in {Nothing} \cup {Visible[r] : r \in {p} \cap DOMAIN Visible}

\* A directory lists exactly the names a lookup in it finds (readdir reads the
\* delta only for an inode that promote_to_delta or a lookup marked so).
ListsWhatIsThere ==
    ~stale /\ Ready =>
        \A p \in DOMAIN dcache : Kind(mem, dcache[p]) = "dir" =>
            Listed(mem, dcache[p]) = {n \in Names : Append(p, n) \in DOMAIN Visible}

\* A whiteout hides base files only: never an entry of the delta, which nobody
\* could then reach or remove.
WhiteoutHidesBaseOnly ==
    ~stale /\ Ready => \A w \in whiteouts : DeltaWalk(w) = None
=============================================================================
