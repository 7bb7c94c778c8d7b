------------------------------ MODULE MountTable ------------------------------
(***************************************************************************)
(* sandbox/src/vfs/{mount,bind,sqlite}.rs: which file system a path of the *)
(* sandboxed program belongs to.  A path is the sequence of its names, an  *)
(* absolute one if not said otherwise.                                     *)
(***************************************************************************)
EXTENDS Naturals, Sequences, SequencesExt

CONSTANTS Added,        \* the mounts [path, kind, host] in the order of the command line
          BeginsWith    \* pairs of names of which the first begins with the second
ASSUME MountAssumption == Added \in Seq([path : Seq(STRING), kind : {"bind", "sqlite"}, host : Seq(STRING)])

Depth(k) == Len(Added[k].path)

mounts_AsAdded == Added
\* add_mount keeps the deepest first, those of one depth in their order.
mounts ==
    LET Before(j, k) == Depth(j) > Depth(k) \/ (Depth(j) = Depth(k) /\ j < k)
    IN [n \in 1..Len(Added) |->
          Added[CHOOSE k \in 1..Len(Added) :
                    Cardinality({j \in 1..Len(Added) : Before(j, k)}) = n - 1]]

\* A bind mount takes what is below it.
BindPath(m, p) == m.host \o SubSeq(p, Len(m.path) + 1, Len(p))

\* The SQLite mount compares strings: it also takes siblings whose name only
\* begins with its own.
StringPrefix(q, p) ==
    /\ Len(q) <= Len(p)
    /\ \A k \in 1..(Len(q) - 1) : q[k] = p[k]
    /\ q # <<>> => q[Len(q)] = p[Len(q)] \/ <<p[Len(q)], q[Len(q)]>> \in BeginsWith

Takes(m, p) == IF m.kind = "bind" THEN IsPrefix(m.path, p) ELSE StringPrefix(m.path, p)

resolve(p) == {n \in 1..Len(mounts) : Takes(mounts[n], p) /\ \A k \in 1..(n - 1) : ~Takes(mounts[k], p)}
Mount(p) == mounts[CHOOSE n \in resolve(p) : TRUE]
Virtual(p) == resolve(p) # {} /\ Mount(p).kind = "sqlite"

\* The path the kernel is given for p.
translate_path(p) == IF resolve(p) # {} /\ ~Virtual(p) THEN BindPath(Mount(p), p) ELSE p

\* Inside the SQLite mount; a sibling that was only taken is not found there.
translate_to_relative(p) == SubSeq(p, Len(Mount(p).path) + 1, Len(p))
Inside(p) == Virtual(p) /\ IsPrefix(Mount(p).path, p)
===============================================================================
