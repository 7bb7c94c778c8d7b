-------------------------------- MODULE HostFS --------------------------------
(***************************************************************************)
(* sdk/rust/src/filesystem/hostfs_linux.rs: a directory of the host served *)
(* through a cache of O_PATH descriptors.  The operators take the host     *)
(* directory and the cache as one record and return it changed:            *)
(*   dir    name -> host inode number, None if there is no such entry      *)
(*   kind   host inode number -> "file" | "dir" | "symlink"                *)
(*   cache  our inode number -> [src, nlookup]; src_to_ino is its inverse  *)
(*   next   the next inode number                                          *)
(* The host reuses the number of a removed file unless a descriptor, in    *)
(* the cache or of an open file, keeps it.                                 *)
(***************************************************************************)
EXTENDS Integers, FiniteSets, FiniteSetsExt, Functions

CONSTANTS Names,      \* entries of the served directory
          HostInodes  \* inode numbers the host can give

ASSUME HostAssumption ==
    /\ IsFiniteSet(Names)
    /\ HostInodes # {} /\ HostInodes \subseteq Nat \ {0} /\ IsFiniteSet(HostInodes)

None == 0
ROOT_INO == 1

NewHost == [dir |-> [n \in Names |-> None], kind |-> [f \in HostInodes |-> "file"],
            cache |-> [i \in {} |-> None], next |-> 2]

Cached(h, f) == {i \in DOMAIN h.cache : h.cache[i].src = f}
Sources(h) == {h.cache[i].src : i \in DOMAIN h.cache}
InoOf(h, f) == CHOOSE i \in Cached(h, f) : TRUE
GetInodeFd(h, i) == i = ROOT_INO \/ i \in DOMAIN h.cache

\* Host inode numbers no entry and no descriptor refers to; `open` are the
\* host inodes of open files.
Unused(h, open) == HostInodes \ ({h.dir[n] : n \in Names} \cup open \cup Sources(h))

GetOrCreateInode_Fresh(h, f) ==
    [h EXCEPT !.cache = [i \in DOMAIN @ \cup {h.next} |->
                           IF i = h.next THEN [src |-> f, nlookup |-> 1] ELSE @[i]],
              !.next = @ + 1]

GetOrCreateInode(h, f) ==
    IF Cached(h, f) # {} THEN [h EXCEPT !.cache[InoOf(h, f)].nlookup = @ + 1]
    ELSE GetOrCreateInode_Fresh(h, f)

HostLookup(h, n) == IF h.dir[n] = None THEN h ELSE GetOrCreateInode(h, h.dir[n])

\* getattr of an inode whose descriptor is gone finds nothing.
HostGetattr(h, i) == GetInodeFd(h, i)
HostReadlink(h, i) == GetInodeFd(h, i)
HostOpen(h, i) == GetInodeFd(h, i)

\* chmod, chown and utimens work on the descriptor, whatever names it has.
HostChange(h, i) == GetInodeFd(h, i)

\* readdir_plus counts a lookup for every entry, though none reaches the kernel.
\* `new` numbers the inodes not yet cached, in the order the host lists them.
Links(h, f) == Cardinality({n \in Names : h.dir[n] = f})
NewInodes(h) == LET S == {h.dir[n] : n \in Names} \ (Sources(h) \cup {None})
                IN Bijection(h.next .. h.next + Cardinality(S) - 1, S)
HostReaddirPlus(h, new) ==
    [h EXCEPT !.cache = [i \in DOMAIN h.cache \cup DOMAIN new |->
                           IF i \in DOMAIN new THEN [src |-> new[i], nlookup |-> Links(h, new[i])]
                           ELSE [h.cache[i] EXCEPT !.nlookup = @ + Links(h, h.cache[i].src)]],
              !.next = @ + Cardinality(DOMAIN new)]

\* The four creating calls end in a lookup of the new name.
Put(h, n, f, k) == HostLookup([h EXCEPT !.dir[n] = f, !.kind[f] = k], n)
HostMkdir(h, n, f) == Put(h, n, f, "dir")
HostCreateFile(h, n, f) == Put(h, n, f, "file")
HostMknod(h, n, f) == Put(h, n, f, "file")
HostSymlink(h, n, f) == Put(h, n, f, "symlink")

\* The cache entry stays for other links and for open files.
HostUnlink_Uncached(h, n) ==
    [h EXCEPT !.dir[n] = None, !.cache = [i \in DOMAIN @ \ Cached(h, h.dir[n]) |-> @[i]]]
HostUnlink(h, n) == [h EXCEPT !.dir[n] = None]
HostRmdir(h, n) == [h EXCEPT !.dir[n] = None]

\* linkat, then getattr: no lookup is counted.  The file has a name: callers
\* have looked it up under the lock they hold, so linkat does not refuse.
HostLink(h, i, n) == [h EXCEPT !.dir[n] = h.cache[i].src]

HostRename(h, n, m) == [h EXCEPT !.dir[m] = h.dir[n], !.dir[n] = None]

HostForget_AtOnce(h, lost) ==
    [h EXCEPT !.cache = [i \in DOMAIN h.cache \ DOMAIN lost |-> h.cache[i]]]

\* lost: inode -> lookups given back.  The count wraps below zero, but the
\* entry goes whenever it would reach zero.
HostForget(h, lost) ==
    LET left(i) == h.cache[i].nlookup - (IF i \in DOMAIN lost THEN lost[i] ELSE 0)
    IN [h EXCEPT !.cache = [i \in {j \in DOMAIN h.cache : left(j) > 0} |->
                              [h.cache[i] EXCEPT !.nlookup = left(i)]]]
===============================================================================
