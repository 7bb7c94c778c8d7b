------------------------------ MODULE UnionTree ------------------------------
(***************************************************************************)
(* What an overlay promises its callers: one writable tree.  The base      *)
(* layer is only where the tree starts from; afterwards a call that        *)
(* succeeds does what it says to the names it was given, and a call that   *)
(* fails or is cut short touches nothing else.  A node records its kind,   *)
(* the base path its content came from (<<>> if none) and whether it was   *)
(* changed since.                                                          *)
(***************************************************************************)
EXTENDS Sequences, Functions

CONSTANTS Paths,   \* the names a caller can form, as sequences
          Start    \* the tree of the base layer

VARIABLES tree,    \* path -> node, for the paths that exist
          call,    \* the running call: what it does and to which names
          answer   \* of the last call that ended: "ok" or "error"

vars == <<tree, call, answer>>

Idle == [what |-> "idle", p |-> <<>>, q |-> <<>>]

Put(p, v) == [r \in DOMAIN tree \cup {p} |-> IF r = p THEN v ELSE tree[r]]

HasChild(p) == \E r \in DOMAIN tree : Len(r) > Len(p) /\ SubSeq(r, 1, Len(p)) = p

Init == tree = Start /\ call = Idle /\ answer = "ok"

Calls == [what : {"file", "dir", "remove", "modify", "open", "link", "rename"},
          p : Paths, q : Paths]

Call == call = Idle /\ call' \in Calls /\ UNCHANGED <<tree, answer>>

Create(p, k) ==
    /\ p \notin DOMAIN tree
    /\ tree' = Put(p, [kind |-> k, from |-> <<>>, mod |-> FALSE])

Remove(p) ==
    /\ p \in DOMAIN tree /\ ~HasChild(p)
    /\ tree' = Restrict(tree, DOMAIN tree \ {p})

Modify(p) == p \in DOMAIN tree /\ tree' = Put(p, [tree[p] EXCEPT !.mod = TRUE])

Rename(p, q) ==
    /\ p \in DOMAIN tree
    /\ tree' = [r \in (DOMAIN tree \cup {q}) \ {p} |-> IF r = q THEN tree[p] ELSE tree[r]]

Link(p, q) ==
    /\ p \in DOMAIN tree /\ q \notin DOMAIN tree
    /\ tree' = Put(q, tree[p])

Succeed ==
    /\ call # Idle /\ call' = Idle /\ answer' = "ok"
    /\ \/ call.what \in {"file", "dir"} /\ Create(call.p, call.what)
       \/ call.what = "remove" /\ Remove(call.p)
       \/ call.what = "modify" /\ Modify(call.p)
       \/ call.what = "rename" /\ Rename(call.p, call.q)
       \/ call.what = "link" /\ Link(call.p, call.q)
       \/ call.what = "open" /\ call.p \in DOMAIN tree /\ UNCHANGED tree

Fail ==
    /\ call # Idle /\ call' = Idle /\ answer' = "error"
    /\ \A r \in (DOMAIN tree \cup DOMAIN tree') \ {call.p, call.q} :
          r \in DOMAIN tree /\ r \in DOMAIN tree' /\ tree'[r] = tree[r]

Next == Call \/ Succeed \/ Fail

Spec == Init /\ [][Next]_vars
=============================================================================
