---------------------------- MODULE NfsPermissions ----------------------------
(***************************************************************************)
(* cli/src/nfsserve/permissions.rs.  A mode is the set of its bits, a      *)
(* permission bit being a pair of a class and a right; `auth` is the       *)
(* caller's AUTH_UNIX credential [uid, gids].                              *)
(***************************************************************************)
EXTENDS Naturals

RootUid == 0
Bits(class, rights) == {<<class, r>> : r \in rights}

is_in_group(auth, gid) == gid \in auth.gids

check_permission(auth, attr, right) ==
    \/ auth.uid = RootUid
    \/ LET class == CASE auth.uid = attr.uid -> "user"
                      [] auth.uid # attr.uid /\ is_in_group(auth, attr.gid) -> "group"
                      [] OTHER -> "other"
       IN <<class, right>> \in attr.mode

can_read(auth, attr) == check_permission(auth, attr, "read")
can_write(auth, attr) == check_permission(auth, attr, "write")
can_execute(auth, attr) == check_permission(auth, attr, "execute")

\* The ACCESS answer, as the set of granted rights.
compute_access(auth, attr, requested) ==
    {r \in requested :
        \/ r = "READ" /\ can_read(auth, attr)
        \/ r = "LOOKUP" /\ attr.kind = "dir" /\ can_execute(auth, attr)
        \/ r \in {"MODIFY", "EXTEND"} /\ can_write(auth, attr)
        \/ r = "DELETE" /\ attr.kind = "dir" /\ can_write(auth, attr)
        \/ r = "EXECUTE" /\ attr.kind # "dir" /\ can_execute(auth, attr)}

can_modify_directory(auth, dir) == can_write(auth, dir) /\ can_execute(auth, dir)

can_delete_entry(auth, dir, entry) ==
    /\ can_modify_directory(auth, dir)
    /\ <<"special", "sticky">> \in dir.mode => auth.uid \in {RootUid, dir.uid, entry.uid}

is_owner(auth, attr) == auth.uid \in {RootUid, attr.uid}
===============================================================================
