-------------------------------- MODULE MCNfs --------------------------------
(* Two users; a sticky root directory with a set-uid file of the first,      *)
(* writable for all, and a file of the second.                               *)
EXTENDS NfsServer

MCAuth == ("c1" :> [uid |-> 1, gids |-> {1}]) @@ ("c2" :> [uid |-> 2, gids |-> {2}])

\* Pairs of changing calls, a change during an enumeration, and every other
\* call by itself.
Pairs == {("c1" :> <<p[1]>>) @@ ("c2" :> <<p[2]>>) :
             p \in {<<"REMOVE", "WRITE">>, <<"SETATTR", "WRITE">>, <<"GUARDED", "GUARDED">>,
                    <<"RENAME", "EXCLUSIVE">>, <<"LINK", "REMOVE">>}}
Listings == {("c1" :> <<p>>) @@ ("c2" :> <<"READDIRPLUS", "READDIRPLUS">>) :
             p \in {"REMOVE", "RENAME", "GUARDED"}}
Alone == {("c1" :> <<>>) @@ ("c2" :> <<q>>) : q \in OnObject \cup OnName \cup Other \cup {"READDIR"}}
MCScenarios == Pairs \cup Listings \cup Alone

All == Bits("user", {"read", "write", "execute"}) \cup Bits("group", {"read", "write", "execute"})
       \cup Bits("other", {"read", "write", "execute"})
MCTree ==
    [dentry |-> (<<1, 1>> :> 2) @@ (<<1, 2>> :> 3),
     attr |-> (1 :> [kind |-> "dir", uid |-> 0, gid |-> 0, mode |-> All \cup {<<"special", "sticky">>}, ctime |-> 0])
           @@ (2 :> [kind |-> "file", uid |-> 1, gid |-> 1, mode |-> All \cup {<<"special", "suid">>}, ctime |-> 0])
           @@ (3 :> [kind |-> "file", uid |-> 2, gid |-> 2, mode |-> DefaultFile, ctime |-> 0]),
     next |-> 4]

\* chmod g+s; and a new group, size and time.
MCSattrs == {[NoSattr EXCEPT !.mode = Some(DefaultFile \cup {<<"special", "sgid">>})],
             [NoSattr EXCEPT !.gid = Some(1), !.size = TRUE, !.times = TRUE]}
==============================================================================
