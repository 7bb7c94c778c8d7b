------------------------------ MODULE MCSandbox ------------------------------
(* One thread, which may start a second one that shares its table (a thread *)
(* of the guest) or has a copy (a process); a bind mount with another one   *)
(* below it, in the wrong order, and the SQLite mount.                      *)
EXTENDS Sandbox, TLC

MCProcOf == [t1 |-> "p1", t2 |-> "p2"]
MCAdded == <<[path |-> <<"d">>, kind |-> "bind", host |-> <<"h">>],
             [path |-> <<"d", "e">>, kind |-> "bind", host |-> <<"g">>],
             [path |-> <<"agent">>, kind |-> "sqlite", host |-> <<>>]>>
MCBeginsWith == {<<"agentx", "agent">>}
MCPaths == {<<"d", "e", "f">>, <<"agent">>, <<"agent", "old">>, <<"agent", "new">>, <<"agentx", "f">>}
MCOnePath == {<<"agent", "new">>}
MCRelative == {<<"old">>}
MCOpenFlags == {{"creat"}, {"trunc", "append"}}
MCHostFiles == {<<"g", "f">>}
MCStored == [names |-> [n \in {"old"} |-> 1], data |-> <<<<2>>>>]

\* The guest keeps to what the tracer can follow.
Polite == ~rude
===============================================================================
