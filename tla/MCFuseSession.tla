---------------------------- MODULE MCFuseSession ----------------------------
(* Two processes of the user that mounted and one of another user.           *)
EXTENDS FuseSession

MCUses == ("c1" :> Changing \cup Sharing \cup OnInode \cup OnHandle)
          @@ ("c2" :> {"create", "unlink"})
          @@ ("c3" :> {"getattr"})
=============================================================================
