------------------------------ MODULE MCSockets ------------------------------
(***************************************************************************)
(* Sockets with few bytes on the way.  The active end sends, and a thread  *)
(* reads there as well, from before the connection on; the passive end     *)
(* receives.  Calls are the same at both ends.                             *)
(***************************************************************************)
EXTENDS Sockets

MCUses ==
    [w \in Waiter |->
        CASE w = <<"listener", "read">> -> {"accept"}
          [] w = <<"active", "read">> -> {"read"}
          [] w = <<"active", "write">> -> {"connect", "getError", "send", "sendAll"}
          [] w = <<"passive", "read">> -> {"recv"}
          [] w = <<"passive", "write">> -> {}]
==============================================================================
