----------------------------- MODULE MCServers -----------------------------
(* Small instances of Servers. *)
EXTENDS Servers
=============================================================================
