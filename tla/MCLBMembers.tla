---------------------------- MODULE MCLBMembers ----------------------------
(* Small instances of LBMembers. *)
EXTENDS LBMembers
=============================================================================
