---------------------------- MODULE MCAIClusters ----------------------------
(* Small instances of AIClusters. *)
EXTENDS AIClusters
=============================================================================
