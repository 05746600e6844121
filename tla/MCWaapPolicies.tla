--------------------------- MODULE MCWaapPolicies ---------------------------
(* Small instances of WaapPolicies: two resources that share a policy. *)
EXTENDS WaapPolicies, TLC

CONSTANTS r1, r2, p1, p2

Overlapping == (r1 :> {p1, p2}) @@ (r2 :> {p2})
=============================================================================
