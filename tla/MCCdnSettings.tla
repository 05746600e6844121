--------------------------- MODULE MCCdnSettings ---------------------------
(* Small instances of CdnSettings. *)
EXTENDS CdnSettings
=============================================================================
