--------------------------- MODULE MCOfficialBackfill ---------------------------
(* OfficialBackfill with two regions of one root. *)
EXTENDS OfficialBackfill
=============================================================================
