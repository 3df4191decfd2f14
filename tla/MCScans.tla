------------------------------- MODULE MCScans ------------------------------
(* Small instances of Scans: two providers and two settings. *)
EXTENDS Scans
=============================================================================
