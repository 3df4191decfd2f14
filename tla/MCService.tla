----------------------------- MODULE MCService -----------------------------
(* Two configurations on each of the three systems. *)
EXTENDS Service
=============================================================================
