---------------------------- MODULE MCEnrichment ----------------------------
(***************************************************************************)
(* Small instances of Enrichment: an app with two launch URLs, probed by   *)
(* the scheduler and the owner, over fewer slots than callers.             *)
(***************************************************************************)
EXTENDS Enrichment
=============================================================================
