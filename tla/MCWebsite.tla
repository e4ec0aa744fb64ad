------------------------------- MODULE MCWebsite -------------------------------
(* The website alone, for what its comments say of snapshot_at. *)
EXTENDS Website
================================================================================
