-------------------------- MODULE MCArchiveLifecycle --------------------------
(* ArchiveLifecycle on a small instance. *)
EXTENDS ArchiveLifecycle
===============================================================================
