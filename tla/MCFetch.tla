---- MODULE MCFetch ----
(***************************************************************************)
(* Fetch on a small instance; the constants are all given by the .cfg.     *)
(***************************************************************************)
EXTENDS Fetch
====
