----------------------------- MODULE MCUpdater -----------------------------
(* The updater with two checks and two updates. *)
EXTENDS Updater

CONSTANTS z1, z2, c1, c2
=============================================================================
