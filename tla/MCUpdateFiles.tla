--------------------------- MODULE MCUpdateFiles ---------------------------
(* An ordinary file, a library, and a configuration file of the user's; two  *)
(* releases' contents.                                                       *)
EXTENDS UpdateFiles

CONSTANTS dat, dll, cfg, v1, v2
=============================================================================
