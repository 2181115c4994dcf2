---------------------------- MODULE MCHttpClient ----------------------------
(* CHttpClient with a few requests. *)
EXTENDS HttpClient

CONSTANTS r1, r2, r3
=============================================================================
