---------------------------- MODULE MCVoiceMasks ----------------------------
(* Two clients that use the followed slot; two other players, one of each team, for one more slot. *)
EXTENDS VoiceMasks

CONSTANTS p, q, r, x
MCTeam(c) == IF c = x THEN 2 ELSE 1

=============================================================================
