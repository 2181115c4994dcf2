----------------------------- MODULE MCSoundEnt -----------------------------
(* SoundEnt with two clients, a pool of four sounds and one followed monster. *)
EXTENDS SoundEnt, TLC
=============================================================================
