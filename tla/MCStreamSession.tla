---------------------------- MODULE MCStreamSession ----------------------------
(***************************************************************************)
(* StreamSession for TLC.  Hosts and viewers are interchangeable model     *)
(* values, so the safety runs use their permutations as symmetry.          *)
(***************************************************************************)
EXTENDS StreamSession, TLC

Symmetry == Permutations(Hosts) \cup Permutations(Viewers)

=============================================================================
