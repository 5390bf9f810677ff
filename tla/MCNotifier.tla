------------------------------ MODULE MCNotifier ------------------------------
(***************************************************************************)
(* Notifier for TLC: stream keys are interchangeable where none of them is *)
(* filtered out.                                                           *)
(***************************************************************************)
EXTENDS Notifier, TLC

Symmetry == Permutations(Keys)

=============================================================================
