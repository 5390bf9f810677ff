--------------------------- MODULE MCSessionManager ---------------------------
(***************************************************************************)
(* SessionManager for TLC, with interchangeable publishers and viewers.    *)
(***************************************************************************)
EXTENDS SessionManager, TLC

Symmetry ==
    Permutations(Publishers) \cup Permutations(Requests \ Publishers)

=============================================================================
