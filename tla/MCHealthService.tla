-------------------------- MODULE MCHealthService --------------------------
(***************************************************************************)
(* Overlapping checks of one provider.                                     *)
(***************************************************************************)
EXTENDS HealthService, TLC

CheckSymmetry == Permutations(Checks)

=============================================================================
