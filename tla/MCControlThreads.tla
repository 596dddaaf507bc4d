-------------------------- MODULE MCControlThreads --------------------------
(* ControlThreads with a few signals and keys for TLC. *)
EXTENDS ControlThreads

=============================================================================
