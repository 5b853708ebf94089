--------------------------- MODULE MCRetryHorizon ---------------------------
(***************************************************************************)
(* RetryHorizon for TLC.  Keys and contents are only compared for          *)
(* equality, so permuting them is a sound symmetry.                        *)
(***************************************************************************)
EXTENDS RetryHorizon, TLC

QualificationSymmetry == Permutations(Keys) \cup Permutations(Contents)
=============================================================================
