-------------------------- MODULE MCManifestStore --------------------------
(***************************************************************************)
(* ManifestStore for TLC.  No definition tells two payloads apart, and the *)
(* run has no liveness property, so permuting them is a sound symmetry.    *)
(***************************************************************************)
EXTENDS ManifestStore, TLC

PayloadSymmetry == Permutations(Payloads)
=============================================================================
