--------------------------- MODULE MCInstallFile ---------------------------
(***************************************************************************)
(* Instances of InstallFile for TLC.                                       *)
(***************************************************************************)
EXTENDS InstallFile, TLC

WriterSymmetry == Permutations(Writer)
=============================================================================
