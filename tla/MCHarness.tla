----------------------------- MODULE MCHarness -----------------------------
(***************************************************************************)
(* Instantiates Harness for TLC.  The constants are given in the .cfg      *)
(* files; a run per question (see README.md).                              *)
(***************************************************************************)
EXTENDS Harness

\* Daemons as model values are interchangeable in the safety runs.
DaemonSymmetry == Permutations(Daemons)
=============================================================================
