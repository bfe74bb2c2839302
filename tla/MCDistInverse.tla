---------------------------- MODULE MCDistInverse ----------------------------
(* Small instances of DistInverse for TLC.                                  *)
EXTENDS DistInverse
=============================================================================
