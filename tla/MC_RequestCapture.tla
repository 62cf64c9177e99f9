-------------------------- MODULE MC_RequestCapture --------------------------
(* Instances of RequestCapture for TLC.                                      *)
EXTENDS RequestCapture, TLC

RequestSymmetry == Permutations(Requests)
=============================================================================
