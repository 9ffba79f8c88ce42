--------------------------- MODULE MCOutputCapture --------------------------
(***************************************************************************)
(* Two requests, one after the other in any order: interchangeable.        *)
(***************************************************************************)
EXTENDS OutputCaptureProps, TLC

RequestSymmetry == Permutations(Requests)
=============================================================================
