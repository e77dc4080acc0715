---------------------------- MODULE MCComHandoff ----------------------------
(* Instances of ComHandoff for TLC. *)
EXTENDS ComHandoff

CONSTANTS c1, c2, c3

ThreeCallers == {c1, c2, c3}
=============================================================================
