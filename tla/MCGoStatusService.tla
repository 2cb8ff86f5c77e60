-------------------------- MODULE MCGoStatusService --------------------------
(***************************************************************************)
(* Instances of GoStatusService for TLC.                                   *)
(***************************************************************************)
EXTENDS GoStatusService, TLC

CONSTANTS n1, p1, p2

OneId == {n1}
TwoCallers == {p1, p2}
=============================================================================
