------------------------ MODULE MCVerificationIndex ------------------------
(* Two executions, whose rows and records are independent but for the      *)
(* restarts that they share.                                               *)
EXTENDS VerificationIndex

GatedRoutes == AllRoutes \ Ungated
UngatedRoutes == Ungated
=============================================================================
