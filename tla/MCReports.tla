------------------------------ MODULE MCReports ------------------------------
(* One platform's reports to two platforms of LiftingCast.                 *)
EXTENDS LiftingCastReports
=============================================================================
