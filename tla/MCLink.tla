-------------------------------- MODULE MCLink --------------------------------
(* One device that shares a platform with its keyboard referees.           *)
EXTENDS RemoteLink
==============================================================================
