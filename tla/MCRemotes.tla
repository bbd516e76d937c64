------------------------------ MODULE MCRemotes ------------------------------
(* One platform with its keyboard referees, one without, two remotes.      *)
EXTENDS RemoteAssignment
==============================================================================
