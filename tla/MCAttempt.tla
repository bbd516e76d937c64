------------------------------ MODULE MCAttempt ------------------------------
(* One platform's attempt cycle, with everything that can happen to it.    *)
EXTENDS PlatformService
=============================================================================
