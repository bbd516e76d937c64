------------------------------- MODULE MCBrowser -------------------------------
(* One page of one platform.                                               *)
EXTENDS PlatformBrowser
===============================================================================
