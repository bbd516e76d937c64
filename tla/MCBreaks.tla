------------------------------ MODULE MCBreaks ------------------------------
(* Breaks over two platforms, without votes, under fair timers.            *)
EXTENDS PlatformService
=============================================================================
