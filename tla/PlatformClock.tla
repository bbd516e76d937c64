---------------------------- MODULE PlatformClock ----------------------------
(***************************************************************************)
(* The clock of one lifting platform (models/platform-clock.ts): a 60 s    *)
(* attempt clock in ACTIVE mode, or a break countdown in BREAK mode.       *)
(*                                                                         *)
(* The code keeps the time of the last start and computes what remains on  *)
(* each read.  Here a clock keeps what remains, in whole time units, and   *)
(* Elapse is the passing of one unit.  A clock that does not run shows its *)
(* full duration, as remaining() does.                                     *)
(***************************************************************************)
EXTENDS Integers

CONSTANT ActiveDuration          \* length of the attempt clock, in time units

ASSUME ActiveDurationAssumption == ActiveDuration \in Nat \ {0}

ClockMode == {"ACTIVE", "BREAK"}

Clock == [mode : ClockMode, duration : Nat, left : Nat, running : BOOLEAN]

\* The clock of a new platform, and the one resetToActive() leaves behind.
ResetToActive ==
  [mode |-> "ACTIVE", duration |-> ActiveDuration,
   left |-> ActiveDuration, running |-> FALSE]

ConfigureBreak(d) ==
  [mode |-> "BREAK", duration |-> d, left |-> d, running |-> FALSE]

\* start() always begins from the full duration, also after expiry.
Start(c) == [c EXCEPT !.left = c.duration, !.running = TRUE]

State(c) ==
  IF ~c.running THEN "IDLE" ELSE IF c.left = 0 THEN "EXPIRED" ELSE "RUNNING"

\* A press stops a running clock and starts an idle or expired one.
HandleChiefClockPress(c) ==
  IF State(c) = "RUNNING" THEN ResetToActive ELSE Start(c)

\* One unit of time; remaining() never goes below zero.
ElapseBelowZero(c) == IF c.running THEN [c EXCEPT !.left = c.left - 1] ELSE c
ElapseStopsAtZero(c) ==
  IF State(c) = "RUNNING" THEN [c EXCEPT !.left = c.left - 1, !.running = c.left > 1]
                          ELSE c
Elapse(c) ==
  IF State(c) = "RUNNING" THEN [c EXCEPT !.left = c.left - 1] ELSE c

InBreak(c) == c.mode = "BREAK"

=============================================================================
