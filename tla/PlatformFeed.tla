----------------------------- MODULE PlatformFeed -----------------------------
(***************************************************************************)
(* What one platform promises to those who watch it: the part of its state *)
(* that a page reacts to, and the last update the page's room was sent.    *)
(* Every change is sent at once, except that a clock which runs out is     *)
(* sent late, by the next tick, and that a remote may leave untold.        *)
(* PlatformService implements this (platform.service.ts); PlatformBrowser  *)
(* is a page that relies on it.                                            *)
(***************************************************************************)
EXTENDS Integers

VARIABLES
  known,   \* the platform exists
  live,    \* what a serialization of it would say now
  told     \* what platform:updated said last, or Untold

feedVars == <<known, live, told>>

View ==
  [complete : BOOLEAN, mode : {"ACTIVE", "BREAK"},
   state : {"IDLE", "RUNNING", "EXPIRED"}, attemptChange : BOOLEAN]

AtRest ==
  [complete |-> FALSE, mode |-> "ACTIVE", state |-> "IDLE", attemptChange |-> FALSE]

Untold == [AtRest EXCEPT !.mode = "unknown"]

FeedInit == known = FALSE /\ live = AtRest /\ told = Untold

InBreakNow == live.mode = "BREAK"
Locked == InBreakNow \/ live.attemptChange

\* A handler that tells the room, also when nothing changed.
Becomes(v) ==
  /\ known
  /\ live' = v
  /\ told' = v
  /\ UNCHANGED known

------------------------------------------------------------------------------
(* Requests, as far as they are not refused.                               *)

\* A third vote completes the set; a vote never takes that back.
Vote ==
  /\ ~Locked /\ live.state # "IDLE"
  /\ \E c \in {live.complete, TRUE} : Becomes([live EXCEPT !.complete = c])

\* The press replaces the chief's vote, so no set stays complete.
PressClock ==
  /\ ~Locked
  /\ Becomes([live EXCEPT !.complete = FALSE,
                          !.state = IF @ = "RUNNING" THEN "IDLE" ELSE "RUNNING"])

\* By hand or by the timer: votes go, and the clock stops unless in a break.
Reset ==
  Becomes([live EXCEPT !.complete = FALSE, !.state = IF InBreakNow THEN @ ELSE "IDLE"])

ToggleAttemptChange == Becomes([live EXCEPT !.attemptChange = ~@])

\* Remotes come and go, with the last button still pressed, and the room is told.
Reseat == \E c \in BOOLEAN : Becomes([live EXCEPT !.complete = c])

StartBreak == Becomes([live EXCEPT !.mode = "BREAK", !.state = "RUNNING"])

EndBreak == InBreakNow /\ Becomes([live EXCEPT !.mode = "ACTIVE", !.state = "IDLE"])

\* The tick of a clock, or a global update that changes nothing here.
Tick == Becomes(live)

------------------------------------------------------------------------------
(* What nobody is told.                                                    *)

RunsOut ==
  /\ live.state = "RUNNING"
  /\ live' = [live EXCEPT !.state = "EXPIRED"]
  /\ UNCHANGED <<known, told>>

\* A remote that leaves takes its vote with it.  A replace whose incoming remote
\* does not fit, and a transfer that names another platform, tell nobody.
LeavesUntold ==
  /\ known
  /\ live' = [live EXCEPT !.complete = FALSE]
  /\ UNCHANGED <<known, told>>

\* Made by POST /platforms or /platforms/ensure, which joins a global break.
Appears ==
  /\ ~known
  /\ known' = TRUE
  /\ live' \in {AtRest, [AtRest EXCEPT !.mode = "BREAK", !.state = "RUNNING"]}
  /\ UNCHANGED told

Vanishes ==
  /\ known
  /\ known' = FALSE
  /\ live' = AtRest
  /\ told' = Untold

Update ==
  \/ Vote
  \/ PressClock
  \/ Reset
  \/ ToggleAttemptChange
  \/ Reseat
  \/ StartBreak
  \/ EndBreak
  \/ Tick

FeedNext == Update \/ RunsOut \/ LeavesUntold \/ Appears \/ Vanishes

FeedSpec == FeedInit /\ [][FeedNext]_feedVars

\* A platform's room was told its present state, apart from a clock that has
\* run out since and a complete set that a remote has left since; a break is
\* never idle; and a platform nobody was told of is as it was made.
FeedInv ==
  /\ live.mode = "BREAK" => live.state # "IDLE"
  /\ ~known => live = AtRest /\ told = Untold
  /\ told = Untold =>
       \/ live = AtRest
       \/ live \in {[AtRest EXCEPT !.mode = "BREAK", !.state = s] : s \in {"RUNNING", "EXPIRED"}}
  /\ told # Untold =>
       /\ told.mode = live.mode /\ told.attemptChange = live.attemptChange
       /\ \/ told.state = live.state
          \/ told.state = "RUNNING" /\ live.state = "EXPIRED"
       /\ live.complete => told.complete

FeedTypeOK == known \in BOOLEAN /\ live \in View /\ told \in View \cup {Untold}

=============================================================================
