--------------------------- MODULE PlatformActivity ---------------------------
(***************************************************************************)
(* What the attempt cycle (PlatformService) promises to those who follow   *)
(* the clocks only by report: which platforms there are and, of each       *)
(* clock, its mode, its length and whether it was started.  How much is    *)
(* left, who voted and which timers are pending does not show, so timers   *)
(* may fire whenever they can do something.                                *)
(***************************************************************************)
EXTENDS Integers

CONSTANTS
  Platforms,        \* platform ids
  Lengths,          \* the lengths of breaks, also of what is left of one
  ActiveDuration    \* the length of the attempt clock

ASSUME ActivityAssumption == ActiveDuration \in Nat /\ Lengths \subseteq Nat

VARIABLES
  platforms,        \* the platforms that exist
  face              \* face[p]: what shows of p's clock

activityVars == <<platforms, face>>

AtRest == [mode |-> "ACTIVE", duration |-> ActiveDuration, running |-> FALSE]
Attempt == [mode |-> "ACTIVE", duration |-> ActiveDuration, running |-> TRUE]
Break(d) == [mode |-> "BREAK", duration |-> d, running |-> TRUE]
Faces == {AtRest, Attempt} \cup {Break(d) : d \in Lengths}

InBreaks == {p \in platforms : face[p].mode = "BREAK"}

Show(S, x) == face' = [p \in Platforms |-> IF p \in S THEN x ELSE face[p]]

\* The chief starts the clock, also one that has run out, or stops it.
StartAttempt(p) ==
  /\ p \in platforms \ InBreaks
  /\ Show({p}, Attempt)
  /\ UNCHANGED platforms

StopAttempt(p) ==
  /\ p \in platforms \ InBreaks
  /\ face[p].running
  /\ Show({p}, AtRest)
  /\ UNCHANGED platforms

\* A reset of votes, by hand or by its timer, stops the clock outside breaks.
ResetClock(p) ==
  /\ p \in platforms \ InBreaks
  /\ Show({p}, AtRest)
  /\ UNCHANGED platforms

\* A break on one platform, or on all.
StartBreaks(S, d) ==
  /\ S = platforms \/ \E p \in platforms : S = {p}
  /\ Show(S, Break(d))
  /\ UNCHANGED platforms

\* Breaks end by their timers one by one; the director ends one or all.
EndBreaks(S) ==
  /\ S = InBreaks \/ \E p \in InBreaks : S = {p}
  /\ Show(S, AtRest)
  /\ UNCHANGED platforms

\* A platform may join what is left of a global break.
Come(p, x) ==
  /\ p \notin platforms
  /\ platforms' = platforms \cup {p}
  /\ Show({p}, x)

Go(p) ==
  /\ p \in platforms
  /\ platforms' = platforms \ {p}
  /\ Show({p}, AtRest)

ActivityInit ==
  /\ platforms = {}
  /\ face = [p \in Platforms |-> AtRest]

ActivityNext ==
  \/ \E p \in Platforms :
       \/ StartAttempt(p) \/ StopAttempt(p) \/ ResetClock(p) \/ Go(p)
       \/ \E x \in Faces \ {Attempt} : Come(p, x)
  \/ \E S \in SUBSET Platforms :
       EndBreaks(S) \/ \E d \in Lengths : StartBreaks(S, d)

ActivitySpec == ActivityInit /\ [][ActivityNext]_activityVars

ActivityTypeOK == platforms \subseteq Platforms /\ face \in [Platforms -> Faces]

=============================================================================
