------------------------ MODULE PlatformActivityProofs ------------------------
(* The attempt cycle implements PlatformActivity, for any number of platforms *)
(* and any lengths: whoever follows the clocks by report can rely on it.      *)
EXTENDS PlatformServiceProofs

USE ActiveDurationAssumption, ServiceAssumption

BreakLengths == UNION {1..d : d \in BreakDurations}

\* What a global break has left is a length a platform can join it with.
GlobalBreakOK == globalBreak > 0 => globalBreak \in BreakLengths

ActivityInv == GlobalBreakOK /\ Activity!ActivityTypeOK

LEMMA FacesOfClocks ==
  /\ Face(ResetToActive) = Activity!AtRest
  /\ \A d \in Nat : Face(Start(ConfigureBreak(d))) = Activity!Break(d)
  /\ \A c \in Clock : Face(Elapse(c)) = Face(c)
  /\ \A c \in Clock : Face(c).mode = c.mode /\ Face(c).running = c.running
BY DEF Face, ResetToActive, Start, ConfigureBreak, Elapse, Clock,
       Activity!AtRest, Activity!Break

LEMMA BreakLengthFacts ==
  /\ BreakDurations \subseteq BreakLengths
  /\ \A n \in BreakLengths : n \in Nat \ {0} /\ (n > 1 => n - 1 \in BreakLengths)
<1>1. ASSUME NEW d \in BreakDurations PROVE d \in BreakLengths
  <2>1. d \in 1..d
    OBVIOUS
  <2>. QED
    BY <2>1 DEF BreakLengths
<1>2. ASSUME NEW n \in BreakLengths
      PROVE  n \in Nat \ {0} /\ (n > 1 => n - 1 \in BreakLengths)
  <2>1. PICK d \in BreakDurations : n \in 1..d
    BY DEF BreakLengths
  <2>2. d \in Nat /\ n \in Nat \ {0} /\ (n > 1 => n - 1 \in 1..d)
    BY <2>1
  <2>. QED
    BY <2>2 DEF BreakLengths
<1>. QED
  BY <1>1, <1>2

LEMMA StepGlobalBreak == TypeOK /\ GlobalBreakOK /\ [Next]_vars => GlobalBreakOK'
<1>. SUFFICES ASSUME TypeOK, GlobalBreakOK, [Next]_vars PROVE GlobalBreakOK'
  OBVIOUS
<1>. USE BreakLengthFacts DEF GlobalBreakOK, Off
<1>1. ASSUME NEW d \in BreakDurations, StartGlobalBreak(d)
      PROVE  GlobalBreakOK'
  BY <1>1 DEF StartGlobalBreak
<1>2. ASSUME GetGlobalBreak \/ CancelGlobalBreak
      PROVE  GlobalBreakOK'
  BY <1>2 DEF GetGlobalBreak, CancelGlobalBreak
<1>3. ASSUME NEW p \in Platforms, EnsurePlatform(p)
      PROVE  GlobalBreakOK'
  BY <1>3 DEF EnsurePlatform
<1>4. ASSUME TimePasses
      PROVE  GlobalBreakOK'
  BY <1>4 DEF TimePasses, Sooner, TypeOK, PlatformsTypeOK, Timer
<1>5. ASSUME globalBreak' = globalBreak
      PROVE  GlobalBreakOK'
  BY <1>5
<1>6. ASSUME NEW p \in Platforms, Request(p) \/ TimerFires(p), ~EnsurePlatform(p)
      PROVE  GlobalBreakOK'
  BY <1>5, <1>6
     DEF Request, TimerFires, CastVote, PressClockButton, ResetAttempt, ToggleAttemptChange,
         StartPlatformBreak, CancelPlatformBreak,
         CreatePlatform, DeletePlatform, VoteResetFires, BreakResetFires, ClockTickFires,
         ReportDecision
<1>7. CASE UNCHANGED vars \/ MoveRemotes
  BY <1>5, <1>7, MovedOthers DEF vars, OthersUnmoved
<1>. QED
  BY <1>1, <1>2, <1>3, <1>4, <1>6, <1>7 DEF Next, GlobalRequest

LEMMA ActivityStepTypes ==
  ASSUME Activity!ActivityTypeOK, [Activity!ActivityNext]_(Activity!activityVars)
  PROVE  Activity!ActivityTypeOK'
BY DEF Activity!ActivityTypeOK, Activity!ActivityNext, Activity!activityVars,
       Activity!StartAttempt, Activity!StopAttempt, Activity!ResetClock, Activity!Go,
       Activity!Come, Activity!StartBreaks, Activity!EndBreaks, Activity!Show,
       Activity!Faces, Activity!AtRest, Activity!Attempt, Activity!Break

------------------------------------------------------------------------------
(* Every step shows as a step of PlatformActivity, or does not show.        *)

\* How one clock that is set anew shows, and several.
LEMMA OneShows ==
  ASSUME TypeOK, NEW p \in Platforms, NEW c, clock' = [clock EXCEPT ![p] = c]
  PROVE  Activity!Show({p}, Face(c))
BY DEF Activity!Show, TypeOK, PlatformsTypeOK

LEMMA SomeShow ==
  ASSUME TypeOK, NEW S \in SUBSET Platforms, NEW c, clock' = Assign(clock, S, c)
  PROVE  Activity!Show(S, Face(c))
BY DEF Activity!Show, Assign

LEMMA NothingShows ==
  ASSUME TypeOK, platforms' = platforms, clock' = clock
  PROVE  UNCHANGED Activity!activityVars
BY DEF Activity!activityVars

LEMMA BreaksShow ==
  TypeOK => Activity!InBreaks = {p \in platforms : InBreak(clock[p])}
BY FacesOfClocks DEF Activity!InBreaks, InBreak, TypeOK, PlatformsTypeOK

\* A clock outside breaks has the length of the attempt clock.
LEMMA AttemptLength ==
  ASSUME TypeOK, Activity!ActivityTypeOK, NEW p \in Platforms, ~InBreak(clock[p])
  PROVE  /\ clock[p].duration = ActiveDuration
         /\ Face(Start(clock[p])) = Activity!Attempt
<1>1. clock[p] \in Clock
  BY DEF TypeOK, PlatformsTypeOK
<1>2. Face(clock[p]) \in Activity!Faces
  BY DEF Activity!ActivityTypeOK
<1>3. clock[p].mode = "ACTIVE"
  BY <1>1 DEF InBreak, Clock, ClockMode
<1>4. clock[p].duration = ActiveDuration
  BY <1>2, <1>3 DEF Face, Activity!Faces, Activity!AtRest, Activity!Attempt, Activity!Break
<1>. QED
  BY <1>1, <1>3, <1>4 DEF Face, Start, Clock, Activity!Attempt

LEMMA ResetShows ==
  ASSUME TypeOK, NEW p \in Platforms, p \in platforms, platforms' = platforms,
         clock' = [clock EXCEPT ![p] = AfterReset(clock[p])]
  PROVE  Activity!ResetClock(p) \/ UNCHANGED Activity!activityVars
<1>1. CASE InBreak(clock[p])
  <2>1. clock' = clock
    BY <1>1 DEF AfterReset, TypeOK, PlatformsTypeOK
  <2>. QED
    BY <2>1, NothingShows
<1>2. CASE ~InBreak(clock[p])
  <2>1. Activity!Show({p}, Activity!AtRest)
    BY <1>2, OneShows, FacesOfClocks DEF AfterReset
  <2>. QED
    BY <1>2, <2>1, BreaksShow DEF Activity!ResetClock
<1>. QED
  BY <1>1, <1>2

LEMMA EnsureShows ==
  ASSUME TypeOK, ClocksOK, ActivityInv, NEW p \in Platforms,
         EnsurePlatform(p) \/ CreatePlatform(p)
  PROVE  \E x \in Activity!Faces \ {Activity!Attempt} : Activity!Come(p, x)
<1>1. p \notin platforms /\ platforms' = platforms \cup {p} /\ clock[p] = ResetToActive
  BY DEF EnsurePlatform, CreatePlatform, ClocksOK, PlatformClockOK
<1>2. CASE clock' = clock
  <2>1. clock' = [clock EXCEPT ![p] = ResetToActive]
    BY <1>1, <1>2 DEF TypeOK, PlatformsTypeOK
  <2>2. Activity!Show({p}, Activity!AtRest)
    BY <2>1, OneShows, FacesOfClocks
  <2>3. Activity!AtRest \in Activity!Faces /\ Activity!AtRest # Activity!Attempt
    BY DEF Activity!Faces, Activity!AtRest, Activity!Attempt
  <2>. QED
    BY <1>1, <2>2, <2>3 DEF Activity!Come
<1>3. CASE EnsurePlatform(p) /\ globalBreak > 0
  <2>1. globalBreak \in BreakLengths /\ globalBreak \in Nat
    BY <1>3, BreakLengthFacts DEF ActivityInv, GlobalBreakOK
  <2>2. clock' = [clock EXCEPT ![p] = Start(ConfigureBreak(globalBreak))]
    BY <1>3 DEF EnsurePlatform, JoinBreak
  <2>3. Activity!Show({p}, Activity!Break(globalBreak))
    BY <2>1, <2>2, OneShows, FacesOfClocks
  <2>4. /\ Activity!Break(globalBreak) \in Activity!Faces
        /\ Activity!Break(globalBreak) # Activity!Attempt
    BY <2>1 DEF BreakLengths, Activity!Faces, Activity!Break, Activity!Attempt
  <2>. QED
    BY <1>1, <2>3, <2>4 DEF Activity!Come
<1>. QED
  BY <1>2, <1>3 DEF EnsurePlatform, CreatePlatform

LEMMA StepShows ==
  TypeOK /\ ClocksOK /\ ActivityInv /\ [Next]_vars
    => [Activity!ActivityNext]_(Activity!activityVars)
<1>. SUFFICES ASSUME TypeOK, ClocksOK, ActivityInv, [Next]_vars
              PROVE  Activity!ActivityNext \/ UNCHANGED Activity!activityVars
  OBVIOUS
<1>0. platforms \subseteq Platforms /\ clock \in [Platforms -> Clock]
  BY DEF TypeOK, PlatformsTypeOK
<1>1. ASSUME NEW p \in Platforms, NEW i \in 1..MaxActive, PressClockButton(p, i)
      PROVE  Activity!StartAttempt(p) \/ Activity!StopAttempt(p)
  <2>1. /\ p \in platforms /\ ~InBreak(clock[p]) /\ platforms' = platforms
        /\ clock' = [clock EXCEPT ![p] = HandleChiefClockPress(clock[p])]
    BY <1>1 DEF PressClockButton
  <2>2. p \in platforms \ Activity!InBreaks
    BY <2>1, BreaksShow
  <2>3. CASE State(clock[p]) = "RUNNING"
    <3>1. clock' = [clock EXCEPT ![p] = ResetToActive]
      BY <2>1, <2>3 DEF HandleChiefClockPress
    <3>2. Activity!Show({p}, Activity!AtRest)
      BY <3>1, OneShows, FacesOfClocks
    <3>3. Face(clock[p]).running
      BY <1>0, <2>3, StateFacts, FacesOfClocks
    <3>. QED
      BY <2>1, <2>2, <3>2, <3>3 DEF Activity!StopAttempt
  <2>4. CASE State(clock[p]) # "RUNNING"
    <3>1. clock' = [clock EXCEPT ![p] = Start(clock[p])]
      BY <2>1, <2>4 DEF HandleChiefClockPress
    <3>2. Activity!Show({p}, Activity!Attempt)
      <4>1. Activity!Show({p}, Face(Start(clock[p])))
        BY <3>1, OneShows
      <4>2. Face(Start(clock[p])) = Activity!Attempt
        BY <2>1, AttemptLength DEF ActivityInv
      <4>. QED
        BY <4>1, <4>2
    <3>. QED
      BY <2>1, <2>2, <3>2 DEF Activity!StartAttempt
  <2>. QED
    BY <2>3, <2>4
<1>2. ASSUME NEW p \in Platforms, ResetAttempt(p) \/ VoteResetFires(p)
      PROVE  Activity!ResetClock(p) \/ UNCHANGED Activity!activityVars
  <2>1. platforms' = platforms
    BY <1>2 DEF ResetAttempt, VoteResetFires
  <2>2. \/ clock' = clock
        \/ p \in platforms /\ clock' = [clock EXCEPT ![p] = AfterReset(clock[p])]
    BY <1>2 DEF ResetAttempt, VoteResetFires, ResetClears
  <2>. QED
    BY <2>1, <2>2, NothingShows, ResetShows
<1>3. ASSUME NEW p \in Platforms, NEW d \in BreakDurations, StartPlatformBreak(p, d)
      PROVE  Activity!StartBreaks({p}, d)
  <2>1. Activity!Show({p}, Activity!Break(d))
    BY <1>3, OneShows, FacesOfClocks DEF StartPlatformBreak
  <2>. QED
    BY <1>3, <2>1 DEF StartPlatformBreak, Activity!StartBreaks
<1>4. ASSUME NEW d \in BreakDurations, StartGlobalBreak(d)
      PROVE  Activity!StartBreaks(platforms, d)
  <2>1. Activity!Show(platforms, Activity!Break(d))
    BY <1>0, <1>4, SomeShow, FacesOfClocks DEF StartGlobalBreak
  <2>. QED
    BY <1>4, <2>1 DEF StartGlobalBreak, Activity!StartBreaks
<1>5. ASSUME NEW p \in Platforms, p \in platforms, InBreak(clock[p]), platforms' = platforms,
             clock' = [clock EXCEPT ![p] = ResetToActive]
      PROVE  Activity!EndBreaks({p})
  <2>1. Activity!Show({p}, Activity!AtRest)
    BY <1>5, OneShows, FacesOfClocks
  <2>. QED
    BY <1>5, <2>1, BreaksShow DEF Activity!EndBreaks
<1>6. ASSUME CancelGlobalBreak
      PROVE  Activity!EndBreaks(Activity!InBreaks)
  <2>1. clock' = Assign(clock, Activity!InBreaks, ResetToActive) /\ platforms' = platforms
    BY <1>6, BreaksShow DEF CancelGlobalBreak
  <2>2. Activity!InBreaks \in SUBSET Platforms
    BY <1>0, BreaksShow
  <2>3. Activity!Show(Activity!InBreaks, Activity!AtRest)
    BY <2>1, <2>2, SomeShow, FacesOfClocks
  <2>. QED
    BY <2>1, <2>3 DEF Activity!EndBreaks
<1>7. ASSUME NEW p \in Platforms, DeletePlatform(p)
      PROVE  Activity!Go(p)
  <2>1. Activity!Show({p}, Activity!AtRest)
    BY <1>7, OneShows, FacesOfClocks DEF DeletePlatform
  <2>. QED
    BY <1>7, <2>1 DEF DeletePlatform, Activity!Go
<1>8. ASSUME TimePasses
      PROVE  UNCHANGED Activity!activityVars
  <2>1. platforms' = platforms /\ clock' = [p \in Platforms |-> Elapse(clock[p])]
    BY <1>8 DEF TimePasses
  <2>2. \A p \in Platforms : Face(clock'[p]) = Face(clock[p])
    BY <1>0, <2>1, FacesOfClocks
  <2>. QED
    BY <2>1, <2>2 DEF Activity!activityVars
<1>9. ASSUME NEW p \in Platforms, BreakResetFires(p)
      PROVE  Activity!EndBreaks({p}) \/ UNCHANGED Activity!activityVars
  <2>1. platforms' = platforms
    BY <1>9 DEF BreakResetFires
  <2>2. \/ clock' = clock
        \/ /\ p \in platforms /\ InBreak(clock[p])
           /\ clock' = [clock EXCEPT ![p] = ResetToActive]
    BY <1>9 DEF BreakResetFires
  <2>. QED
    BY <1>5, <2>1, <2>2, NothingShows
<1>10. ASSUME NEW p \in Platforms, CancelPlatformBreak(p)
       PROVE  Activity!EndBreaks({p})
  BY <1>5, <1>10 DEF CancelPlatformBreak
<1>11. ASSUME NEW p \in Platforms,
              \/ \E i \in 1..MaxActive, b \in Buttons : CastVote(p, i, b)
              \/ ToggleAttemptChange(p)
              \/ ClockTickFires(p) \/ ReportDecision(p)
       PROVE  UNCHANGED Activity!activityVars
  <2>1. platforms' = platforms /\ clock' = clock
    BY <1>11 DEF CastVote, ToggleAttemptChange, ClockTickFires, ReportDecision, platformVars
  <2>. QED
    BY <2>1, NothingShows
<1>12. ASSUME GetGlobalBreak \/ MoveRemotes \/ UNCHANGED vars
       PROVE  UNCHANGED Activity!activityVars
  <2>1. platforms' = platforms /\ clock' = clock
    BY <1>12, MovedOthers DEF OthersUnmoved, GetGlobalBreak, vars, platformVars
  <2>. QED
    BY <2>1, NothingShows
<1>13. BreakDurations \subseteq UNION {1..d : d \in BreakDurations}
  BY BreakLengthFacts DEF BreakLengths
<1>14. ASSUME NEW S \in SUBSET Platforms, NEW d \in BreakDurations, Activity!StartBreaks(S, d)
       PROVE  Activity!ActivityNext
  BY <1>13, <1>14 DEF Activity!ActivityNext
<1>15. ASSUME NEW S \in SUBSET Platforms, Activity!EndBreaks(S)
       PROVE  Activity!ActivityNext
  BY <1>15 DEF Activity!ActivityNext
<1>16. ASSUME NEW p \in Platforms,
              \/ Activity!StartAttempt(p) \/ Activity!StopAttempt(p)
              \/ Activity!ResetClock(p) \/ Activity!Go(p)
              \/ \E x \in Activity!Faces \ {Activity!Attempt} : Activity!Come(p, x)
       PROVE  Activity!ActivityNext
  BY <1>16 DEF Activity!ActivityNext
<1>17. ASSUME NEW p \in Platforms, Request(p) \/ TimerFires(p)
       PROVE  Activity!ActivityNext \/ UNCHANGED Activity!activityVars
  BY <1>1, <1>2, <1>3, <1>7, <1>9, <1>10, <1>11, <1>14, <1>15, <1>16, <1>17, EnsureShows
     DEF Request, TimerFires
<1>18. Activity!InBreaks \in SUBSET Platforms
  BY <1>0, BreaksShow
<1>. QED
  BY <1>0, <1>4, <1>6, <1>8, <1>12, <1>14, <1>15, <1>17, <1>18 DEF Next, GlobalRequest

LEMMA ActivityInvariant == Spec => []ActivityInv
<1>1. Init => ActivityInv
  BY FacesOfClocks DEF Init, ActivityInv, GlobalBreakOK, Off, Activity!ActivityTypeOK,
                       Activity!Faces
<1>2. TypeOK /\ ClocksOK /\ ActivityInv /\ [Next]_vars => ActivityInv'
  BY StepGlobalBreak, StepShows, ActivityStepTypes DEF ActivityInv
<1>. QED
  BY <1>1, <1>2, TypeCorrect, ClocksInvariant, PTL DEF Spec

\* The attempt cycle implements PlatformActivity: however timers, votes and
\* breaks interleave, clocks start, stop and change as that module says.
THEOREM ServiceImplementsActivity == Spec => ActivitySpec
<1>1. Init => Activity!ActivityInit
  BY FacesOfClocks DEF Init, Activity!ActivityInit
<1>. QED
  BY <1>1, StepShows, TypeCorrect, ClocksInvariant, ActivityInvariant, PTL
  DEF Spec, ActivitySpec, Activity!ActivitySpec

=============================================================================
