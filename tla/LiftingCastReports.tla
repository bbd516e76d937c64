-------------------------- MODULE LiftingCastReports --------------------------
(***************************************************************************)
(* What LiftingCast (LC) is told (liftingcast.service.ts and its calls in  *)
(* platform.service.ts).  The handlers are those of PlatformActivity, which *)
(* PlatformService implements; here each also makes its report.            *)
(*                                                                         *)
(* A report is a chain of one or two HTTP posts that nobody waits for: the *)
(* second is sent when the first was answered, to the session stored by    *)
(* then, and a failure ends the chain.  Chains of different handlers run   *)
(* at the same time, and LC handles posts in whatever order they arrive.   *)
(* Of LC only what the comments of platform.service.ts say is assumed: its *)
(* clock keeps the length it was last given, a start and a reset use it.   *)
(***************************************************************************)
EXTENDS PlatformActivity, FiniteSets, Sequences

CONSTANTS
  LcPlatforms,      \* the platforms of LiftingCast that a session may name
  MaxChains         \* bound: chains of one platform under way at a time

VARIABLES
  session,          \* sessions: the LC platform p reports to, if any
  chain,            \* chain[p][s]: a chain under way, or Idle
  lc,               \* LC: the clock of each of its platforms, and whether
                    \*   lights are shown that it has not yet moved on from
  inStep            \* history: p's last clock report ran alone and succeeded

reportVars == <<session, chain, lc, inStep>>
allVars == <<activityVars, reportVars>>

Slots == 1..MaxChains
NoSession == "no session"

ASSUME ReportsAssumption == MaxChains \in Nat /\ NoSession \notin LcPlatforms

Idle == [calls |-> <<>>]

SetThenStart == <<"clock", "start_clock">>
SetThenReset == <<"clock", "reset_clock">>
ResetOnly == <<"reset_clock">>

Active(p) == {s \in Slots : chain[p][s] # Idle}
OnClock(c) == c # Idle /\ Head(c.calls) \in {"clock", "start_clock", "reset_clock"}
ClockChains(p) == {s \in Slots : OnClock(chain[p][s])}
DecisionChains(p) == Active(p) \ ClockChains(p)

------------------------------------------------------------------------------
(* Reports of handlers.                                                    *)

ForgetsToLook(p) == TRUE
HasSession(p) == session[p] # NoSession

\* A chain that meets another of its kind is no longer alone.
Met(c) == IF c = Idle THEN Idle ELSE [c EXCEPT !.alone = FALSE]

\* The chains of a platform when a new one joins them and meets its kin.
Joined(chains, kin, new) ==
  LET free == CHOOSE s \in Slots : chains[s] = Idle IN
  [s \in Slots |-> IF s = free THEN new
                   ELSE IF s \in kin THEN Met(chains[s])
                   ELSE chains[s]]

\* A report of the clocks of the platforms S that have a session.  One that
\* only resets is as good as the length LC had before.
ClockChain(p, calls) ==
  [calls |-> calls, length |-> face'[p].duration, at |-> session[p],
   alone |-> ClockChains(p) = {} /\ (inStep[p] \/ Head(calls) = "clock")]

ReportClocks(S, calls) ==
  LET telling == {p \in S : HasSession(p)} IN
  /\ \A p \in telling : Active(p) # Slots
  /\ chain' = [p \in Platforms |->
       IF p \in telling THEN Joined(chain[p], ClockChains(p), ClockChain(p, calls))
                        ELSE chain[p]]
  /\ inStep' = [p \in Platforms |-> inStep[p] /\ p \notin telling]
  /\ UNCHANGED <<session, lc>>

\* The report of a decision; votes are not told apart.
LightsLast == <<"next_attempt", "lights">>
LightsFirst == <<"lights", "next_attempt">>
DecisionCalls == LightsFirst

DecisionChain(p) ==
  [calls |-> DecisionCalls, length |-> 0, at |-> session[p],
   alone |-> DecisionChains(p) = {}]

ReportLights(p) ==
  /\ IF HasSession(p)
       THEN /\ Active(p) # Slots
            /\ chain' = [chain EXCEPT ![p] =
                           Joined(@, DecisionChains(p), DecisionChain(p))]
       ELSE UNCHANGED chain
  /\ UNCHANGED <<session, lc, inStep>>

------------------------------------------------------------------------------
(* The handlers, and what they report.                                     *)

\* pressClockButton: a start is told with its length, a stop by a reset.
StartAttemptReported(p) == StartAttempt(p) /\ ReportClocks({p}, SetThenStart)
StopAttemptReported(p) == StopAttempt(p) /\ ReportClocks({p}, ResetOnly)

\* startPlatformBreak, startGlobalBreak
StartBreaksReported(S, d) == StartBreaks(S, d) /\ ReportClocks(S, SetThenStart)

\* cancelPlatformBreak, cancelGlobalBreak and the callback of
\* scheduleBreakReset; once they called notifyClockReset alone.
BreakEndToldByReset == ResetOnly
BreakEndTold == SetThenReset
EndBreaksReported(S) == EndBreaks(S) /\ ReportClocks(S, BreakEndTold)

\* The timeout of castVote is due, whatever has become of its votes.
DecisionReported(p) == ReportLights(p) /\ UNCHANGED activityVars

\* LC is not told of resets, nor of platforms that come, not even into a
\* break, or go; these keep their session, and LC its clock.
ResetUnreported(p) == ResetClock(p) /\ UNCHANGED reportVars

ComesOrGoes(p) ==
  /\ Go(p) \/ \E x \in Faces \ {Attempt} : Come(p, x)
  /\ inStep' = [inStep EXCEPT ![p] = FALSE]
  /\ chain' = [chain EXCEPT ![p] =
       [s \in Slots |-> IF s \in ClockChains(p) THEN Met(@[s]) ELSE @[s]]]
  /\ UNCHANGED <<session, lc>>

\* POST /liftingcast/session/:platformId.  Each platform of the meet has its
\* own at LC.
StoreSession(p, l) ==
  /\ \A q \in Platforms \ {p} :
       session[q] # l /\ \A s \in Active(q) : chain[q][s].at # l
  /\ session' = [session EXCEPT ![p] = l]
  /\ inStep' = [inStep EXCEPT ![p] = FALSE]
  /\ chain' = [chain EXCEPT ![p] = [s \in Slots |-> Met(chain[p][s])]]
  /\ UNCHANGED <<activityVars, lc>>

------------------------------------------------------------------------------
(* The posts.                                                              *)

\* LC handles one post.
Handled(x, call, length) ==
  CASE call = "clock"        -> [x EXCEPT !.length = length]
    [] call = "start_clock"  -> [x EXCEPT !.running = TRUE]
    [] call = "reset_clock"  -> [x EXCEPT !.running = FALSE]
    [] call = "lights"       -> [x EXCEPT !.lights = TRUE]
    [] call = "next_attempt" -> [x EXCEPT !.lights = FALSE]

LcHandles(c) ==
  lc' = [lc EXCEPT ![c.at] = Handled(@, Head(c.calls), c.length)]

\* What a chain does next: the next call goes to the session stored by now.
GoesOn(p, c) ==
  IF Len(c.calls) = 1 THEN Idle
  ELSE [c EXCEPT !.calls = Tail(@), !.at = session[p]]

StopsAfterFailure(p, c) == Idle
GoesOnAfterFailure(p, c) == GoesOn(p, c)
AfterFailure(p, c) == StopsAfterFailure(p, c)

PostSucceeds(p, s) ==
  LET c == chain[p][s] IN
  /\ c # Idle
  /\ LcHandles(c)
  /\ chain' = [chain EXCEPT ![p][s] = GoesOn(p, c)]
  /\ inStep' = [inStep EXCEPT ![p] =
       @ \/ (OnClock(c) /\ Len(c.calls) = 1 /\ c.alone)]
  /\ UNCHANGED <<activityVars, session>>

\* A post that fails, or an answer that is lost after LC acted.
PostFails(p, s) ==
  LET c == chain[p][s] IN
  /\ c # Idle
  /\ LcHandles(c) \/ UNCHANGED lc
  /\ chain' = [chain EXCEPT ![p][s] = AfterFailure(p, c)]
  /\ UNCHANGED <<activityVars, session, inStep>>

------------------------------------------------------------------------------
ReportsInit ==
  /\ ActivityInit
  /\ session = [p \in Platforms |-> NoSession]
  /\ chain = [p \in Platforms |-> [s \in Slots |-> Idle]]
  /\ lc = [l \in LcPlatforms |-> [length |-> 0, running |-> FALSE, lights |-> FALSE]]
  /\ inStep = [p \in Platforms |-> FALSE]

ReportsNext ==
  \/ \E p \in Platforms :
       \/ StartAttemptReported(p) \/ StopAttemptReported(p) \/ ResetUnreported(p)
       \/ DecisionReported(p) \/ ComesOrGoes(p)
       \/ \E l \in LcPlatforms : StoreSession(p, l)
       \/ \E s \in Slots : PostSucceeds(p, s) \/ PostFails(p, s)
  \/ \E S \in SUBSET Platforms :
       \/ EndBreaksReported(S)
       \/ \E d \in Lengths : StartBreaksReported(S, d)

ReportsSpec == ReportsInit /\ [][ReportsNext]_allVars

------------------------------------------------------------------------------
(* Properties.                                                             *)

Suffixes == {SetThenStart, SetThenReset, ResetOnly, LightsFirst,
             <<"start_clock">>, <<"next_attempt">>}
Chains ==
  {Idle} \cup [calls : Suffixes, length : Nat, at : LcPlatforms, alone : BOOLEAN]

\* The types of the variables: a chain always has a session to post to.
ReportsTypeOK ==
  /\ ActivityTypeOK
  /\ session \in [Platforms -> LcPlatforms \cup {NoSession}]
  /\ chain \in [Platforms -> [Slots -> Chains]]
  /\ lc \in [LcPlatforms -> [length : Nat, running : BOOLEAN, lights : BOOLEAN]]
  /\ inStep \in [Platforms -> BOOLEAN]

\* A report that ran alone repairs whatever earlier ones left at LC: after it
\* LC's clock has the length of the platform's own, and is counting when that
\* one is, until the next report (pressClockButton, startPlatformBreak,
\* notifyLcClockResetToActive).  So after a break the attempt clock does not
\* count down from the break's length.
ClockInStep ==
  \A p \in platforms : inStep[p] =>
    /\ lc[session[p]].length = face[p].duration
    /\ face[p].running => lc[session[p]].running

\* LC is moved on only from an attempt whose lights it accepted, unless two
\* reports of decisions overlapped or the session changed (castVote's chain).
AdvanceAfterLights ==
  \A p \in Platforms : \A s \in Active(p) :
    LET c == chain[p][s] IN
    c.alone /\ Head(c.calls) = "next_attempt" => lc[c.at].lights

=============================================================================
