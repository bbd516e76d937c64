--------------------------- MODULE PlatformService ---------------------------
(***************************************************************************)
(* The attempt cycle of a meet's platforms (platform.service.ts with       *)
(* models/platform.ts): the chief starts the clock, three referees vote,   *)
(* the decision is shown and then cleared by a timer; breaks replace the   *)
(* attempt clock, on one platform or on all of them.                       *)
(*                                                                         *)
(* Node runs one handler at a time, so every route handler and every timer *)
(* callback is one action.  The hard part is what handlers leave behind:   *)
(* four kinds of timer that outlive the state they were set for, even the  *)
(* platform itself.  A timer is the number of time units until it fires,   *)
(* or Off; time does not pass while a timer is due, but requests may come  *)
(* before it fires, which stands for a callback that runs late.            *)
(*                                                                         *)
(* Of the remotes a platform keeps only its active ones, in the order in   *)
(* which they were activated, each as its role and its last button.  Who   *)
(* they are, the bench and the pool are in RemoteAssignment: here any      *)
(* remote, with any last button, may come and take any role.  (Physical    *)
(* remotes are refused a role that is taken, keyboard remotes are not.)    *)
(***************************************************************************)
EXTENDS PlatformClock, FiniteSets, SequencesExt

CONSTANTS
  Platforms,        \* platform ids that requests may name
  Buttons,          \* the vote buttons that are pressed (white, red, ...)
  BreakDurations,   \* the break lengths a director asks for
  DecisionDelay,    \* platform.decisionDelay, from complete set to lights
  RevealWindow,     \* the "+ 6" seconds the lights stay up
  TickPeriod,       \* the interval of the clock tick
  Movable,          \* bound: the roles of the remotes a director moves
  MaxDecisions      \* bound: reports to LiftingCast pending at one time

Roles == {"left", "right", "chief"}

ASSUME ServiceAssumption ==
  /\ BreakDurations \subseteq Nat \ {0}
  /\ DecisionDelay \in Nat
  /\ RevealWindow \in Nat \ {0}
  /\ TickPeriod \in Nat \ {0}
  /\ MaxDecisions \in Nat
  /\ Movable \subseteq Roles
  /\ Buttons \cap {"none", "clock"} = {}

\* An attempt clock that started with its tick runs out at a tick: a tick every
\* second (startClockTick) divides the 60 s (ACTIVE_DURATION).
ASSUME TickAssumption == \E n \in 1..ActiveDuration : ActiveDuration = n * TickPeriod

\* MAX_ACTIVE_REMOTES
MaxActive == 3

\* A clock press is no vote: the chief's last button then counts as none.
Remote == [role : Roles, button : Buttons \cup {"none"}]
Arriving == {x \in Remote : x.role \in Movable}

Off == -1
Timer == Nat \cup {Off}

VARIABLES
  platforms,        \* the platforms that exist
  active,           \* active[p]: its active remotes, the latest last
  attemptChange,    \* attemptChange[p]: the attempt-change lock
  clock,            \* clock[p]: the platform's clock
  globalBreak,      \* what is left of the global break's record
  voteReset,        \* voteReset[p], breakReset[p], tick[p]: the entries of
  breakReset,       \*   voteResetTimers, breakTimers, clockTickIntervals
  tick,
  decisions,        \* decisions[p]: untracked timeouts that report to LC
  browserView,      \* browserView[p], espView[p]: what the browsers and the
  espView,          \*   remotes were last sent about p
  untold            \* history: the roles whose remotes left p untold, since
                    \*   the last update about p

platformVars == <<platforms, active, attemptChange, clock>>
timerVars == <<voteReset, breakReset, tick, decisions>>
viewVars == <<browserView, espView, untold>>
vars == <<platformVars, globalBreak, timerVars, viewVars>>

------------------------------------------------------------------------------
(* What the state means.                                                   *)

\* getRefereeVotes: of remotes with the same role the latest one counts.
Shown(remotes, r) ==
  {i \in DOMAIN remotes : remotes[i].role = r /\
     \A j \in DOMAIN remotes : j > i => remotes[j].role # r}

VotesOf(remotes) ==
  [r \in Roles |-> LET shown == Shown(remotes, r) IN
     IF shown = {} THEN "none" ELSE remotes[CHOOSE i \in shown : TRUE].button]

RefereeVotes(p) == VotesOf(active[p])

HasCompleteVoteSet(p) == \A r \in Roles : RefereeVotes(p)[r] # "none"

Snapshot(p) ==
  [mode |-> clock[p].mode, state |-> State(clock[p]),
   votes |-> RefereeVotes(p), attemptChange |-> attemptChange[p]]

EspSnapshot(p) ==
  [mode |-> clock[p].mode, state |-> State(clock[p]), votes |-> RefereeVotes(p)]

NoVotes == [r \in Roles |-> "none"]

\* Nothing has been sent about the platform since it was made.
UnknownToBrowser ==
  [mode |-> "unknown", state |-> "IDLE", votes |-> NoVotes, attemptChange |-> FALSE]
UnknownToEsp == [mode |-> "unknown", state |-> "IDLE", votes |-> NoVotes]

------------------------------------------------------------------------------
(* What handlers have in common.                                           *)

\* broadcastPlatformUpdate: one update to the browsers, one to the remotes.
BroadcastPlatformUpdate(p) ==
  /\ browserView' = [browserView EXCEPT ![p] = Snapshot(p)']
  /\ espView' = [espView EXCEPT ![p] = EspSnapshot(p)']
  /\ untold' = [untold EXCEPT ![p] = {}]

BroadcastEach(S) ==
  /\ browserView' = [p \in Platforms |-> IF p \in S THEN Snapshot(p)' ELSE browserView[p]]
  /\ espView' = [p \in Platforms |-> IF p \in S THEN EspSnapshot(p)' ELSE espView[p]]

EmitToNobody == browserView' = browserView
EmitGlobalUpdate ==
  browserView' = [p \in Platforms |-> IF p \in platforms THEN Snapshot(p)'
                                                         ELSE browserView[p]]
PushNothingToEsp == espView' = espView

PushAllPlatformStateToEsp ==
  espView' = [p \in Platforms |-> IF p \in platforms THEN EspSnapshot(p)'
                                                     ELSE espView[p]]

\* resetVotes
VotesCleared(p) ==
  [i \in DOMAIN active[p] |-> [active[p][i] EXCEPT !.button = "none"]]

\* A reset leaves a break alone and otherwise stops the clock.
ResetCutsBreak(c) == ResetToActive
ResetKeepsClock(c) == c
AfterReset(c) == IF InBreak(c) THEN c ELSE ResetToActive

\* The delay scheduleVoteReset is given.
VoteResetWithoutDelay == RevealWindow
VoteResetDelay == DecisionDelay + RevealWindow

\* scheduleBreakReset for the platforms of S: an earlier timer is replaced.
KeepEarlierBreakReset(S, d) ==
  [p \in Platforms |-> IF p \in S /\ breakReset[p] = Off THEN d ELSE breakReset[p]]
ForgetBreakReset(S, d) == breakReset
ScheduleBreakReset(S, d) ==
  [p \in Platforms |-> IF p \in S THEN d ELSE breakReset[p]]

Assign(f, S, x) == [p \in Platforms |-> IF p \in S THEN x ELSE f[p]]

------------------------------------------------------------------------------
(* Requests of referees and officials.                                     *)

\* POST /platforms/:id/vote.  A complete set (also one that was complete
\* already) restarts the auto-reset and adds a report to LiftingCast.
CastVote(p, i, b) ==
  /\ p \in platforms
  /\ i \in DOMAIN active[p]
  /\ ~InBreak(clock[p])
  /\ ~attemptChange[p]
  /\ State(clock[p]) # "IDLE"
  /\ active' = [active EXCEPT ![p][i].button = b]
  /\ UNCHANGED <<platforms, attemptChange, clock,
                 globalBreak, breakReset, tick>>
  /\ IF HasCompleteVoteSet(p)'
       THEN /\ Len(decisions[p]) < MaxDecisions
            /\ voteReset' = [voteReset EXCEPT ![p] = VoteResetDelay]
            /\ decisions' = [decisions EXCEPT ![p] =
                 Append(@, [left |-> DecisionDelay, votes |-> RefereeVotes(p)'])]
       ELSE UNCHANGED <<voteReset, decisions>>
  /\ BroadcastPlatformUpdate(p)

\* POST /platforms/:id/clock, which only a remote with the chief's role can do.
PressClockButton(p, i) ==
  /\ p \in platforms
  /\ i \in DOMAIN active[p]
  /\ active[p][i].role = "chief"
  /\ ~InBreak(clock[p])
  /\ ~attemptChange[p]
  /\ active' = [active EXCEPT ![p][i].button = "none"]
  /\ clock' = [clock EXCEPT ![p] = HandleChiefClockPress(@)]
  /\ tick' = [tick EXCEPT ![p] =
                IF State(clock'[p]) = "RUNNING" THEN TickPeriod ELSE Off]
  /\ UNCHANGED <<platforms, attemptChange, globalBreak,
                 voteReset, breakReset, decisions>>
  /\ BroadcastPlatformUpdate(p)

\* POST /platforms/:id/reset.  The timers go first, even if the platform is
\* gone (404) or in a break.
ResetAttempt(p) ==
  /\ voteReset' = [voteReset EXCEPT ![p] = Off]
  /\ tick' = [tick EXCEPT ![p] = Off]
  /\ UNCHANGED <<platforms, attemptChange, globalBreak,
                 breakReset, decisions>>
  /\ IF p \in platforms
       THEN /\ active' = [active EXCEPT ![p] = VotesCleared(p)]
            /\ clock' = [clock EXCEPT ![p] = AfterReset(@)]
            /\ BroadcastPlatformUpdate(p)
       ELSE UNCHANGED <<active, clock, viewVars>>

\* POST /platforms/:id/attempt-change
ToggleAttemptChange(p) ==
  /\ p \in platforms
  /\ attemptChange' = [attemptChange EXCEPT ![p] = ~@]
  /\ UNCHANGED <<platforms, active, clock, globalBreak, timerVars>>
  /\ BroadcastPlatformUpdate(p)

------------------------------------------------------------------------------
(* The director moves remotes.  A remote keeps its last button.            *)

Leaving(p) == {i \in DOMAIN active[p] : active[p][i].role \in Movable}

Without(p, i) == [active EXCEPT ![p] = RemoveAt(@, i)]

\* Remote i of p has left, and only the platforms of S are told how they are.
LeavesTelling(p, i, S) ==
  /\ active' = Without(p, i)
  /\ BroadcastEach(S)
  /\ untold' = [q \in Platforms |->
       CASE q \in S -> {}
         [] q = p /\ q \notin S -> untold[q] \cup {active[p][i].role}
         [] OTHER -> untold[q]]

OthersUnmoved == UNCHANGED <<platforms, attemptChange, clock, globalBreak, timerVars>>

\* POST .../remotes/:remoteId/activate
ActivateRemote(p, x) ==
  /\ p \in platforms
  /\ Len(active[p]) < MaxActive
  /\ active' = [active EXCEPT ![p] = Append(@, x)]
  /\ OthersUnmoved
  /\ BroadcastPlatformUpdate(p)

\* POST .../remotes/:remoteId/deactivate
DeactivateRemote(p, i) ==
  /\ p \in platforms
  /\ i \in Leaving(p)
  /\ OthersUnmoved
  /\ LeavesTelling(p, i, {p})

\* POST .../remotes/replace: the outgoing remote is benched first.  If the
\* incoming one then does not fit, the handler throws and nobody is told.
ReplaceRemote(p, i) ==
  /\ p \in platforms
  /\ i \in Leaving(p)
  /\ OthersUnmoved
  /\ \/ /\ \E x \in Arriving : active' = [active EXCEPT ![p] = Append(RemoveAt(@, i), x)]
        /\ BroadcastPlatformUpdate(p)
     \/ LeavesTelling(p, i, {})

\* POST /platforms/:id/remotes/:remoteId/transfer frees the remote from the
\* platform it is active on, if any, which need not be the one that the path
\* names.  If there is no platform of that name, the handler then throws;
\* otherwise it tells that platform and the target, and no third one.
TransferRemote(named, target) ==
  LET notified == IF named \in platforms THEN {named, target} ELSE {} IN
  /\ target \in platforms
  /\ OthersUnmoved
  /\ \/ \E p \in platforms : \E i \in Leaving(p) : LeavesTelling(p, i, notified)
     \/ /\ UNCHANGED active
        /\ BroadcastEach(notified)
        /\ untold' = [p \in Platforms |-> IF p \in notified THEN {} ELSE untold[p]]

------------------------------------------------------------------------------
(* Breaks.                                                                 *)

\* POST /platforms/:id/break
StartPlatformBreak(p, d) ==
  /\ p \in platforms
  /\ clock' = [clock EXCEPT ![p] = Start(ConfigureBreak(d))]
  /\ breakReset' = ScheduleBreakReset({p}, d)
  /\ tick' = [tick EXCEPT ![p] = TickPeriod]
  /\ UNCHANGED <<platforms, active, attemptChange,
                 globalBreak, voteReset, decisions>>
  /\ BroadcastPlatformUpdate(p)

\* POST /platforms/break
StartGlobalBreak(d) ==
  /\ globalBreak' = d
  /\ clock' = Assign(clock, platforms, Start(ConfigureBreak(d)))
  /\ breakReset' = ScheduleBreakReset(platforms, d)
  /\ tick' = Assign(tick, platforms, TickPeriod)
  /\ UNCHANGED <<platforms, active, attemptChange, voteReset, decisions>>
  /\ EmitGlobalUpdate
  /\ PushAllPlatformStateToEsp
  /\ untold' = Assign(untold, platforms, {})

\* GET /platforms/break forgets the record of a break that is over.
GetGlobalBreak ==
  /\ globalBreak = 0
  /\ globalBreak' = Off
  /\ UNCHANGED <<platformVars, timerVars, viewVars>>

\* DELETE /platforms/:id/break
CancelPlatformBreak(p) ==
  /\ p \in platforms
  /\ InBreak(clock[p])
  /\ breakReset' = [breakReset EXCEPT ![p] = Off]
  /\ clock' = [clock EXCEPT ![p] = ResetToActive]
  /\ tick' = [tick EXCEPT ![p] = Off]
  /\ UNCHANGED <<platforms, active, attemptChange,
                 globalBreak, voteReset, decisions>>
  /\ BroadcastPlatformUpdate(p)

\* DELETE /platforms/break
CancelGlobalBreak ==
  LET inBreak == {p \in platforms : InBreak(clock[p])} IN
  /\ globalBreak' = Off
  /\ breakReset' = Assign(breakReset, inBreak, Off)
  /\ clock' = Assign(clock, inBreak, ResetToActive)
  /\ tick' = Assign(tick, inBreak, Off)
  /\ UNCHANGED <<platforms, active, attemptChange, voteReset, decisions>>
  /\ EmitGlobalUpdate
  /\ PushAllPlatformStateToEsp
  /\ untold' = Assign(untold, platforms, {})

------------------------------------------------------------------------------
(* Platforms come and go.  The timers of a deleted platform stay.          *)

\* POST /platforms: no remotes, and a global break is not joined.
CreatePlatform(p) ==
  /\ p \notin platforms
  /\ platforms' = platforms \cup {p}
  /\ UNCHANGED <<active, attemptChange, clock, globalBreak,
                 timerVars, viewVars>>

\* kb-left, kb-chief and kb-right, as createDefaultRemotes activates them.
KeyboardRemotes ==
  <<[role |-> "left", button |-> "none"], [role |-> "chief", button |-> "none"],
    [role |-> "right", button |-> "none"]>>

\* POST /platforms/ensure: three referees, and what is left of a global break.
JoinWholeBreak == CHOOSE d \in BreakDurations : \A e \in BreakDurations : e <= d
JoinBreak == globalBreak

EnsurePlatform(p) ==
  /\ p \notin platforms
  /\ platforms' = platforms \cup {p}
  /\ active' = [active EXCEPT ![p] = KeyboardRemotes]
  /\ IF globalBreak > 0
       THEN /\ clock' = [clock EXCEPT ![p] = Start(ConfigureBreak(JoinBreak))]
            /\ breakReset' = ScheduleBreakReset({p}, globalBreak)
            /\ tick' = [tick EXCEPT ![p] = TickPeriod]
            /\ UNCHANGED globalBreak
       ELSE /\ globalBreak' = Off
            /\ UNCHANGED <<clock, breakReset, tick>>
  /\ UNCHANGED <<attemptChange, voteReset, decisions, viewVars>>

\* DELETE /platforms/:id drops the object; one made later starts afresh.
DeletePlatform(p) ==
  /\ p \in platforms
  /\ platforms' = platforms \ {p}
  /\ active' = [active EXCEPT ![p] = <<>>]
  /\ attemptChange' = [attemptChange EXCEPT ![p] = FALSE]
  /\ clock' = [clock EXCEPT ![p] = ResetToActive]
  /\ browserView' = [browserView EXCEPT ![p] = UnknownToBrowser]
  /\ espView' = [espView EXCEPT ![p] = UnknownToEsp]
  /\ untold' = [untold EXCEPT ![p] = {}]
  /\ UNCHANGED <<globalBreak, timerVars>>

------------------------------------------------------------------------------
(* Timer callbacks, and time.                                              *)

ResetClearsOutsideBreaks(p) ==
  p \in platforms /\ HasCompleteVoteSet(p) /\ ~InBreak(clock[p])
ResetClears(p) == p \in platforms /\ HasCompleteVoteSet(p)

\* The callback of scheduleVoteReset.
VoteResetFires(p) ==
  /\ voteReset[p] = 0
  /\ voteReset' = [voteReset EXCEPT ![p] = Off]
  /\ UNCHANGED <<platforms, attemptChange, globalBreak,
                 breakReset, decisions>>
  /\ IF ResetClears(p)
       THEN /\ active' = [active EXCEPT ![p] = VotesCleared(p)]
            /\ clock' = [clock EXCEPT ![p] = AfterReset(@)]
            /\ tick' = [tick EXCEPT ![p] = IF InBreak(clock[p]) THEN @ ELSE Off]
            /\ BroadcastPlatformUpdate(p)
       ELSE UNCHANGED <<active, clock, tick, viewVars>>

\* The callback of scheduleBreakReset.
BreakResetFires(p) ==
  /\ breakReset[p] = 0
  /\ breakReset' = [breakReset EXCEPT ![p] = Off]
  /\ UNCHANGED <<platforms, active, attemptChange, globalBreak,
                 voteReset, decisions>>
  /\ IF p \in platforms /\ InBreak(clock[p])
       THEN /\ clock' = [clock EXCEPT ![p] = ResetToActive]
            /\ tick' = [tick EXCEPT ![p] = Off]
            /\ BroadcastPlatformUpdate(p)
       ELSE UNCHANGED <<clock, tick, viewVars>>

\* The callback of startClockTick: the last tick shows that the clock stopped.
NextTickAlways(p) == TickPeriod
NextTick(p) ==
  IF p \in platforms /\ State(clock[p]) = "RUNNING" THEN TickPeriod ELSE Off

ClockTickFires(p) ==
  /\ tick[p] = 0
  /\ tick' = [tick EXCEPT ![p] = NextTick(p)]
  /\ UNCHANGED <<platformVars, globalBreak, voteReset, breakReset, decisions>>
  /\ IF p \in platforms THEN BroadcastPlatformUpdate(p) ELSE UNCHANGED viewVars

\* The timeout of castVote that calls notifyLights and then notifyNextAttempt.
ReportDecision(p) ==
  /\ decisions[p] # <<>>
  /\ Head(decisions[p]).left = 0
  /\ decisions' = [decisions EXCEPT ![p] = Tail(@)]
  /\ UNCHANGED <<platformVars, globalBreak, voteReset, breakReset, tick, viewVars>>

Due(p) ==
  \/ 0 \in {voteReset[p], breakReset[p], tick[p]}
  \/ decisions[p] # <<>> /\ Head(decisions[p]).left = 0

Sooner(t) == IF t > 0 THEN t - 1 ELSE t

TimePasses ==
  /\ \A p \in Platforms : ~Due(p)
  /\ clock' = [p \in Platforms |-> Elapse(clock[p])]
  /\ globalBreak' = Sooner(globalBreak)
  /\ voteReset' = [p \in Platforms |-> Sooner(voteReset[p])]
  /\ breakReset' = [p \in Platforms |-> Sooner(breakReset[p])]
  /\ tick' = [p \in Platforms |-> Sooner(tick[p])]
  /\ decisions' = [p \in Platforms |->
       [i \in DOMAIN decisions[p] |->
          [decisions[p][i] EXCEPT !.left = Sooner(@)]]]
  /\ UNCHANGED <<platforms, active, attemptChange, viewVars>>

------------------------------------------------------------------------------
Init ==
  /\ platforms = {}
  /\ active = [p \in Platforms |-> <<>>]
  /\ attemptChange = [p \in Platforms |-> FALSE]
  /\ clock = [p \in Platforms |-> ResetToActive]
  /\ globalBreak = Off
  /\ voteReset = [p \in Platforms |-> Off]
  /\ breakReset = [p \in Platforms |-> Off]
  /\ tick = [p \in Platforms |-> Off]
  /\ decisions = [p \in Platforms |-> <<>>]
  /\ browserView = [p \in Platforms |-> UnknownToBrowser]
  /\ espView = [p \in Platforms |-> UnknownToEsp]
  /\ untold = [p \in Platforms |-> {}]

Request(p) ==
  \/ \E i \in 1..MaxActive : PressClockButton(p, i) \/ \E b \in Buttons : CastVote(p, i, b)
  \/ ResetAttempt(p)
  \/ ToggleAttemptChange(p)
  \/ \E d \in BreakDurations : StartPlatformBreak(p, d)
  \/ CancelPlatformBreak(p)
  \/ CreatePlatform(p)
  \/ EnsurePlatform(p)
  \/ DeletePlatform(p)

\* A transfer may name a platform that does not exist.
MoveRemotes ==
  \/ \E p \in Platforms :
       \/ \E x \in Arriving : ActivateRemote(p, x)
       \/ \E i \in 1..MaxActive : DeactivateRemote(p, i) \/ ReplaceRemote(p, i)
  \/ \E named \in Platforms \cup {"elsewhere"}, target \in Platforms :
       TransferRemote(named, target)

GlobalRequest ==
  \/ \E d \in BreakDurations : StartGlobalBreak(d)
  \/ GetGlobalBreak
  \/ CancelGlobalBreak

TimerFires(p) ==
  \/ VoteResetFires(p)
  \/ BreakResetFires(p)
  \/ ClockTickFires(p)
  \/ ReportDecision(p)

Next ==
  \/ \E p \in Platforms : Request(p) \/ TimerFires(p)
  \/ MoveRemotes
  \/ GlobalRequest
  \/ TimePasses

\* The event loop runs every callback that is due, and time does not stop.
\* Nobody is obliged to make a request.
Fairness ==
  /\ WF_vars(TimePasses)
  /\ \A p \in Platforms :
       /\ WF_vars(VoteResetFires(p))
       /\ WF_vars(BreakResetFires(p))
       /\ WF_vars(ClockTickFires(p))
       /\ WF_vars(ReportDecision(p))

Spec == Init /\ [][Next]_vars
FairSpec == Spec /\ Fairness

------------------------------------------------------------------------------
(* What shows of the clocks.                                               *)

Face(c) == [mode |-> c.mode, duration |-> c.duration, running |-> c.running]

Activity == INSTANCE PlatformActivity WITH
  face <- [p \in Platforms |-> Face(clock[p])],
  Lengths <- UNION {1..d : d \in BreakDurations}

\* What those who watch a platform react to.
Watched(view) ==
  [complete |-> \A r \in Roles : view.votes[r] # "none", mode |-> view.mode,
   state |-> view.state, attemptChange |-> view.attemptChange]

Live(p) ==
  [complete |-> HasCompleteVoteSet(p), mode |-> clock[p].mode,
   state |-> State(clock[p]), attemptChange |-> attemptChange[p]]

Feed(p) == INSTANCE PlatformFeed WITH
  known <- p \in platforms,
  live <- Live(p),
  told <- Watched(browserView[p])

------------------------------------------------------------------------------
(* Properties.                                                             *)

VoteSet == [Roles -> Buttons \cup {"none"}]
Report == [left : Nat, votes : VoteSet]
ClockState == {"IDLE", "RUNNING", "EXPIRED"}
EspSnapshots ==
  [mode : ClockMode \cup {"unknown"}, state : ClockState, votes : VoteSet]
BrowserSnapshots ==
  [mode : ClockMode \cup {"unknown"}, state : ClockState, votes : VoteSet,
   attemptChange : BOOLEAN]

PlatformsTypeOK ==
  /\ platforms \subseteq Platforms
  /\ active \in [Platforms -> Seq(Remote)]
  /\ \A p \in Platforms : Len(active[p]) <= MaxActive
  /\ attemptChange \in [Platforms -> BOOLEAN]
  /\ clock \in [Platforms -> Clock]
  /\ globalBreak \in Timer

TimersTypeOK ==
  /\ voteReset \in [Platforms -> Timer]
  /\ breakReset \in [Platforms -> Timer]
  /\ tick \in [Platforms -> Timer]
  /\ decisions \in [Platforms -> Seq(Report)]

ViewsTypeOK ==
  /\ browserView \in [Platforms -> BrowserSnapshots]
  /\ espView \in [Platforms -> EspSnapshots]
  /\ untold \in [Platforms -> SUBSET Roles]

\* The types of the variables; remaining times never fall below zero.
TypeOK == PlatformsTypeOK /\ TimersTypeOK /\ ViewsTypeOK

\* A break ends when its countdown does: the timer that ends it is always
\* pending and fires at the moment the clock shows zero, whatever breaks were
\* started, replaced, joined or cancelled before, and whatever timers deleted
\* platforms of the same name left behind (scheduleBreakReset).
BreakEndsOnTime ==
  \A p \in platforms :
    InBreak(clock[p]) => clock[p].running /\ breakReset[p] = clock[p].left

\* A running attempt clock always has its one-second tick, so that clients
\* stay synchronised and see it expire (startClockTick).
AttemptClockTicks ==
  \A p \in platforms :
    ~InBreak(clock[p]) /\ State(clock[p]) = "RUNNING" => tick[p] # Off

\* What the tick's own comment says, breaks included: "Emits platform:updated
\* every second while a clock is running".
RunningClockTicks ==
  \A p \in platforms : State(clock[p]) = "RUNNING" => tick[p] # Off

\* The automatic reset never overtakes a report: when it is pending, every
\* pending report of that platform is due at least RevealWindow earlier, so
\* LiftingCast is told a decision before the lights go out (castVote).
ReportBeforeReset ==
  \A p \in Platforms : voteReset[p] # Off =>
    \A i \in DOMAIN decisions[p] : decisions[p][i].left + RevealWindow <= voteReset[p]

\* What clients were last sent is the state of the platform: every handler
\* that changes it tells the browsers and the remotes alike, with two
\* exceptions.  The moment a clock runs out is seen late, by the tick or break
\* timer that is then due; and the vote of a remote that left by a failed
\* replace or by a transfer under another name (untold) stays on display until
\* the next update about the platform.
Apart(view, gone) ==
  [view EXCEPT !.votes = [r \in Roles |-> IF r \in gone THEN "none" ELSE @[r]]]

ViewIsCurrent(p, view, snapshot) ==
  LET seen == Apart(view, untold[p])
      now == Apart(snapshot, untold[p]) IN
  \/ view.mode = "unknown"
  \/ seen = now
  \/ /\ State(clock[p]) = "EXPIRED"
     /\ seen = [now EXCEPT !.state = "RUNNING"]
     /\ tick[p] = 0 \/ breakReset[p] = 0

ViewsCurrent ==
  \A p \in platforms :
    /\ ViewIsCurrent(p, browserView[p], Snapshot(p))
    /\ ViewIsCurrent(p, espView[p], EspSnapshot(p))

\* A vote set that votes completed is always cleared again: no step leaves a
\* complete set without the automatic reset pending (scheduleVoteReset,
\* resetAttempt, pressClockButton), except where a remote comes that brings the
\* button it last pressed.
RemoteComes(p) ==
  \/ \E x \in Arriving : ActivateRemote(p, x)
  \/ \E i \in 1..MaxActive : ReplaceRemote(p, i)

ResetFollowsStep ==
  \A p \in platforms \cap platforms' :
    voteReset'[p] = Off /\ HasCompleteVoteSet(p)'
    => (voteReset[p] = Off /\ HasCompleteVoteSet(p)) \/ RemoteComes(p)
ResetFollowsCompletion == [][ResetFollowsStep]_vars

\* A break is left only when its countdown is over, when the director cancels
\* it or with its platform: no reset of votes, no stale timer and no tick
\* cuts one short.
BreakNotCutStep ==
  \A p \in platforms \cap platforms' :
    InBreak(clock[p]) /\ ~InBreak(clock'[p])
    => clock[p].left = 0 \/ CancelPlatformBreak(p) \/ CancelGlobalBreak
BreakNotCut == [][BreakNotCutStep]_vars

\* Every report still to be sent is of the votes on display: the service
\* reports "after the decision delay - same moment the lights become visible".
PendingReportIsShown ==
  \A p \in Platforms : \A i \in DOMAIN decisions[p] :
    p \in platforms /\ RefereeVotes(p) = decisions[p][i].votes

\* The attempt cycle implements PlatformActivity: whatever timers do, a clock
\* is at rest, runs an attempt or runs a break, a break is neither stopped nor
\* restarted as an attempt, and a platform comes and goes with a clock at rest
\* or in what is left of a global break.
ActivitySpec == Activity!ActivitySpec

\* The attempt cycle implements PlatformFeed: whatever handler or timer runs,
\* on this platform or on all, watchers see a platform's votes, lock and clock
\* change together in one of eight ways and are told at once.  Only that a clock
\* ran out, that a platform was made and that a remote left by a failed replace
\* or a misnamed transfer they learn later.
FeedStep == \A p \in Platforms : [Feed(p)!FeedNext]_(Feed(p)!feedVars)
FeedSpec == (\A p \in Platforms : Feed(p)!FeedInit) /\ [][FeedStep]_vars

\* The tick does not outlive its clock: a ticking platform whose clock stands
\* still stops ticking (the interval cancels itself).
TickStops ==
  \A p \in Platforms :
    tick[p] # Off ~> (tick[p] = Off \/ (p \in platforms /\ State(clock[p]) = "RUNNING"))

\* No break lasts for ever unless breaks are started again and again.
BreakEnds ==
  \A p \in Platforms :
    \/ []<>~InBreak(clock[p])
    \/ []<><<\E d \in BreakDurations : StartPlatformBreak(p, d) \/ StartGlobalBreak(d)>>_vars

=============================================================================
