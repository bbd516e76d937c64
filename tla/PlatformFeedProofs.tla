-------------------------- MODULE PlatformFeedProofs --------------------------
(* The attempt cycle implements what PlatformFeed promises to watchers, for *)
(* all platforms, buttons and durations.                                    *)
EXTENDS PlatformActivityProofs

USE ActiveDurationAssumption, ServiceAssumption

\* What watchers react to, of a platform as it was last told.
Told(q) == Watched(browserView[q])

------------------------------------------------------------------------------
(* What an action may do to a platform and to what is sent about it.       *)

\* Nothing of the platform changes.
Unmoved(q) ==
  /\ q \in platforms <=> q \in platforms'
  /\ clock'[q] = clock[q]
  /\ active'[q] = active[q]
  /\ attemptChange'[q] = attemptChange[q]

\* An action brings the views up to date, leaves a platform as it is, takes a
\* remote away untold, or leaves the views unknown.
Sent(q) ==
  /\ q \in platforms'
  /\ browserView'[q] = Snapshot(q)'
  /\ espView'[q] = EspSnapshot(q)'

LeftAlone(q) ==
  /\ Unmoved(q)
  /\ browserView'[q] = browserView[q]
  /\ espView'[q] = espView[q]
  /\ untold'[q] = untold[q]
  /\ tick'[q] = tick[q]

LeftUntold(q) ==
  /\ q \in platforms
  /\ OthersUnmoved
  /\ \E i \in Leaving(q) :
       /\ active' = Without(q, i)
       /\ untold'[q] = untold[q] \cup {active[q][i].role}
  /\ browserView'[q] = browserView[q]
  /\ espView'[q] = espView[q]

StaysUnknown(q) == browserView'[q].mode = "unknown" /\ espView'[q].mode = "unknown"

LEMMA BroadcastSends ==
  ASSUME TypeOK, NEW q \in Platforms, q \in platforms', BroadcastPlatformUpdate(q)
  PROVE  Sent(q)
BY DEF TypeOK, ViewsTypeOK, BroadcastPlatformUpdate, Sent

LEMMA GlobalSends ==
  ASSUME NEW q \in Platforms, q \in platforms, q \in platforms',
         EmitGlobalUpdate, PushAllPlatformStateToEsp
  PROVE  Sent(q)
BY DEF EmitGlobalUpdate, PushAllPlatformStateToEsp, Sent

\* Updates about one platform are no news of another.
LEMMA ElsewhereSends ==
  ASSUME TypeOK, NEW q \in Platforms, NEW p \in Platforms, p # q, OthersUnmoved,
         active'[q] = active[q], BroadcastPlatformUpdate(p)
  PROVE  LeftAlone(q)
BY DEF OthersUnmoved, timerVars, LeftAlone, Unmoved, TypeOK, ViewsTypeOK,
   BroadcastPlatformUpdate

\* A remote leaves platform p, and the platforms of S are told.
LEMMA LeavesSends ==
  ASSUME TypeOK, NEW p \in platforms, NEW i \in Leaving(p), NEW S, S \subseteq platforms,
         OthersUnmoved, LeavesTelling(p, i, S), NEW q \in Platforms
  PROVE  Sent(q) \/ LeftAlone(q) \/ LeftUntold(q)
<1>. USE DEF OthersUnmoved, LeavesTelling, BroadcastEach
<1>1. /\ p \in Platforms /\ active' = Without(p, i)
      /\ \A r \in Platforms : r # p => active'[r] = active[r]
  BY DEF TypeOK, PlatformsTypeOK, Without
<1>2. CASE q \in S
  BY <1>2 DEF Sent
<1>3. CASE q \notin S /\ q = p
  BY <1>1, <1>3 DEF LeftUntold, TypeOK, PlatformsTypeOK
<1>4. CASE q \notin S /\ q # p
  BY <1>1, <1>4 DEF LeftAlone, Unmoved, TypeOK, PlatformsTypeOK, timerVars
<1>. QED
  BY <1>2, <1>3, <1>4

\* The director's moves, seen from one platform.
LEMMA MoveSteps ==
  ASSUME TypeOK, MoveRemotes, NEW q \in Platforms
  PROVE  Sent(q) \/ LeftAlone(q) \/ LeftUntold(q)
<1>. DEFINE Seen == Sent(q) \/ LeftAlone(q) \/ LeftUntold(q)
<1>0. OthersUnmoved
  BY MovedOthers
<1>1. ASSUME NEW p \in Platforms, NEW t, p \in platforms, active' = [active EXCEPT ![p] = t],
             BroadcastPlatformUpdate(p)
      PROVE  Seen
  <2>1. p # q => active'[q] = active[q]
    BY <1>1 DEF TypeOK, PlatformsTypeOK
  <2>2. CASE p = q
    BY <1>0, <1>1, <2>2, BroadcastSends DEF OthersUnmoved
  <2>. QED
    BY <1>0, <1>1, <2>1, <2>2, ElsewhereSends
<1>2. ASSUME NEW p \in Platforms, NEW x \in Arriving, ActivateRemote(p, x) PROVE Seen
  BY <1>1, <1>2 DEF ActivateRemote
<1>3. ASSUME NEW p \in Platforms, NEW i, DeactivateRemote(p, i) PROVE Seen
  BY <1>3, LeavesSends DEF DeactivateRemote
<1>4. ASSUME NEW p \in Platforms, NEW i, ReplaceRemote(p, i) PROVE Seen
  <2>1. ASSUME NEW x \in Arriving, BroadcastPlatformUpdate(p),
               active' = [active EXCEPT ![p] = Append(RemoveAt(@, i), x)]
        PROVE  Seen
    <3>. DEFINE t == Append(RemoveAt(active[p], i), x)
    <3>1. p \in platforms /\ active' = [active EXCEPT ![p] = t]
      BY <1>4, <2>1 DEF ReplaceRemote
    <3>. HIDE DEF t, Seen
    <3>. QED
      BY <1>1, <2>1, <3>1
  <2>2. LeavesTelling(p, i, {}) => Seen
    BY <1>0, <1>4, LeavesSends DEF ReplaceRemote
  <2>. HIDE DEF Seen
  <2>. QED
    BY <1>4, <2>1, <2>2 DEF ReplaceRemote
<1>5. ASSUME NEW named, NEW target, TransferRemote(named, target) PROVE Seen
  <2>. DEFINE notified == IF named \in platforms THEN {named, target} ELSE {}
  <2>1. notified \subseteq platforms
    BY <1>5 DEF TransferRemote
  <2>2. CASE \E p \in platforms : \E i \in Leaving(p) : LeavesTelling(p, i, notified)
    <3>. HIDE DEF notified
    <3>. QED
      BY <1>0, <2>1, <2>2, LeavesSends
  <2>3. CASE /\ UNCHANGED active
             /\ BroadcastEach(notified)
             /\ untold' = [p \in Platforms |-> IF p \in notified THEN {} ELSE untold[p]]
    <3>. HIDE DEF notified
    <3>. QED
      BY <1>0, <2>1, <2>3 DEF OthersUnmoved, timerVars, BroadcastEach, Sent, LeftAlone, Unmoved
  <2>. QED
    BY <1>5, <2>2, <2>3 DEF TransferRemote
<1>. HIDE DEF Seen
<1>6. Seen
  BY <1>2, <1>3, <1>4, <1>5 DEF MoveRemotes
<1>. QED
  BY <1>6 DEF Seen

------------------------------------------------------------------------------
(* A platform that does not exist.                                         *)

\* A platform that does not exist has nothing that could come back with it.
GoneOK ==
  \A q \in Platforms \ platforms :
    /\ clock[q] = ResetToActive
    /\ active[q] = <<>>
    /\ attemptChange[q] = FALSE
    /\ browserView[q] = UnknownToBrowser

LEMMA StepGone == TypeOK /\ GoneOK /\ [Next]_vars => GoneOK'
<1>. SUFFICES ASSUME TypeOK, GoneOK, [Next]_vars, NEW q \in Platforms, q \notin platforms'
              PROVE  /\ clock'[q] = ResetToActive
                     /\ active'[q] = <<>>
                     /\ attemptChange'[q] = FALSE
                     /\ browserView'[q] = UnknownToBrowser
  BY DEF GoneOK
<1>. USE DEF TypeOK, PlatformsTypeOK, ViewsTypeOK, BroadcastPlatformUpdate
<1>. DEFINE Same == /\ clock'[q] = clock[q] /\ active'[q] = active[q]
                    /\ attemptChange'[q] = attemptChange[q]
                    /\ browserView'[q] = browserView[q] /\ q \notin platforms
<1>1. ASSUME Same
      PROVE  /\ clock'[q] = ResetToActive
             /\ active'[q] = <<>>
             /\ attemptChange'[q] = FALSE
             /\ browserView'[q] = UnknownToBrowser
  BY <1>1 DEF GoneOK
<1>2. ASSUME NEW p \in Platforms, NEW i, NEW b \in Buttons, CastVote(p, i, b)
      PROVE  Same
  BY <1>2 DEF CastVote
<1>3. ASSUME NEW p \in Platforms, NEW i, PressClockButton(p, i) PROVE Same
  BY <1>3 DEF PressClockButton
<1>4. ASSUME NEW p \in Platforms, ResetAttempt(p) PROVE Same
  <2>1. CASE p \in platforms
    BY <1>4, <2>1 DEF ResetAttempt
  <2>2. CASE p \notin platforms
    BY <1>4, <2>2 DEF ResetAttempt, viewVars
  <2>. QED
    BY <2>1, <2>2
<1>5. ASSUME MoveRemotes PROVE Same
  <2>1. q \notin platforms
    BY <1>5, MovedOthers DEF OthersUnmoved
  <2>2. LeftAlone(q)
    BY <1>5, <2>1, MoveSteps DEF Sent, LeftUntold, OthersUnmoved
  <2>. QED
    BY <2>1, <2>2 DEF LeftAlone, Unmoved
<1>6. ASSUME NEW p \in Platforms, ToggleAttemptChange(p) PROVE Same
  BY <1>6 DEF ToggleAttemptChange
<1>7. ASSUME NEW p \in Platforms, NEW d \in BreakDurations, StartPlatformBreak(p, d)
      PROVE  Same
  BY <1>7 DEF StartPlatformBreak
<1>8. ASSUME NEW p \in Platforms, CancelPlatformBreak(p) PROVE Same
  BY <1>8 DEF CancelPlatformBreak
<1>9. ASSUME NEW p \in Platforms, CreatePlatform(p) \/ EnsurePlatform(p) PROVE Same
  BY <1>9 DEF CreatePlatform, EnsurePlatform, viewVars
<1>10. ASSUME NEW p \in Platforms, DeletePlatform(p), q # p PROVE Same
  BY <1>10 DEF DeletePlatform
<1>11. ASSUME NEW p \in Platforms, VoteResetFires(p) PROVE Same
  BY <1>11 DEF VoteResetFires, ResetClears, viewVars
<1>12. ASSUME NEW p \in Platforms, BreakResetFires(p) PROVE Same
  BY <1>12 DEF BreakResetFires, viewVars
<1>13. ASSUME NEW p \in Platforms, ClockTickFires(p) \/ ReportDecision(p) PROVE Same
  BY <1>13 DEF ClockTickFires, ReportDecision, platformVars, viewVars
<1>14. ASSUME GlobalRequest PROVE Same
  BY <1>14 DEF GlobalRequest, StartGlobalBreak, GetGlobalBreak, CancelGlobalBreak, Assign,
               EmitGlobalUpdate, platformVars, viewVars
<1>15. ASSUME TimePasses PROVE Same
  <2>1. q \notin platforms /\ clock[q] = ResetToActive
    BY <1>15 DEF TimePasses, GoneOK
  <2>2. clock'[q] = clock[q]
    BY <1>15, <2>1, NewClockFacts DEF TimePasses, Elapse
  <2>. QED
    BY <1>15, <2>1, <2>2 DEF TimePasses, viewVars
<1>16. ASSUME UNCHANGED vars PROVE Same
  BY <1>16 DEF vars, platformVars, viewVars
<1>17. ASSUME DeletePlatform(q)
       PROVE  /\ clock'[q] = ResetToActive
              /\ active'[q] = <<>>
              /\ attemptChange'[q] = FALSE
              /\ browserView'[q] = UnknownToBrowser
  BY <1>17 DEF DeletePlatform
<1>. HIDE DEF Same
<1>. QED
  BY <1>1, <1>2, <1>3, <1>4, <1>5, <1>6, <1>7, <1>8, <1>9, <1>10, <1>11, <1>12, <1>13,
     <1>14, <1>15, <1>16, <1>17 DEF Next, Request, TimerFires

------------------------------------------------------------------------------
(* Steps of the feed, from steps of the attempt cycle.                     *)

LEMMA LiveFacts ==
  ASSUME NEW q \in Platforms
  PROVE  Live(q) = [complete |-> HasCompleteVoteSet(q), mode |-> clock[q].mode,
                    state |-> State(clock[q]), attemptChange |-> attemptChange[q]]
BY DEF Live

LEMMA LiveFactsNext ==
  ASSUME TypeOK', NEW q \in Platforms
  PROVE  Live(q)' = [complete |-> HasCompleteVoteSet(q)', mode |-> clock'[q].mode,
                     state |-> State(clock'[q]), attemptChange |-> attemptChange'[q]]
BY DEF Live

\* What a platform's update says is what is live.
LEMMA SnapshotIsLive ==
  ASSUME NEW q \in Platforms
  PROVE  Watched(Snapshot(q)) = Live(q) /\ Watched(Snapshot(q)') = Live(q)'
BY DEF Live, Watched, Snapshot, HasCompleteVoteSet

\* What nobody was told shows as Untold.
AllVoted(view) == \A r \in Roles : view.votes[r] # "none"

LEMMA WatchedParts ==
  ASSUME NEW view
  PROVE  Watched(view) = [complete |-> AllVoted(view), mode |-> view.mode,
                          state |-> view.state, attemptChange |-> view.attemptChange]
BY DEF Watched, AllVoted

LEMMA UnknownWatched ==
  Watched(UnknownToBrowser) =
    [complete |-> FALSE, mode |-> "unknown", state |-> "IDLE", attemptChange |-> FALSE]
<1>1. AllVoted(UnknownToBrowser) = FALSE
  BY DEF AllVoted, UnknownToBrowser, NoVotes, Roles
<1>2. /\ UnknownToBrowser.mode = "unknown" /\ UnknownToBrowser.state = "IDLE"
      /\ UnknownToBrowser.attemptChange = FALSE
  BY DEF UnknownToBrowser
<1>. QED
  BY <1>1, <1>2, WatchedParts

LEMMA CompleteIsBoolean ==
  ASSUME NEW q \in Platforms
  PROVE  HasCompleteVoteSet(q) \in BOOLEAN /\ HasCompleteVoteSet(q)' \in BOOLEAN
BY DEF HasCompleteVoteSet

LEMMA SameComplete ==
  ASSUME NEW q \in Platforms, active'[q] = active[q]
  PROVE  HasCompleteVoteSet(q)' = HasCompleteVoteSet(q)
BY SameVotes, CompleteIsBoolean

LEMMA NobodyVoted ==
  ASSUME NEW q \in Platforms
  PROVE  /\ active[q] = <<>> => HasCompleteVoteSet(q) = FALSE
         /\ active'[q] = <<>> => HasCompleteVoteSet(q)' = FALSE
<1>1. <<>> \in Seq(Remote) /\ DOMAIN <<>> = {}
  OBVIOUS
<1>2. ~Complete(<<>>)
  BY <1>1, ClearedVotes
<1>. QED
  BY <1>2, CompleteVotes, CompleteVotesNext, CompleteIsBoolean

\* An update of the feed, put together from its parts.
FeedBecomes(q) == q \in platforms /\ q \in platforms' /\ Told(q)' = Live(q)'

LEMMA SentBecomes ==
  ASSUME NEW q \in Platforms, q \in platforms, Sent(q)
  PROVE  FeedBecomes(q)
BY SnapshotIsLive DEF Sent, FeedBecomes, Told

LEMMA BroadcastFacts ==
  ASSUME TypeOK, NEW q \in platforms, BroadcastPlatformUpdate(q), UNCHANGED platforms
  PROVE  FeedBecomes(q)
BY SentBecomes, BroadcastSends DEF TypeOK, PlatformsTypeOK

LEMMA FeedMove ==
  ASSUME NEW q \in Platforms, FeedBecomes(q)
  PROVE  Feed(q)!Becomes(Live(q)')
BY DEF FeedBecomes, Feed!Becomes, Live, Told

\* The same by fields, for updates of some of them.
Watch == [complete : BOOLEAN, mode : ClockMode, state : ClockState, attemptChange : BOOLEAN]

LEMMA LiveFields ==
  ASSUME TypeOK, NEW q \in Platforms
  PROVE  /\ Live(q) \in Watch
         /\ Live(q).complete = HasCompleteVoteSet(q)
         /\ Live(q).mode = clock[q].mode
         /\ Live(q).state = State(clock[q])
         /\ Live(q).attemptChange = attemptChange[q]
<1>1. clock[q] \in Clock /\ attemptChange[q] \in BOOLEAN
  BY DEF TypeOK, PlatformsTypeOK
<1>2. State(clock[q]) \in ClockState /\ clock[q].mode \in ClockMode
  BY <1>1, StateFacts DEF Clock
<1>. QED
  BY <1>1, <1>2, LiveFacts, CompleteIsBoolean DEF Watch

LEMMA LiveFieldsNext ==
  ASSUME TypeOK', NEW q \in Platforms
  PROVE  /\ Live(q)' \in Watch
         /\ Live(q)'.complete = HasCompleteVoteSet(q)'
         /\ Live(q)'.mode = clock'[q].mode
         /\ Live(q)'.state = State(clock'[q])
         /\ Live(q)'.attemptChange = attemptChange'[q]
<1>1. clock'[q] \in Clock /\ attemptChange'[q] \in BOOLEAN
  BY DEF TypeOK, PlatformsTypeOK
<1>2. State(clock'[q]) \in ClockState /\ clock'[q].mode \in ClockMode
  BY <1>1, StateFacts DEF Clock
<1>. QED
  BY <1>1, <1>2, LiveFactsNext, CompleteIsBoolean DEF Watch

LEMMA UnmovedFacts ==
  ASSUME NEW q \in Platforms, Unmoved(q)
  PROVE  Live(q)' = Live(q)
BY SameComplete DEF Unmoved, Live

LEMMA Stutter ==
  ASSUME NEW q \in Platforms, Unmoved(q), browserView'[q] = browserView[q]
  PROVE  UNCHANGED Feed(q)!feedVars
<1>1. Live(q)' = Live(q)
  BY UnmovedFacts
<1>2. (q \in platforms)' = (q \in platforms)
  BY DEF Unmoved
<1>3. Told(q)' = Told(q)
  BY DEF Told
<1>. QED
  BY <1>1, <1>2, <1>3 DEF Feed!feedVars, Live, Told

LEMMA TickFeed ==
  ASSUME NEW q \in Platforms, Unmoved(q), FeedBecomes(q)
  PROVE  Feed(q)!FeedNext
<1>1. Feed(q)!Becomes(Live(q))
  BY FeedMove, UnmovedFacts
<1>. QED
  BY <1>1 DEF Feed!FeedNext, Feed!Update, Feed!Tick, Live

\* An action on another platform is not seen.
LEMMA OtherPlatforms ==
  ASSUME TypeOK, NEW q \in Platforms, NEW p \in Platforms, p # q,
         Request(p) \/ TimerFires(p)
  PROVE  Unmoved(q) /\ browserView'[q] = browserView[q]
<1>. USE DEF TypeOK, PlatformsTypeOK, ViewsTypeOK, BroadcastPlatformUpdate, Unmoved,
             viewVars, platformVars
<1>1. ASSUME NEW i, NEW b \in Buttons, CastVote(p, i, b)
      PROVE  Unmoved(q) /\ browserView'[q] = browserView[q]
  BY <1>1 DEF CastVote
<1>2. ASSUME NEW i, PressClockButton(p, i)
      PROVE  Unmoved(q) /\ browserView'[q] = browserView[q]
  BY <1>2 DEF PressClockButton
<1>3. ASSUME ResetAttempt(p) \/ ToggleAttemptChange(p)
      PROVE  Unmoved(q) /\ browserView'[q] = browserView[q]
  BY <1>3 DEF ResetAttempt, ToggleAttemptChange
<1>4. ASSUME NEW d \in BreakDurations, StartPlatformBreak(p, d)
      PROVE  Unmoved(q) /\ browserView'[q] = browserView[q]
  BY <1>4 DEF StartPlatformBreak
<1>5. ASSUME CancelPlatformBreak(p) \/ CreatePlatform(p) \/ EnsurePlatform(p)
      PROVE  Unmoved(q) /\ browserView'[q] = browserView[q]
  BY <1>5 DEF CancelPlatformBreak, CreatePlatform, EnsurePlatform
<1>6. ASSUME DeletePlatform(p)
      PROVE  Unmoved(q) /\ browserView'[q] = browserView[q]
  BY <1>6 DEF DeletePlatform
<1>7. ASSUME VoteResetFires(p) \/ BreakResetFires(p)
      PROVE  Unmoved(q) /\ browserView'[q] = browserView[q]
  BY <1>7 DEF VoteResetFires, BreakResetFires
<1>8. ASSUME ClockTickFires(p) \/ ReportDecision(p)
      PROVE  Unmoved(q) /\ browserView'[q] = browserView[q]
  BY <1>8 DEF ClockTickFires, ReportDecision
<1>. QED
  BY <1>1, <1>2, <1>3, <1>4, <1>5, <1>6, <1>7, <1>8 DEF Request, TimerFires

\* The steps of the feed, in terms of the service's state.
LEMMA FeedLocked ==
  ASSUME TypeOK, NEW q \in Platforms
  PROVE  Feed(q)!Locked <=> (InBreak(clock[q]) \/ attemptChange[q])
BY LiveFacts DEF Feed!Locked, Feed!InBreakNow, Live, InBreak

LEMMA ResetFeed ==
  ASSUME TypeOK, TypeOK', NEW q \in Platforms, FeedBecomes(q),
         active'[q] = VotesCleared(q),
         attemptChange'[q] = attemptChange[q], clock'[q] = AfterReset(clock[q])
  PROVE  Feed(q)!Reset
<1>1. HasCompleteVoteSet(q)' = FALSE
  BY ResetVotes, CompleteIsBoolean
<1>2. clock[q] \in Clock
  BY DEF TypeOK, PlatformsTypeOK
<1>3. /\ clock'[q].mode = clock[q].mode
      /\ State(clock'[q]) = IF InBreak(clock[q]) THEN State(clock[q]) ELSE "IDLE"
  BY <1>2, AfterResetFacts, NewClockFacts DEF InBreak, Clock, ClockMode, ResetToActive
<1>4. Live(q)' = [Live(q) EXCEPT !.complete = FALSE,
                    !.state = IF InBreak(clock[q]) THEN Live(q).state ELSE "IDLE"]
  <2>0. /\ Live(q) \in Watch /\ Live(q)' \in Watch /\ Live(q)'.complete = FALSE
        /\ Live(q)'.mode = Live(q).mode /\ Live(q)'.attemptChange = Live(q).attemptChange
    BY <1>1, <1>3, LiveFields, LiveFieldsNext
  <2>1. Live(q)' = [Live(q) EXCEPT !.complete = FALSE, !.state = Live(q)'.state]
    BY <2>0 DEF Watch
  <2>2. Live(q)'.state = IF InBreak(clock[q]) THEN Live(q).state ELSE "IDLE"
    BY <1>3, LiveFields, LiveFieldsNext
  <2>. QED
    BY <2>1, <2>2
<1>5. Feed(q)!InBreakNow <=> InBreak(clock[q])
  BY LiveFacts DEF Feed!InBreakNow, Live, InBreak
<1>. QED
  BY <1>4, <1>5, FeedMove DEF Feed!Reset, Live

LEMMA StartBreakFeed ==
  ASSUME TypeOK, TypeOK', NEW q \in Platforms, FeedBecomes(q), NEW d \in Nat \ {0},
         active'[q] = active[q],
         attemptChange'[q] = attemptChange[q], clock'[q] = Start(ConfigureBreak(d))
  PROVE  Feed(q)!StartBreak
<1>1. clock'[q].mode = "BREAK" /\ State(clock'[q]) = "RUNNING"
  BY BreakClockFacts DEF InBreak, State
<1>2. Live(q)' = [Live(q) EXCEPT !.mode = "BREAK", !.state = "RUNNING"]
  <2>0. /\ Live(q) \in Watch /\ Live(q)' \in Watch
        /\ Live(q)'.complete = Live(q).complete
        /\ Live(q)'.attemptChange = Live(q).attemptChange
    BY SameComplete, LiveFields, LiveFieldsNext
  <2>1. Live(q)' = [Live(q) EXCEPT !.mode = Live(q)'.mode, !.state = Live(q)'.state]
    BY <2>0 DEF Watch
  <2>2. Live(q)'.mode = "BREAK" /\ Live(q)'.state = "RUNNING"
    BY <1>1, LiveFieldsNext
  <2>. QED
    BY <2>1, <2>2
<1>. QED
  BY <1>2, FeedMove DEF Feed!StartBreak, Live

LEMMA EndBreakFeed ==
  ASSUME TypeOK, TypeOK', NEW q \in Platforms, FeedBecomes(q), InBreak(clock[q]),
         active'[q] = active[q],
         attemptChange'[q] = attemptChange[q], clock'[q] = ResetToActive
  PROVE  Feed(q)!EndBreak
<1>1. clock'[q].mode = "ACTIVE" /\ State(clock'[q]) = "IDLE"
  BY NewClockFacts DEF ResetToActive
<1>2. Live(q)' = [Live(q) EXCEPT !.mode = "ACTIVE", !.state = "IDLE"]
  <2>0. /\ Live(q) \in Watch /\ Live(q)' \in Watch
        /\ Live(q)'.complete = Live(q).complete
        /\ Live(q)'.attemptChange = Live(q).attemptChange
    BY SameComplete, LiveFields, LiveFieldsNext
  <2>1. Live(q)' = [Live(q) EXCEPT !.mode = Live(q)'.mode, !.state = Live(q)'.state]
    BY <2>0 DEF Watch
  <2>2. Live(q)'.mode = "ACTIVE" /\ Live(q)'.state = "IDLE"
    BY <1>1, LiveFieldsNext
  <2>. QED
    BY <2>1, <2>2
<1>3. Feed(q)!InBreakNow
  BY LiveFacts DEF Feed!InBreakNow, Live, InBreak
<1>. QED
  BY <1>2, <1>3, FeedMove DEF Feed!EndBreak, Live

LEMMA ReseatFeed ==
  ASSUME TypeOK, TypeOK', NEW q \in Platforms, FeedBecomes(q),
         clock'[q] = clock[q], attemptChange'[q] = attemptChange[q]
  PROVE  Feed(q)!Reseat
<1>1. HasCompleteVoteSet(q)' \in BOOLEAN
  BY DEF HasCompleteVoteSet
<1>2. Live(q)' = [Live(q) EXCEPT !.complete = HasCompleteVoteSet(q)']
  BY LiveFacts, LiveFactsNext
<1>. QED
  BY <1>1, <1>2, FeedMove DEF Feed!Reseat, Live

\* A remote that leaves untold leaves the votes incomplete.
LEMMA LeftUntoldFeed ==
  ASSUME TypeOK, TypeOK', NEW q \in Platforms, LeftUntold(q)
  PROVE  Feed(q)!LeavesUntold
<1>1. HasCompleteVoteSet(q)' = FALSE
  BY LeftVotes, CompleteIsBoolean DEF LeftUntold
<1>2. Live(q)' = [Live(q) EXCEPT !.complete = FALSE]
  BY <1>1, LiveFacts, LiveFactsNext DEF LeftUntold, OthersUnmoved
<1>3. q \in platforms /\ q \in platforms' /\ Told(q)' = Told(q)
  BY DEF LeftUntold, OthersUnmoved, Told
<1>. QED
  BY <1>2, <1>3 DEF Feed!LeavesUntold, Told

\* A vote adds to the votes and leaves all else as it is.
LEMMA VoteFeed ==
  ASSUME TypeOK, TypeOK', NEW q \in Platforms, NEW i, NEW b \in Buttons, CastVote(q, i, b)
  PROVE  Feed(q)!Vote
<1>1. FeedBecomes(q)
  BY BroadcastFacts DEF CastVote
<1>. DEFINE s == active[q]
            t == Pressed(s, i, b)
<1>2. /\ s \in Seq(Remote) /\ i \in DOMAIN s /\ b \in Buttons \cup {"none"} /\ b # "none"
      /\ active'[q] = t
  BY PressingFacts DEF CastVote, TypeOK, PlatformsTypeOK
<1>8. /\ t \in Seq(Remote) /\ DOMAIN t = DOMAIN s
      /\ \A j \in DOMAIN s : t[j].role = s[j].role /\ t[j].button \in {s[j].button, b}
  BY <1>2, PressedFacts
<1>. HIDE DEF s, t
<1>9. ASSUME NEW w \in Roles, VotesOf(s)[w] # "none"
      PROVE  VotesOf(t)[w] # "none"
  <2>1. PICK j \in Shown(s, w) : s[j].button # "none"
    BY <1>2, <1>9, VoteFacts
  <2>2. j \in Shown(t, w)
    BY <1>8, <2>1 DEF Shown
  <2>3. t[j].button # "none"
    BY <1>2, <1>8, <2>1 DEF Shown
  <2>. QED
    BY <1>8, <2>2, <2>3, VoteFacts
<1>3. HasCompleteVoteSet(q)' \in {HasCompleteVoteSet(q), TRUE}
  <2>1. HasCompleteVoteSet(q) => HasCompleteVoteSet(q)'
    BY <1>2, <1>9, CompleteVotes, CompleteVotesNext DEF Complete, s
  <2>. QED
    BY <2>1, CompleteIsBoolean
<1>4. Live(q)' = [Live(q) EXCEPT !.complete = HasCompleteVoteSet(q)']
  BY LiveFacts, LiveFactsNext DEF CastVote
<1>5. Live(q).complete = HasCompleteVoteSet(q) /\ Live(q).state = State(clock[q])
  BY LiveFacts
<1>7. HasCompleteVoteSet(q)' \in {Live(q).complete, TRUE} /\ Live(q).state # "IDLE"
  BY <1>3, <1>5 DEF CastVote
<1>6. ~Feed(q)!Locked
  BY FeedLocked DEF CastVote
<1>. QED
  BY <1>1, <1>4, <1>6, <1>7, FeedMove DEF Feed!Vote, Live

LEMMA PressFeed ==
  ASSUME TypeOK, TypeOK', ActivityInv, NEW q \in Platforms, NEW i, PressClockButton(q, i)
  PROVE  Feed(q)!PressClock
<1>1. FeedBecomes(q) /\ clock[q] \in Clock /\ ~InBreak(clock[q])
  BY BroadcastFacts DEF PressClockButton, TypeOK, PlatformsTypeOK
<1>2. HasCompleteVoteSet(q)' = FALSE
  BY PressedVotes, CompleteIsBoolean
<1>3. clock'[q] = HandleChiefClockPress(clock[q])
  BY DEF PressClockButton, TypeOK, PlatformsTypeOK
<1>4. clock[q].duration = ActiveDuration /\ clock[q].mode = "ACTIVE"
  BY <1>1, AttemptLength DEF ActivityInv, Clock, ClockMode, InBreak
<1>5. /\ clock'[q].mode = "ACTIVE"
      /\ State(clock'[q]) = IF State(clock[q]) = "RUNNING" THEN "IDLE" ELSE "RUNNING"
  <2>1. CASE State(clock[q]) = "RUNNING"
    BY <1>3, <2>1, NewClockFacts DEF HandleChiefClockPress, ResetToActive
  <2>2. CASE State(clock[q]) # "RUNNING"
    <3>1. clock'[q] = Start(clock[q])
      BY <1>3, <2>2 DEF HandleChiefClockPress
    <3>2. clock'[q].mode = "ACTIVE" /\ clock'[q].running /\ clock'[q].left = ActiveDuration
      BY <1>1, <1>4, <3>1 DEF Start, Clock
    <3>. QED
      BY <2>2, <3>2 DEF State
  <2>. QED
    BY <2>1, <2>2
<1>6. Live(q)' = [Live(q) EXCEPT !.complete = FALSE,
                    !.state = IF Live(q).state = "RUNNING" THEN "IDLE" ELSE "RUNNING"]
  <2>0. /\ Live(q) \in Watch /\ Live(q)' \in Watch /\ Live(q)'.complete = FALSE
        /\ Live(q)'.mode = Live(q).mode /\ Live(q)'.attemptChange = Live(q).attemptChange
    BY <1>2, <1>4, <1>5, LiveFields, LiveFieldsNext DEF PressClockButton
  <2>1. Live(q)' = [Live(q) EXCEPT !.complete = FALSE, !.state = Live(q)'.state]
    BY <2>0 DEF Watch
  <2>2. Live(q)'.state = IF Live(q).state = "RUNNING" THEN "IDLE" ELSE "RUNNING"
    BY <1>5, LiveFields, LiveFieldsNext
  <2>. QED
    BY <2>1, <2>2
<1>7. ~Feed(q)!Locked
  BY FeedLocked DEF PressClockButton
<1>. QED
  BY <1>1, <1>6, <1>7, FeedMove DEF Feed!PressClock, Live

\* POST /platforms or /platforms/ensure, of a platform that does not exist.
LEMMA AppearsFeed ==
  ASSUME TypeOK, TypeOK', GoneOK, NEW q \in Platforms,
         CreatePlatform(q) \/ EnsurePlatform(q)
  PROVE  Feed(q)!Appears
<1>1. /\ q \notin platforms /\ q \in platforms'
      /\ clock[q] = ResetToActive /\ attemptChange[q] = FALSE
      /\ attemptChange' = attemptChange /\ browserView' = browserView
      /\ active'[q] = <<>> \/ active'[q] = KeyboardRemotes
      /\ \/ clock'[q] = clock[q]
         \/ globalBreak > 0 /\ clock'[q] = Start(ConfigureBreak(globalBreak))
  BY DEF CreatePlatform, EnsurePlatform, JoinBreak, GoneOK, viewVars, TypeOK, PlatformsTypeOK
<1>2. HasCompleteVoteSet(q)' = FALSE
  <2>1. /\ active'[q] \in Seq(Remote)
        /\ \A i \in DOMAIN active'[q] : active'[q][i].button = "none"
    <3>1. \A i \in DOMAIN KeyboardRemotes : KeyboardRemotes[i].button = "none"
      BY DEF KeyboardRemotes
    <3>. QED
      BY <1>1, <3>1 DEF TypeOK, PlatformsTypeOK
  <2>. QED
    BY <2>1, ClearedVotes, CompleteVotesNext, CompleteIsBoolean
<1>3. \/ clock'[q].mode = "ACTIVE" /\ State(clock'[q]) = "IDLE"
      \/ clock'[q].mode = "BREAK" /\ State(clock'[q]) = "RUNNING"
  <2>1. CASE clock'[q] = clock[q]
    BY <1>1, <2>1, NewClockFacts DEF ResetToActive
  <2>2. CASE globalBreak > 0 /\ clock'[q] = Start(ConfigureBreak(globalBreak))
    <3>1. globalBreak \in Nat \ {0}
      BY <2>2 DEF TypeOK, PlatformsTypeOK, Timer, Off
    <3>. QED
      BY <2>2, <3>1, BreakClockFacts DEF InBreak, State
  <2>. QED
    BY <1>1, <2>1, <2>2
<1>4. Live(q)'.complete = FALSE /\ Live(q)'.attemptChange = FALSE /\ Live(q)' \in Watch
  BY <1>1, <1>2, LiveFieldsNext
<1>. DEFINE rest == [complete |-> FALSE, mode |-> "ACTIVE", state |-> "IDLE",
                     attemptChange |-> FALSE]
            broke == [complete |-> FALSE, mode |-> "BREAK", state |-> "RUNNING",
                      attemptChange |-> FALSE]
<1>5. Live(q)' \in {rest, [rest EXCEPT !.mode = "BREAK", !.state = "RUNNING"]}
  <2>1. /\ rest \in Watch /\ rest.complete = FALSE /\ rest.mode = "ACTIVE"
        /\ rest.state = "IDLE" /\ rest.attemptChange = FALSE
    BY DEF Watch, ClockMode, ClockState
  <2>2. /\ broke \in Watch /\ broke.complete = FALSE /\ broke.mode = "BREAK"
        /\ broke.state = "RUNNING" /\ broke.attemptChange = FALSE
    BY DEF Watch, ClockMode, ClockState
  <2>3. broke = [rest EXCEPT !.mode = "BREAK", !.state = "RUNNING"]
    <3>. HIDE DEF rest, broke
    <3>. QED
      BY <2>1, <2>2 DEF Watch
  <2>4. CASE clock'[q].mode = "ACTIVE" /\ State(clock'[q]) = "IDLE"
    <3>1. Live(q)'.mode = "ACTIVE" /\ Live(q)'.state = "IDLE"
      BY <2>4, LiveFieldsNext
    <3>. HIDE DEF rest
    <3>2. Live(q)' = rest
      BY <1>4, <2>1, <3>1 DEF Watch
    <3>. QED
      BY <3>2
  <2>5. CASE clock'[q].mode = "BREAK" /\ State(clock'[q]) = "RUNNING"
    <3>1. Live(q)'.mode = "BREAK" /\ Live(q)'.state = "RUNNING"
      BY <2>5, LiveFieldsNext
    <3>. HIDE DEF rest, broke
    <3>2. Live(q)' = broke
      BY <1>4, <2>2, <3>1 DEF Watch
    <3>. QED
      BY <2>3, <3>2
  <2>. QED
    BY <1>3, <2>4, <2>5
<1>6. Told(q)' = Told(q)
  BY <1>1 DEF Told
<1>7. Feed(q)!AtRest = rest
  BY DEF Feed!AtRest
<1>. HIDE DEF rest
<1>8. Live(q)' \in {Feed(q)!AtRest, [Feed(q)!AtRest EXCEPT !.mode = "BREAK", !.state = "RUNNING"]}
  BY <1>5, <1>7
<1>. QED
  BY <1>1, <1>6, <1>8 DEF Feed!Appears, Live, Told

LEMMA UntoldFacts ==
  [[complete |-> FALSE, mode |-> "ACTIVE", state |-> "IDLE", attemptChange |-> FALSE]
     EXCEPT !.mode = "unknown"] =
  [complete |-> FALSE, mode |-> "unknown", state |-> "IDLE", attemptChange |-> FALSE]
<1>. DEFINE r == [complete |-> FALSE, mode |-> "ACTIVE", state |-> "IDLE",
                  attemptChange |-> FALSE]
            x == [complete |-> FALSE, mode |-> "unknown", state |-> "IDLE",
                  attemptChange |-> FALSE]
            S == [complete : BOOLEAN, mode : {"ACTIVE", "unknown"}, state : ClockState,
                  attemptChange : BOOLEAN]
<1>1. /\ r \in S /\ x \in S /\ x.mode = "unknown" /\ x.complete = r.complete
      /\ x.state = r.state /\ x.attemptChange = r.attemptChange
  BY DEF ClockState
<1>. HIDE DEF r, x
<1>2. [r EXCEPT !.mode = "unknown"] = x
  BY <1>1
<1>. QED
  BY <1>2 DEF r, x

LEMMA VanishesFeed ==
  ASSUME TypeOK, TypeOK', NEW q \in Platforms, DeletePlatform(q)
  PROVE  Feed(q)!Vanishes
<1>1. /\ q \in platforms /\ q \notin platforms'
      /\ clock'[q] = ResetToActive /\ active'[q] = <<>> /\ attemptChange'[q] = FALSE
      /\ browserView'[q] = UnknownToBrowser
  BY DEF DeletePlatform, TypeOK, PlatformsTypeOK, ViewsTypeOK
<1>2. HasCompleteVoteSet(q)' = FALSE
  BY <1>1, NobodyVoted
<1>3. Live(q)' = [complete |-> FALSE, mode |-> "ACTIVE", state |-> "IDLE",
                  attemptChange |-> FALSE]
  BY <1>1, <1>2, NewClockFacts, LiveFactsNext DEF ResetToActive
<1>4. Told(q)' = [complete |-> FALSE, mode |-> "unknown", state |-> "IDLE",
                  attemptChange |-> FALSE]
  BY <1>1, UnknownWatched DEF Told
<1>5. Feed(q)!AtRest = [complete |-> FALSE, mode |-> "ACTIVE", state |-> "IDLE",
                        attemptChange |-> FALSE]
  BY DEF Feed!AtRest
<1>6. Feed(q)!Untold = [complete |-> FALSE, mode |-> "unknown", state |-> "IDLE",
                        attemptChange |-> FALSE]
  BY UntoldFacts DEF Feed!Untold, Feed!AtRest
<1>. QED
  BY <1>1, <1>3, <1>4, <1>5, <1>6 DEF Feed!Vanishes, Live, Told

\* Time only lets a running clock run out.
LEMMA TimeFeed ==
  ASSUME TypeOK, TypeOK', NEW q \in Platforms, TimePasses
  PROVE  Feed(q)!RunsOut \/ UNCHANGED Feed(q)!feedVars
<1>1. /\ UNCHANGED <<platforms, active, attemptChange, browserView>>
      /\ clock'[q] = Elapse(clock[q]) /\ clock[q] \in Clock
  BY DEF TimePasses, viewVars, TypeOK, PlatformsTypeOK
<1>2. /\ clock'[q].mode = clock[q].mode
      /\ \/ State(clock'[q]) = State(clock[q])
         \/ State(clock[q]) = "RUNNING" /\ State(clock'[q]) = "EXPIRED"
  BY <1>1 DEF Elapse, State, Clock
<1>3. /\ Live(q) \in Watch /\ Live(q)' \in Watch
      /\ Live(q)'.complete = Live(q).complete
      /\ Live(q)'.attemptChange = Live(q).attemptChange
  BY <1>1, SameComplete, LiveFields, LiveFieldsNext
<1>4. Live(q)'.mode = Live(q).mode
  BY <1>2, LiveFields, LiveFieldsNext
<1>5. Live(q)' = [Live(q) EXCEPT !.state = Live(q)'.state]
  BY <1>3, <1>4 DEF Watch
<1>6. Told(q)' = Told(q) /\ platforms' = platforms
  BY <1>1 DEF Told
<1>7. CASE State(clock'[q]) = State(clock[q])
  <2>1. Live(q)' = Live(q)
    BY <1>5, <1>7, LiveFields, LiveFieldsNext DEF Watch
  <2>. QED
    BY <1>6, <2>1 DEF Feed!feedVars, Live, Told
<1>8. CASE State(clock[q]) = "RUNNING" /\ State(clock'[q]) = "EXPIRED"
  <2>1. Live(q).state = "RUNNING" /\ Live(q)' = [Live(q) EXCEPT !.state = "EXPIRED"]
    BY <1>5, <1>8, LiveFields, LiveFieldsNext
  <2>. QED
    BY <1>6, <2>1 DEF Feed!RunsOut, Live, Told
<1>. QED
  BY <1>2, <1>7, <1>8

\* Every step, seen from one platform.
LEMMA StepFeed ==
  ASSUME TypeOK, TypeOK', GoneOK, ActivityInv, [Next]_vars, NEW q \in Platforms
  PROVE  Feed(q)!FeedNext \/ UNCHANGED Feed(q)!feedVars
<1>. DEFINE Seen == Feed(q)!FeedNext \/ UNCHANGED Feed(q)!feedVars
<1>. USE DEF Feed!FeedNext, Feed!Update
<1>1. ASSUME NEW i, NEW b \in Buttons, CastVote(q, i, b) PROVE Seen
  BY <1>1, VoteFeed
<1>2. ASSUME NEW i, PressClockButton(q, i) PROVE Seen
  BY <1>2, PressFeed
<1>3. ASSUME ResetAttempt(q) PROVE Seen
  <2>1. CASE q \in platforms
    <3>1. /\ FeedBecomes(q) /\ active'[q] = VotesCleared(q)
          /\ attemptChange'[q] = attemptChange[q] /\ clock'[q] = AfterReset(clock[q])
      BY <1>3, <2>1, BroadcastFacts DEF ResetAttempt, TypeOK, PlatformsTypeOK
    <3>. QED
      BY <3>1, ResetFeed
  <2>2. CASE q \notin platforms
    BY <1>3, <2>2, Stutter DEF ResetAttempt, Unmoved, viewVars
  <2>. QED
    BY <2>1, <2>2
<1>4. ASSUME ToggleAttemptChange(q) PROVE Seen
  <2>1. /\ FeedBecomes(q) /\ clock'[q] = clock[q] /\ active'[q] = active[q]
        /\ attemptChange'[q] = ~attemptChange[q]
    BY <1>4, BroadcastFacts DEF ToggleAttemptChange, TypeOK, PlatformsTypeOK
  <2>2. /\ Live(q) \in Watch /\ Live(q)' \in Watch /\ Live(q)'.complete = Live(q).complete
        /\ Live(q)'.mode = Live(q).mode /\ Live(q)'.state = Live(q).state
        /\ Live(q)'.attemptChange = ~Live(q).attemptChange
    BY <2>1, SameComplete, LiveFields, LiveFieldsNext
  <2>3. Live(q)' = [Live(q) EXCEPT !.attemptChange = ~Live(q).attemptChange]
    BY <2>2 DEF Watch
  <2>. QED
    BY <2>1, <2>3, FeedMove DEF Feed!ToggleAttemptChange, Live
<1>5. ASSUME MoveRemotes PROVE Seen
  <2>1. OthersUnmoved
    BY <1>5, MovedOthers
  <2>2. CASE Sent(q)
    <3>1. FeedBecomes(q)
      BY <2>1, <2>2, SentBecomes DEF Sent, OthersUnmoved
    <3>. QED
      BY <2>1, <3>1, ReseatFeed DEF OthersUnmoved
  <2>3. CASE LeftAlone(q)
    BY <2>3, Stutter DEF LeftAlone
  <2>4. CASE LeftUntold(q)
    BY <2>4, LeftUntoldFeed
  <2>. QED
    BY <1>5, <2>2, <2>3, <2>4, MoveSteps
<1>6. ASSUME NEW d \in BreakDurations, StartPlatformBreak(q, d) PROVE Seen
  <2>1. /\ FeedBecomes(q) /\ active'[q] = active[q]
        /\ attemptChange'[q] = attemptChange[q] /\ clock'[q] = Start(ConfigureBreak(d))
    BY <1>6, BroadcastFacts DEF StartPlatformBreak, TypeOK, PlatformsTypeOK
  <2>. QED
    BY <2>1, StartBreakFeed
<1>7. ASSUME CancelPlatformBreak(q) PROVE Seen
  <2>1. /\ FeedBecomes(q) /\ active'[q] = active[q]
        /\ attemptChange'[q] = attemptChange[q] /\ clock'[q] = ResetToActive
        /\ InBreak(clock[q])
    BY <1>7, BroadcastFacts DEF CancelPlatformBreak, TypeOK, PlatformsTypeOK
  <2>. QED
    BY <2>1, EndBreakFeed
<1>8. ASSUME CreatePlatform(q) \/ EnsurePlatform(q) PROVE Seen
  BY <1>8, AppearsFeed
<1>9. ASSUME DeletePlatform(q) PROVE Seen
  BY <1>9, VanishesFeed
<1>10. ASSUME VoteResetFires(q) PROVE Seen
  <2>1. CASE ResetClears(q)
    <3>1. /\ FeedBecomes(q) /\ active'[q] = VotesCleared(q)
          /\ attemptChange'[q] = attemptChange[q] /\ clock'[q] = AfterReset(clock[q])
      BY <1>10, <2>1, BroadcastFacts DEF VoteResetFires, ResetClears, TypeOK, PlatformsTypeOK
    <3>. QED
      BY <3>1, ResetFeed
  <2>2. CASE ~ResetClears(q)
    BY <1>10, <2>2, Stutter DEF VoteResetFires, Unmoved, viewVars
  <2>. QED
    BY <2>1, <2>2
<1>11. ASSUME BreakResetFires(q) PROVE Seen
  <2>1. CASE q \in platforms /\ InBreak(clock[q])
    <3>1. /\ FeedBecomes(q) /\ active'[q] = active[q]
          /\ attemptChange'[q] = attemptChange[q] /\ clock'[q] = ResetToActive
      BY <1>11, <2>1, BroadcastFacts DEF BreakResetFires, TypeOK, PlatformsTypeOK
    <3>. QED
      BY <2>1, <3>1, EndBreakFeed
  <2>2. CASE ~(q \in platforms /\ InBreak(clock[q]))
    BY <1>11, <2>2, Stutter DEF BreakResetFires, Unmoved, viewVars
  <2>. QED
    BY <2>1, <2>2
<1>12. ASSUME ClockTickFires(q) PROVE Seen
  <2>1. CASE q \in platforms
    BY <1>12, <2>1, BroadcastFacts, TickFeed DEF ClockTickFires, Unmoved, platformVars
  <2>2. CASE q \notin platforms
    BY <1>12, <2>2, Stutter DEF ClockTickFires, Unmoved, platformVars, viewVars
  <2>. QED
    BY <2>1, <2>2
<1>13. ASSUME ReportDecision(q) PROVE Seen
  BY <1>13, Stutter DEF ReportDecision, Unmoved, platformVars, viewVars
<1>14. ASSUME NEW p \in Platforms, p # q, Request(p) \/ TimerFires(p) PROVE Seen
  BY <1>14, OtherPlatforms, Stutter
<1>15. ASSUME NEW d \in BreakDurations, StartGlobalBreak(d) PROVE Seen
  <2>1. /\ platforms' = platforms /\ active'[q] = active[q]
        /\ attemptChange'[q] = attemptChange[q]
        /\ clock'[q] = IF q \in platforms THEN Start(ConfigureBreak(d)) ELSE clock[q]
        /\ browserView'[q] = IF q \in platforms THEN Snapshot(q)' ELSE browserView[q]
    BY <1>15 DEF StartGlobalBreak, Assign, EmitGlobalUpdate
  <2>2. CASE q \in platforms
    <3>1. FeedBecomes(q)
      BY <2>1, <2>2, SnapshotIsLive DEF FeedBecomes, Told
    <3>. QED
      BY <2>1, <2>2, <3>1, StartBreakFeed
  <2>3. CASE q \notin platforms
    BY <2>1, <2>3, Stutter DEF Unmoved
  <2>. QED
    BY <2>2, <2>3
<1>16. ASSUME CancelGlobalBreak PROVE Seen
  <2>1. /\ platforms' = platforms /\ active'[q] = active[q]
        /\ attemptChange'[q] = attemptChange[q]
        /\ clock'[q] = IF q \in platforms /\ InBreak(clock[q]) THEN ResetToActive ELSE clock[q]
        /\ browserView'[q] = IF q \in platforms THEN Snapshot(q)' ELSE browserView[q]
    BY <1>16 DEF CancelGlobalBreak, Assign, EmitGlobalUpdate
  <2>2. q \in platforms => FeedBecomes(q)
    BY <2>1, SnapshotIsLive DEF FeedBecomes, Told
  <2>3. CASE q \in platforms /\ InBreak(clock[q])
    BY <2>1, <2>2, <2>3, EndBreakFeed
  <2>4. CASE q \in platforms /\ ~InBreak(clock[q])
    BY <2>1, <2>2, <2>4, TickFeed DEF Unmoved
  <2>5. CASE q \notin platforms
    BY <2>1, <2>5, Stutter DEF Unmoved
  <2>. QED
    BY <2>3, <2>4, <2>5
<1>17. ASSUME GetGlobalBreak \/ UNCHANGED vars PROVE Seen
  BY <1>17, Stutter DEF GetGlobalBreak, Unmoved, vars, platformVars, viewVars
<1>18. ASSUME TimePasses PROVE Seen
  BY <1>18, TimeFeed
<1>. HIDE DEF Seen
<1>19. ASSUME Request(q) \/ TimerFires(q) PROVE Seen
  BY <1>1, <1>2, <1>3, <1>4, <1>6, <1>7, <1>8, <1>9, <1>10, <1>11, <1>12, <1>13, <1>19
     DEF Request, TimerFires
<1>20. Seen
  BY <1>5, <1>14, <1>15, <1>16, <1>17, <1>18, <1>19 DEF Next, GlobalRequest
<1>. QED
  BY <1>20 DEF Seen

LEMMA GoneInvariant == Spec => []GoneOK
<1>1. Init => GoneOK
  BY DEF Init, GoneOK
<1>. QED
  BY <1>1, StepGone, TypeCorrect, PTL DEF Spec

\* The attempt cycle implements PlatformFeed: whatever handler or timer runs, on
\* this platform or on all, watchers see votes, lock and clock change together
\* in one of the ways that module allows, and are told at once except of a clock
\* that runs out, a platform that is made, and a remote that leaves by a failed
\* replace or by a transfer under another platform's name.
THEOREM ServiceImplementsFeed == Spec => FeedSpec
<1>1. Init => \A p \in Platforms : Feed(p)!FeedInit
  <2>. SUFFICES ASSUME Init, NEW q \in Platforms PROVE Feed(q)!FeedInit
    OBVIOUS
  <2>1. HasCompleteVoteSet(q) = FALSE
    BY NobodyVoted DEF Init
  <2>2. Live(q) = [complete |-> FALSE, mode |-> "ACTIVE", state |-> "IDLE",
                   attemptChange |-> FALSE]
    <3>1. clock[q] = ResetToActive /\ attemptChange[q] = FALSE
      BY DEF Init
    <3>. QED
      BY <2>1, <3>1, LiveFacts, NewClockFacts DEF ResetToActive
  <2>3. Watched(browserView[q]) = [complete |-> FALSE, mode |-> "unknown", state |-> "IDLE",
                                   attemptChange |-> FALSE]
    BY UnknownWatched DEF Init
  <2>4. Feed(q)!AtRest = Live(q) /\ Feed(q)!Untold = Watched(browserView[q])
    BY <2>2, <2>3, UntoldFacts DEF Feed!AtRest, Feed!Untold
  <2>5. (q \in platforms) = FALSE
    BY DEF Init
  <2>. QED
    BY <2>4, <2>5 DEF Feed!FeedInit
<1>2. TypeOK /\ TypeOK' /\ GoneOK /\ ActivityInv /\ [Next]_vars => [FeedStep]_vars
  BY StepFeed DEF FeedStep
<1>. QED
  BY <1>1, <1>2, TypeCorrect, GoneInvariant, ActivityInvariant, PTL DEF Spec, FeedSpec

------------------------------------------------------------------------------
(* What browsers and remotes were last sent is current.  The inductive     *)
(* invariant says why a stale view is about to be replaced: the tick of an  *)
(* attempt clock stays in phase with what is left of it, so that it is due  *)
(* when the clock runs out; the end of a break is due by ClocksOK.          *)

USE TickAssumption

TickInPhase(q) ==
  ~InBreak(clock[q]) /\ State(clock[q]) = "RUNNING" =>
    tick[q] \in Nat /\ \E k \in Nat : clock[q].left = tick[q] + k * TickPeriod

TicksOK == \A q \in Platforms : TickInPhase(q)

\* A clock that starts has a whole number of ticks ahead, the first of them a
\* period from now; a tick that fires leaves a whole number.
LEMMA WholeTicks ==
  ASSUME NEW n \in Nat \ {0}, NEW k \in Nat, n = k * TickPeriod
  PROVE  \E j \in Nat : n = TickPeriod + j * TickPeriod
<1>1. k # 0
  BY Z3
<1>2. k - 1 \in Nat /\ k * TickPeriod = TickPeriod + (k - 1) * TickPeriod
  BY <1>1, Z3
<1>. QED
  BY <1>2

LEMMA TimePassesTicks ==
  ASSUME TypeOK, TicksOK, TimePasses, NEW q \in Platforms
  PROVE  TickInPhase(q)'
<1>1. clock[q] \in Clock /\ tick[q] \in Timer /\ TickInPhase(q)
  BY DEF TypeOK, PlatformsTypeOK, TimersTypeOK, TicksOK
<1>2. clock'[q] = Elapse(clock[q]) /\ tick'[q] = Sooner(tick[q]) /\ tick[q] # 0
  BY DEF TimePasses, Due
<1>3. SUFFICES ASSUME ~InBreak(clock'[q]), State(clock'[q]) = "RUNNING"
               PROVE  tick'[q] \in Nat
                      /\ \E k \in Nat : clock'[q].left = tick'[q] + k * TickPeriod
  BY DEF TickInPhase
<1>4. ~InBreak(clock[q]) /\ State(clock[q]) = "RUNNING"
  BY <1>1, <1>2, <1>3, ElapseFacts
<1>5. tick[q] \in Nat /\ tick[q] # 0 /\ tick'[q] = tick[q] - 1
  BY <1>1, <1>2, <1>4 DEF TickInPhase, Sooner
<1>6. clock'[q].left = clock[q].left - 1 /\ clock[q].left \in Nat
  BY <1>1, <1>2, <1>4 DEF Elapse, Clock
<1>7. PICK k \in Nat : clock[q].left = tick[q] + k * TickPeriod
  BY <1>1, <1>4 DEF TickInPhase
<1>8. clock'[q].left = tick'[q] + k * TickPeriod
  <2>. DEFINE m == k * TickPeriod
  <2>1. m \in Nat /\ clock[q].left = tick[q] + m
    BY <1>7
  <2>. HIDE DEF m
  <2>2. clock'[q].left = tick'[q] + m
    BY <1>5, <1>6, <2>1
  <2>. QED
    BY <2>2 DEF m
<1>. QED
  BY <1>5, <1>8

\* A clock that runs for the first time, or again, has all of its ticks ahead.
LEMMA StartedTicks ==
  ASSUME TypeOK, ActivityInv, NEW q \in Platforms, NEW i, PressClockButton(q, i)
  PROVE  TickInPhase(q)'
<1>1. /\ clock[q] \in Clock /\ ~InBreak(clock[q])
      /\ clock'[q] = HandleChiefClockPress(clock[q])
      /\ State(clock'[q]) = "RUNNING" => tick'[q] = TickPeriod
  BY DEF PressClockButton, TypeOK, PlatformsTypeOK, TimersTypeOK
<1>2. clock[q].duration = ActiveDuration
  BY <1>1, AttemptLength DEF ActivityInv
<1>3. SUFFICES ASSUME State(clock'[q]) = "RUNNING"
               PROVE  \E k \in Nat : clock'[q].left = TickPeriod + k * TickPeriod
  BY <1>1 DEF TickInPhase
<1>4. clock'[q] = Start(clock[q])
  BY <1>1, <1>3, NewClockFacts DEF HandleChiefClockPress
<1>5. clock'[q].left = ActiveDuration
  BY <1>1, <1>2, <1>4 DEF Start, Clock
<1>6. PICK n \in 1..ActiveDuration : ActiveDuration = n * TickPeriod
  OBVIOUS
<1>. QED
  BY <1>5, <1>6, WholeTicks

LEMMA FiredTicks ==
  ASSUME TypeOK, ClocksOK, TicksOK, NEW q \in Platforms, ClockTickFires(q)
  PROVE  TickInPhase(q)'
<1>1. clock'[q] = clock[q] /\ tick[q] = 0 /\ tick'[q] = NextTick(q) /\ clock[q] \in Clock
  BY DEF ClockTickFires, platformVars, TypeOK, PlatformsTypeOK, TimersTypeOK
<1>2. SUFFICES ASSUME ~InBreak(clock[q]), State(clock[q]) = "RUNNING"
               PROVE  /\ tick'[q] = TickPeriod
                      /\ \E k \in Nat : clock[q].left = TickPeriod + k * TickPeriod
  BY <1>1 DEF TickInPhase
<1>3. q \in platforms
  BY <1>2, NewClockFacts DEF ClocksOK, PlatformClockOK
<1>4. clock[q].left \in Nat \ {0}
  BY <1>1, <1>2, StateFacts DEF Clock
<1>5. PICK k \in Nat : clock[q].left = 0 + k * TickPeriod
  BY <1>1, <1>2 DEF TicksOK, TickInPhase
<1>6. clock[q].left = k * TickPeriod
  BY <1>5
<1>. QED
  BY <1>1, <1>2, <1>3, <1>4, <1>6, WholeTicks DEF NextTick

\* What an action other than the passing of time does to a platform's clock
\* and tick: it leaves both, or the clock does not run an attempt afterwards,
\* or the chief started it, or its tick fires.
LEMMA TickSteps ==
  ASSUME TypeOK, ClocksOK, Next, ~TimePasses, NEW q \in Platforms
  PROVE  \/ clock'[q] = clock[q] /\ tick'[q] = tick[q]
         \/ InBreak(clock'[q]) \/ State(clock'[q]) # "RUNNING"
         \/ \E i : PressClockButton(q, i)
         \/ ClockTickFires(q)
<1>. DEFINE Kept == \/ clock'[q] = clock[q] /\ tick'[q] = tick[q]
                    \/ InBreak(clock'[q]) \/ State(clock'[q]) # "RUNNING"
                    \/ \E i : PressClockButton(q, i)
                    \/ ClockTickFires(q)
<1>0. clock[q] \in Clock /\ AfterReset(clock[q]) \in Clock
  BY AfterResetFacts DEF TypeOK, PlatformsTypeOK
<1>. USE NewClockFacts, BreakClockFacts
     DEF TypeOK, PlatformsTypeOK, TimersTypeOK, platformVars, timerVars
<1>1. ASSUME NEW p \in Platforms, NEW i, NEW b \in Buttons, CastVote(p, i, b)
      PROVE  Kept
  BY <1>1 DEF CastVote
<1>2. ASSUME NEW p \in Platforms, NEW i, PressClockButton(p, i) PROVE Kept
  BY <1>2 DEF PressClockButton
<1>3. ASSUME NEW p \in Platforms, ResetAttempt(p) PROVE Kept
  <2>1. CASE q = p /\ p \in platforms
    BY <1>0, <1>3, <2>1, AfterResetFacts DEF ResetAttempt
  <2>2. CASE q = p /\ p \notin platforms
    BY <1>3, <2>2 DEF ResetAttempt, ClocksOK, PlatformClockOK
  <2>3. CASE q # p
    BY <1>3, <2>3 DEF ResetAttempt
  <2>. QED
    BY <2>1, <2>2, <2>3
<1>4. ASSUME MoveRemotes PROVE Kept
  BY <1>4, MovedOthers DEF OthersUnmoved
<1>5. ASSUME NEW p \in Platforms, ToggleAttemptChange(p) PROVE Kept
  BY <1>5 DEF ToggleAttemptChange
<1>6. ASSUME NEW p \in Platforms, NEW d \in BreakDurations, StartPlatformBreak(p, d)
      PROVE  Kept
  BY <1>6 DEF StartPlatformBreak
<1>7. ASSUME NEW d \in BreakDurations, StartGlobalBreak(d) PROVE Kept
  BY <1>7 DEF StartGlobalBreak, Assign
<1>8. ASSUME GetGlobalBreak PROVE Kept
  BY <1>8 DEF GetGlobalBreak
<1>9. ASSUME NEW p \in Platforms, CancelPlatformBreak(p) PROVE Kept
  BY <1>9 DEF CancelPlatformBreak
<1>10. ASSUME CancelGlobalBreak PROVE Kept
  BY <1>10 DEF CancelGlobalBreak, Assign
<1>11. ASSUME NEW p \in Platforms, CreatePlatform(p) PROVE Kept
  BY <1>11 DEF CreatePlatform
<1>12. ASSUME NEW p \in Platforms, EnsurePlatform(p) PROVE Kept
  <2>1. CASE q = p /\ globalBreak > 0
    <3>1. globalBreak \in Nat
      BY <2>1 DEF Timer, Off
    <3>. QED
      BY <1>12, <2>1, <3>1 DEF EnsurePlatform, JoinBreak
  <2>2. CASE ~(q = p /\ globalBreak > 0)
    BY <1>12, <2>2 DEF EnsurePlatform
  <2>. QED
    BY <2>1, <2>2
<1>13. ASSUME NEW p \in Platforms, DeletePlatform(p) PROVE Kept
  BY <1>13 DEF DeletePlatform
<1>14. ASSUME NEW p \in Platforms, VoteResetFires(p) PROVE Kept
  <2>1. CASE q = p /\ ResetClears(p)
    BY <1>0, <1>14, <2>1, AfterResetFacts DEF VoteResetFires
  <2>2. CASE ~(q = p /\ ResetClears(p))
    BY <1>14, <2>2 DEF VoteResetFires
  <2>. QED
    BY <2>1, <2>2
<1>15. ASSUME NEW p \in Platforms, BreakResetFires(p) PROVE Kept
  BY <1>15 DEF BreakResetFires
<1>16. ASSUME NEW p \in Platforms, ClockTickFires(p) \/ ReportDecision(p) PROVE Kept
  BY <1>16 DEF ClockTickFires, ReportDecision
<1>. HIDE DEF Kept
<1>17. Kept
  BY <1>1, <1>2, <1>3, <1>4, <1>5, <1>6, <1>7, <1>8, <1>9, <1>10, <1>11, <1>12, <1>13, <1>14,
     <1>15, <1>16 DEF Next, Request, GlobalRequest, TimerFires
<1>. QED
  BY <1>17 DEF Kept

LEMMA StepTicks ==
  TypeOK /\ ClocksOK /\ ActivityInv /\ TicksOK /\ [Next]_vars => TicksOK'
<1>. SUFFICES ASSUME TypeOK, ClocksOK, ActivityInv, TicksOK, [Next]_vars, NEW q \in Platforms
              PROVE  TickInPhase(q)'
  BY DEF TicksOK
<1>1. CASE TimePasses
  BY <1>1, TimePassesTicks
<1>2. CASE \E i : PressClockButton(q, i)
  BY <1>2, StartedTicks
<1>3. CASE ClockTickFires(q)
  BY <1>3, FiredTicks
<1>4. CASE \/ clock'[q] = clock[q] /\ tick'[q] = tick[q]
           \/ InBreak(clock'[q]) \/ State(clock'[q]) # "RUNNING"
  BY <1>4 DEF TicksOK, TickInPhase
<1>5. CASE UNCHANGED vars
  BY <1>5 DEF vars, platformVars, timerVars, TicksOK, TickInPhase
<1>. QED
  BY <1>1, <1>2, <1>3, <1>4, <1>5, TickSteps

LEMMA TicksInvariant == Spec => []TicksOK
<1>1. Init => TicksOK
  BY NewClockFacts DEF Init, TicksOK, TickInPhase
<1>. QED
  BY <1>1, StepTicks, TypeCorrect, ClocksInvariant, ActivityInvariant, PTL DEF Spec

\* A view may be stale in the votes of roles whose remotes left untold, and in
\* that the clock ran out; then the tick that shows it is due.
ViewFits(q, view) ==
  /\ view.mode = clock[q].mode
  /\ \A r \in Roles : r \notin untold[q] => view.votes[r] = RefereeVotes(q)[r]
  /\ \/ view.state = State(clock[q])
     \/ /\ State(clock[q]) = "EXPIRED" /\ view.state = "RUNNING"
        /\ ~InBreak(clock[q]) => tick[q] = 0

BrowserFits(q) ==
  \/ browserView[q].mode = "unknown"
  \/ ViewFits(q, browserView[q]) /\ browserView[q].attemptChange = attemptChange[q]

EspFits(q) == espView[q].mode = "unknown" \/ ViewFits(q, espView[q])

PlatformViewsOK(q) ==
  /\ BrowserFits(q)
  /\ EspFits(q)
  /\ q \notin platforms => browserView[q].mode = "unknown" /\ espView[q].mode = "unknown"

ViewsOK == \A q \in Platforms : PlatformViewsOK(q)

LEMMA SentFits == ASSUME NEW q \in Platforms, Sent(q) PROVE PlatformViewsOK(q)'
<1>1. /\ browserView'[q].mode = clock'[q].mode /\ browserView'[q].state = State(clock'[q])
      /\ browserView'[q].votes = RefereeVotes(q)'
      /\ browserView'[q].attemptChange = attemptChange'[q]
  BY DEF Sent, Snapshot
<1>2. /\ espView'[q].mode = clock'[q].mode /\ espView'[q].state = State(clock'[q])
      /\ espView'[q].votes = RefereeVotes(q)'
  BY DEF Sent, EspSnapshot
<1>. QED
  BY <1>1, <1>2 DEF Sent, PlatformViewsOK, BrowserFits, EspFits, ViewFits

LEMMA UnknownFits == ASSUME NEW q \in Platforms, StaysUnknown(q) PROVE PlatformViewsOK(q)'
BY DEF StaysUnknown, PlatformViewsOK, BrowserFits, EspFits

LEMMA LeftAloneFits ==
  ASSUME NEW q \in Platforms, PlatformViewsOK(q), LeftAlone(q) PROVE PlatformViewsOK(q)'
<1>1. RefereeVotes(q)' = RefereeVotes(q)
  BY DEF LeftAlone, Unmoved, RefereeVotes
<1>2. /\ clock'[q] = clock[q] /\ tick'[q] = tick[q] /\ (q \in platforms') = (q \in platforms)
      /\ attemptChange'[q] = attemptChange[q] /\ untold'[q] = untold[q]
      /\ browserView'[q] = browserView[q] /\ espView'[q] = espView[q]
  BY DEF LeftAlone, Unmoved
<1>. QED
  BY <1>1, <1>2 DEF PlatformViewsOK, BrowserFits, EspFits, ViewFits

\* A remote that leaves changes the vote of its own role only.
LEMMA LeftUntoldFits ==
  ASSUME TypeOK, NEW q \in Platforms, PlatformViewsOK(q), LeftUntold(q)
  PROVE  PlatformViewsOK(q)'
<1>1. PICK i \in Leaving(q) :
        active' = Without(q, i) /\ untold'[q] = untold[q] \cup {active[q][i].role}
  BY DEF LeftUntold
<1>2. /\ active[q] \in Seq(Remote) /\ i \in DOMAIN active[q]
      /\ active'[q] = RemoveAt(active[q], i)
  BY <1>1 DEF Leaving, Without, TypeOK, PlatformsTypeOK
<1>3. \A r \in Roles : r \notin untold'[q] =>
        r \notin untold[q] /\ RefereeVotes(q)'[r] = RefereeVotes(q)[r]
  BY <1>1, <1>2, LeavingVotes DEF RefereeVotes
<1>4. /\ clock'[q] = clock[q] /\ tick'[q] = tick[q] /\ q \in platforms'
      /\ attemptChange'[q] = attemptChange[q]
      /\ browserView'[q] = browserView[q] /\ espView'[q] = espView[q]
  BY DEF LeftUntold, OthersUnmoved, timerVars
<1>. QED
  BY <1>3, <1>4 DEF PlatformViewsOK, BrowserFits, EspFits, ViewFits

\* Time does not pass while a view is stale in its state; a clock that runs out
\* then makes it so.
LEMMA TimePassesViews ==
  ASSUME TypeOK, ClocksOK, TicksOK, ViewsOK, TimePasses, NEW q \in Platforms
  PROVE  PlatformViewsOK(q)'
<1>1. /\ clock[q] \in Clock /\ tick[q] \in Timer /\ PlatformClockOK(q) /\ TickInPhase(q)
      /\ PlatformViewsOK(q)
  BY DEF TypeOK, PlatformsTypeOK, TimersTypeOK, ClocksOK, TicksOK, ViewsOK
<1>2. /\ clock'[q] = Elapse(clock[q]) /\ tick'[q] = Sooner(tick[q])
      /\ tick[q] # 0 /\ breakReset[q] # 0
      /\ UNCHANGED <<platforms, active, attemptChange, browserView, espView, untold>>
  BY DEF TimePasses, Due, viewVars
<1>3. InBreak(clock[q]) => State(clock[q]) # "EXPIRED"
  BY <1>1, <1>2, StateFacts DEF PlatformClockOK, State
<1>4. clock'[q].mode = clock[q].mode /\ RefereeVotes(q)' = RefereeVotes(q)
  BY <1>1, <1>2 DEF Elapse, Clock, RefereeVotes
<1>5. ASSUME NEW view, ViewFits(q, view)
      PROVE  /\ view.mode = clock'[q].mode
             /\ \A r \in Roles : r \notin untold'[q] => view.votes[r] = RefereeVotes(q)'[r]
             /\ view.state = State(clock[q])
  BY <1>2, <1>3, <1>4, <1>5 DEF ViewFits
<1>6. CASE State(clock'[q]) = State(clock[q])
  BY <1>1, <1>2, <1>5, <1>6 DEF PlatformViewsOK, BrowserFits, EspFits, ViewFits
<1>7. CASE State(clock'[q]) # State(clock[q])
  <2>1. /\ State(clock[q]) = "RUNNING" /\ State(clock'[q]) = "EXPIRED"
        /\ clock[q].left = 1
    BY <1>1, <1>2, <1>7 DEF Elapse, State, Clock
  <2>2. ~InBreak(clock'[q]) => tick'[q] = 0
    <3>1. SUFFICES ASSUME ~InBreak(clock[q]) PROVE tick'[q] = 0
      BY <1>1, <1>2, ElapseFacts
    <3>2. PICK k \in Nat : tick[q] \in Nat /\ 1 = tick[q] + k * TickPeriod
      BY <1>1, <2>1, <3>1 DEF TickInPhase
    <3>. DEFINE m == k * TickPeriod
    <3>3. m \in Nat /\ 1 = tick[q] + m
      BY <3>2
    <3>. HIDE DEF m
    <3>4. tick[q] = 1
      BY <1>2, <3>2, <3>3
    <3>. QED
      BY <1>2, <3>4 DEF Sooner
  <2>. QED
    BY <1>1, <1>2, <1>5, <2>1, <2>2 DEF PlatformViewsOK, BrowserFits, EspFits, ViewFits
<1>. QED
  BY <1>6, <1>7

LEMMA ViewSteps ==
  ASSUME TypeOK, ViewsOK, Next, ~TimePasses, NEW q \in Platforms
  PROVE  Sent(q) \/ LeftAlone(q) \/ LeftUntold(q) \/ StaysUnknown(q)
<1>. DEFINE Seen == Sent(q) \/ LeftAlone(q) \/ LeftUntold(q) \/ StaysUnknown(q)
<1>0. q \notin platforms => browserView[q].mode = "unknown" /\ espView[q].mode = "unknown"
  BY DEF ViewsOK, PlatformViewsOK
<1>. USE BroadcastSends DEF TypeOK, PlatformsTypeOK, TimersTypeOK, Unmoved, LeftAlone,
     StaysUnknown, platformVars, timerVars, viewVars
\* Another platform's handlers and timers.
<1>1. ASSUME NEW p \in Platforms, p # q, Request(p) \/ TimerFires(p) PROVE Seen
  <2>1. Unmoved(q) /\ browserView'[q] = browserView[q]
    BY <1>1, OtherPlatforms
  <2>2. espView'[q] = espView[q] /\ tick'[q] = tick[q] /\ untold'[q] = untold[q]
    <3>. DEFINE Kept == espView'[q] = espView[q] /\ tick'[q] = tick[q] /\ untold'[q] = untold[q]
    <3>. USE <1>1 DEF ViewsTypeOK, BroadcastPlatformUpdate
    <3>1. ASSUME NEW i, NEW b \in Buttons, CastVote(p, i, b) PROVE Kept
      BY <3>1 DEF CastVote
    <3>2. ASSUME NEW i, PressClockButton(p, i) PROVE Kept
      BY <3>2 DEF PressClockButton
    <3>3. ASSUME ResetAttempt(p) \/ ToggleAttemptChange(p) PROVE Kept
      BY <3>3 DEF ResetAttempt, ToggleAttemptChange
    <3>4. ASSUME NEW d \in BreakDurations, StartPlatformBreak(p, d) PROVE Kept
      BY <3>4 DEF StartPlatformBreak
    <3>5. ASSUME CancelPlatformBreak(p) \/ CreatePlatform(p) \/ EnsurePlatform(p) PROVE Kept
      BY <3>5 DEF CancelPlatformBreak, CreatePlatform, EnsurePlatform
    <3>6. ASSUME DeletePlatform(p) \/ VoteResetFires(p) \/ BreakResetFires(p)
                   \/ ClockTickFires(p) \/ ReportDecision(p)
          PROVE  Kept
      BY <3>6 DEF DeletePlatform, VoteResetFires, BreakResetFires, ClockTickFires,
         ReportDecision
    <3>. HIDE DEF Kept
    <3>7. Kept
      BY <3>1, <3>2, <3>3, <3>4, <3>5, <3>6 DEF Request, TimerFires
    <3>. QED
      BY <3>7 DEF Kept
  <2>. QED
    BY <2>1, <2>2
\* Its own.
<1>2. ASSUME NEW i, PressClockButton(q, i) \/ \E b \in Buttons : CastVote(q, i, b) PROVE Seen
  BY <1>2 DEF PressClockButton, CastVote
<1>3. ASSUME ToggleAttemptChange(q) PROVE Seen
  BY <1>3 DEF ToggleAttemptChange
<1>4. ASSUME ResetAttempt(q) PROVE Seen
  BY <1>0, <1>4 DEF ResetAttempt
<1>5. ASSUME MoveRemotes PROVE Seen
  BY <1>5, MoveSteps
<1>6. ASSUME NEW d \in BreakDurations, StartPlatformBreak(q, d) PROVE Seen
  BY <1>6 DEF StartPlatformBreak
<1>7. ASSUME CancelPlatformBreak(q) PROVE Seen
  BY <1>7 DEF CancelPlatformBreak
<1>8. ASSUME CreatePlatform(q) \/ EnsurePlatform(q) PROVE Seen
  BY <1>0, <1>8 DEF CreatePlatform, EnsurePlatform
<1>9. ASSUME DeletePlatform(q) PROVE Seen
  BY <1>9 DEF DeletePlatform, ViewsTypeOK, UnknownToBrowser, UnknownToEsp
<1>10. ASSUME VoteResetFires(q) PROVE Seen
  BY <1>10 DEF VoteResetFires, ResetClears
<1>11. ASSUME BreakResetFires(q) PROVE Seen
  BY <1>11 DEF BreakResetFires
<1>12. ASSUME ClockTickFires(q) PROVE Seen
  BY <1>0, <1>12 DEF ClockTickFires
<1>13. ASSUME ReportDecision(q) PROVE Seen
  BY <1>13 DEF ReportDecision
\* The global break's.
<1>14. ASSUME NEW d \in BreakDurations, StartGlobalBreak(d) PROVE Seen
  <2>1. CASE q \in platforms
    BY <1>14, <2>1, GlobalSends DEF StartGlobalBreak
  <2>2. CASE q \notin platforms
    BY <1>0, <1>14, <2>2 DEF StartGlobalBreak, EmitGlobalUpdate, PushAllPlatformStateToEsp, Assign
  <2>. QED
    BY <2>1, <2>2
<1>15. ASSUME CancelGlobalBreak PROVE Seen
  <2>1. CASE q \in platforms
    BY <1>15, <2>1, GlobalSends DEF CancelGlobalBreak
  <2>2. CASE q \notin platforms
    BY <1>0, <1>15, <2>2 DEF CancelGlobalBreak, EmitGlobalUpdate, PushAllPlatformStateToEsp, Assign
  <2>. QED
    BY <2>1, <2>2
<1>16. ASSUME GetGlobalBreak PROVE Seen
  BY <1>16 DEF GetGlobalBreak
<1>. HIDE DEF Seen
<1>17. ASSUME Request(q) \/ TimerFires(q) PROVE Seen
  BY <1>2, <1>3, <1>4, <1>6, <1>7, <1>8, <1>9, <1>10, <1>11, <1>12, <1>13, <1>17
     DEF Request, TimerFires
<1>18. Seen
  BY <1>1, <1>5, <1>14, <1>15, <1>16, <1>17 DEF Next, GlobalRequest
<1>. QED
  BY <1>18 DEF Seen

LEMMA StepViews ==
  TypeOK /\ ClocksOK /\ TicksOK /\ ViewsOK /\ [Next]_vars => ViewsOK'
<1>. SUFFICES ASSUME TypeOK, ClocksOK, TicksOK, ViewsOK, [Next]_vars, NEW q \in Platforms
              PROVE  PlatformViewsOK(q)'
  BY DEF ViewsOK
<1>1. PlatformViewsOK(q)
  BY DEF ViewsOK
<1>2. CASE TimePasses
  BY <1>2, TimePassesViews
<1>3. CASE Next /\ ~TimePasses
  BY <1>1, <1>3, ViewSteps, SentFits, LeftAloneFits, LeftUntoldFits, UnknownFits
<1>4. CASE UNCHANGED vars
  <2>1. LeftAlone(q)
    BY <1>4 DEF vars, platformVars, timerVars, viewVars, LeftAlone, Unmoved
  <2>. QED
    BY <1>1, <2>1, LeftAloneFits
<1>. QED
  BY <1>2, <1>3, <1>4

LEMMA ViewsInvariant == Spec => []ViewsOK
<1>1. Init => ViewsOK
  <2>. SUFFICES ASSUME Init, NEW q \in Platforms PROVE PlatformViewsOK(q)
    BY DEF ViewsOK
  <2>1. browserView[q] = UnknownToBrowser /\ espView[q] = UnknownToEsp
    BY DEF Init
  <2>2. browserView[q].mode = "unknown" /\ espView[q].mode = "unknown"
    BY <2>1 DEF UnknownToBrowser, UnknownToEsp
  <2>. QED
    BY <2>2 DEF PlatformViewsOK, BrowserFits, EspFits
<1>. QED
  BY <1>1, StepViews, TypeCorrect, ClocksInvariant, TicksInvariant, PTL DEF Spec

\* Views and snapshots apart from some votes.
LEMMA ApartFacts ==
  ASSUME NEW view, NEW snapshot, NEW gone,
         \/ view \in BrowserSnapshots /\ snapshot \in BrowserSnapshots
              /\ view.attemptChange = snapshot.attemptChange
         \/ view \in EspSnapshots /\ snapshot \in EspSnapshots,
         view.mode = snapshot.mode,
         \A r \in Roles : r \notin gone => view.votes[r] = snapshot.votes[r]
  PROVE  /\ view.state = snapshot.state => Apart(view, gone) = Apart(snapshot, gone)
         /\ view.state = "RUNNING" =>
              Apart(view, gone) = [Apart(snapshot, gone) EXCEPT !.state = "RUNNING"]
<1>. DEFINE votes(v) == [r \in Roles |-> IF r \in gone THEN "none" ELSE v.votes[r]]
<1>1. votes(view) = votes(snapshot)
  OBVIOUS
<1>2. /\ Apart(view, gone) = [view EXCEPT !.votes = votes(view)]
      /\ Apart(snapshot, gone) = [snapshot EXCEPT !.votes = votes(snapshot)]
  BY DEF Apart
<1>. DEFINE w == votes(view)
<1>3. votes(view) = w /\ votes(snapshot) = w
  BY <1>1
<1>. HIDE DEF votes, w
<1>4. CASE /\ view \in BrowserSnapshots /\ snapshot \in BrowserSnapshots
           /\ view.attemptChange = snapshot.attemptChange
  <2>1. /\ view.state = snapshot.state =>
             [view EXCEPT !.votes = w] = [snapshot EXCEPT !.votes = w]
        /\ view.state = "RUNNING" =>
             [view EXCEPT !.votes = w] = [[snapshot EXCEPT !.votes = w] EXCEPT !.state = "RUNNING"]
    BY <1>4 DEF BrowserSnapshots
  <2>. QED
    BY <1>2, <1>3, <2>1
<1>5. CASE view \in EspSnapshots /\ snapshot \in EspSnapshots
  <2>1. /\ view.state = snapshot.state =>
             [view EXCEPT !.votes = w] = [snapshot EXCEPT !.votes = w]
        /\ view.state = "RUNNING" =>
             [view EXCEPT !.votes = w] = [[snapshot EXCEPT !.votes = w] EXCEPT !.state = "RUNNING"]
    BY <1>5 DEF EspSnapshots
  <2>. QED
    BY <1>2, <1>3, <2>1
<1>. QED
  BY <1>4, <1>5

\* Browsers and remotes were last sent the state every platform is in, apart from
\* the votes of remotes that left untold, or are about to be told that its clock
\* ran out: no handler and no timer of any platform changes what else they show
\* and forgets to send it (broadcastPlatformUpdate, emitGlobalUpdate,
\* startClockTick).
THEOREM ViewsCurrentAlways == Spec => []ViewsCurrent
<1>1. TypeOK /\ ClocksOK /\ ViewsOK => ViewsCurrent
  <2>. SUFFICES ASSUME TypeOK, ClocksOK, ViewsOK, NEW q \in platforms
                PROVE  /\ ViewIsCurrent(q, browserView[q], Snapshot(q))
                       /\ ViewIsCurrent(q, espView[q], EspSnapshot(q))
    BY DEF ViewsCurrent
  <2>1. q \in Platforms /\ PlatformViewsOK(q) /\ PlatformClockOK(q) /\ clock[q] \in Clock
    BY DEF TypeOK, PlatformsTypeOK, ViewsOK, ClocksOK
  <2>2. State(clock[q]) = "EXPIRED" => tick[q] = 0 \/ breakReset[q] = 0 \/ ~InBreak(clock[q])
    BY <2>1, StateFacts DEF PlatformClockOK, State
  <2>3. /\ browserView[q] \in BrowserSnapshots /\ Snapshot(q) \in BrowserSnapshots
        /\ espView[q] \in EspSnapshots /\ EspSnapshot(q) \in EspSnapshots
    BY <2>1, SnapshotTypes DEF TypeOK, ViewsTypeOK, SnapshotsTypeOK
  <2>4. /\ Snapshot(q).mode = clock[q].mode /\ Snapshot(q).state = State(clock[q])
        /\ Snapshot(q).votes = RefereeVotes(q) /\ Snapshot(q).attemptChange = attemptChange[q]
        /\ EspSnapshot(q).mode = clock[q].mode /\ EspSnapshot(q).state = State(clock[q])
        /\ EspSnapshot(q).votes = RefereeVotes(q)
    BY DEF Snapshot, EspSnapshot
  <2>5. ViewIsCurrent(q, browserView[q], Snapshot(q))
    <3>1. CASE browserView[q].mode = "unknown"
      BY <3>1 DEF ViewIsCurrent
    <3>2. CASE ViewFits(q, browserView[q]) /\ browserView[q].attemptChange = attemptChange[q]
      BY <2>2, <2>3, <2>4, <3>2, ApartFacts DEF ViewFits, ViewIsCurrent
    <3>. QED
      BY <2>1, <3>1, <3>2 DEF PlatformViewsOK, BrowserFits
  <2>6. ViewIsCurrent(q, espView[q], EspSnapshot(q))
    <3>1. CASE espView[q].mode = "unknown"
      BY <3>1 DEF ViewIsCurrent
    <3>2. CASE ViewFits(q, espView[q])
      BY <2>2, <2>3, <2>4, <3>2, ApartFacts DEF ViewFits, ViewIsCurrent
    <3>. QED
      BY <2>1, <3>1, <3>2 DEF PlatformViewsOK, EspFits
  <2>. QED
    BY <2>5, <2>6
<1>. QED
  BY <1>1, TypeCorrect, ClocksInvariant, ViewsInvariant, PTL

------------------------------------------------------------------------------
(* What a page that opens at any moment finds.                             *)

\* The steps of the feed, by what they do to what is live and what was told.
LEMMA FeedMoves ==
  ASSUME NEW q \in Platforms, Feed(q)!FeedNext \/ UNCHANGED Feed(q)!feedVars
  PROVE  \/ Told(q)' = Live(q)'
         \/ Told(q)' = Told(q) /\ Live(q)' = Live(q)
         \/ /\ Told(q)' = Told(q) /\ Live(q).state = "RUNNING"
            /\ Live(q)' = [Live(q) EXCEPT !.state = "EXPIRED"]
         \/ Told(q)' = Told(q) /\ Live(q)' = [Live(q) EXCEPT !.complete = FALSE]
         \/ /\ q \notin platforms /\ Told(q)' = Told(q)
            /\ Live(q)' \in {Feed(q)!AtRest,
                             [Feed(q)!AtRest EXCEPT !.mode = "BREAK", !.state = "RUNNING"]}
         \/ Told(q)' = Feed(q)!Untold /\ Live(q)' = Feed(q)!AtRest
<1>1. ASSUME NEW v, Feed(q)!Becomes(v) PROVE Told(q)' = Live(q)'
  BY <1>1 DEF Feed!Becomes, Live, Told
<1>2. CASE Feed(q)!Update
  BY <1>1, <1>2 DEF Feed!Update, Feed!Vote, Feed!PressClock, Feed!Reset,
     Feed!ToggleAttemptChange, Feed!Reseat, Feed!StartBreak, Feed!EndBreak, Feed!Tick
<1>3. CASE Feed(q)!RunsOut
  BY <1>3 DEF Feed!RunsOut, Live, Told
<1>7. CASE Feed(q)!LeavesUntold
  BY <1>7 DEF Feed!LeavesUntold, Live, Told
<1>4. CASE Feed(q)!Appears
  BY <1>4 DEF Feed!Appears, Live, Told
<1>5. CASE Feed(q)!Vanishes
  BY <1>5 DEF Feed!Vanishes, Live, Told
<1>6. CASE UNCHANGED Feed(q)!feedVars
  BY <1>6 DEF Feed!feedVars, Live, Told
<1>. QED
  BY <1>2, <1>3, <1>4, <1>5, <1>6, <1>7 DEF Feed!FeedNext

\* A platform nobody was told of is as it was made: at rest, or in a break it
\* joined, which may be over by now.
Rest == [complete |-> FALSE, mode |-> "ACTIVE", state |-> "IDLE", attemptChange |-> FALSE]
Joined(s) == [complete |-> FALSE, mode |-> "BREAK", state |-> s, attemptChange |-> FALSE]
NotTold == [complete |-> FALSE, mode |-> "unknown", state |-> "IDLE", attemptChange |-> FALSE]

AsMade(view) == view \in {Rest, Joined("RUNNING"), Joined("EXPIRED")}

\* What was told is live, apart from a clock that ran out since and a complete
\* set that a remote left since.
ToldFits(seen, view) ==
  /\ seen.mode = view.mode /\ seen.attemptChange = view.attemptChange
  /\ \/ seen.state = view.state
     \/ seen.state = "RUNNING" /\ view.state = "EXPIRED"
  /\ view.complete => seen.complete

ToldOK ==
  \A q \in Platforms :
    \/ Told(q) = NotTold /\ AsMade(Live(q))
    \/ Told(q) \in Watch /\ ToldFits(Told(q), Live(q))

LEMMA RestFacts ==
  /\ Rest \in Watch /\ NotTold \notin Watch
  /\ Joined("RUNNING") = [Rest EXCEPT !.mode = "BREAK", !.state = "RUNNING"]
  /\ Joined("EXPIRED") = [Rest EXCEPT !.mode = "BREAK", !.state = "EXPIRED"]
  /\ Joined("EXPIRED") = [Joined("RUNNING") EXCEPT !.state = "EXPIRED"]
  /\ [Rest EXCEPT !.mode = "unknown"] = NotTold
<1>1. /\ {Rest, Joined("RUNNING"), Joined("EXPIRED")} \subseteq Watch /\ NotTold \notin Watch
      /\ NotTold \in [complete : BOOLEAN, mode : {"unknown"}, state : ClockState,
                       attemptChange : BOOLEAN]
  BY DEF Rest, Joined, NotTold, Watch, ClockMode, ClockState
<1>2. /\ Rest.complete = FALSE /\ Rest.attemptChange = FALSE /\ Rest.state = "IDLE"
      /\ \A x \in {"RUNNING", "EXPIRED"} :
           Joined(x).complete = FALSE /\ Joined(x).attemptChange = FALSE
           /\ Joined(x).mode = "BREAK" /\ Joined(x).state = x
      /\ NotTold.complete = FALSE /\ NotTold.attemptChange = FALSE
      /\ NotTold.mode = "unknown" /\ NotTold.state = "IDLE"
  BY DEF Rest, Joined, NotTold
<1>3. Joined("RUNNING") = [Rest EXCEPT !.mode = "BREAK", !.state = "RUNNING"]
  BY <1>1, <1>2 DEF Watch
<1>4. Joined("EXPIRED") = [Rest EXCEPT !.mode = "BREAK", !.state = "EXPIRED"]
  BY <1>1, <1>2 DEF Watch
<1>5. Joined("EXPIRED") = [Joined("RUNNING") EXCEPT !.state = "EXPIRED"]
  BY <1>1, <1>2 DEF Watch
<1>6. [Rest EXCEPT !.mode = "unknown"] = NotTold
  BY UntoldFacts DEF Rest, NotTold
<1>. QED
  BY <1>1, <1>3, <1>4, <1>5, <1>6

LEMMA ToldStep ==
  TypeOK /\ TypeOK' /\ GoneOK /\ ActivityInv /\ ToldOK /\ [Next]_vars => ToldOK'
<1>. SUFFICES ASSUME TypeOK, TypeOK', GoneOK, ActivityInv, ToldOK, [Next]_vars,
                     NEW q \in Platforms
              PROVE  \/ Told(q)' = NotTold /\ AsMade(Live(q)')
                     \/ Told(q)' \in Watch /\ ToldFits(Told(q)', Live(q)')
  BY DEF ToldOK, AsMade, ToldFits, Watch, NotTold
<1>1. Live(q) \in Watch /\ Live(q)' \in Watch
  BY LiveFields, LiveFieldsNext
<1>2. \/ Told(q) = NotTold /\ AsMade(Live(q))
      \/ Told(q) \in Watch /\ ToldFits(Told(q), Live(q))
  BY DEF ToldOK
<1>3. Feed(q)!AtRest = Rest /\ Feed(q)!Untold = NotTold
  BY RestFacts DEF Feed!AtRest, Feed!Untold, Rest
<1>4. CASE Told(q)' = Live(q)'
  BY <1>1, <1>4 DEF ToldFits
<1>5. CASE Told(q)' = Told(q) /\ Live(q)' = Live(q)
  BY <1>2, <1>5
<1>6. CASE /\ Told(q)' = Told(q) /\ Live(q).state = "RUNNING"
           /\ Live(q)' = [Live(q) EXCEPT !.state = "EXPIRED"]
  <2>1. Told(q) = NotTold => Live(q) = Joined("RUNNING")
    BY <1>2, <1>6 DEF AsMade, Rest, Joined, NotTold, Watch, ClockMode
  <2>2. Told(q) = NotTold => AsMade(Live(q)')
    BY <1>6, <2>1, RestFacts DEF AsMade
  <2>3. Told(q) \in Watch => ToldFits(Told(q)', Live(q)')
    BY <1>1, <1>2, <1>6, RestFacts DEF ToldFits, Watch
  <2>. QED
    BY <1>2, <1>6, <2>2, <2>3
<1>9. CASE Told(q)' = Told(q) /\ Live(q)' = [Live(q) EXCEPT !.complete = FALSE]
  <2>1. AsMade(Live(q)) => Live(q)' = Live(q)
    BY <1>1, <1>9 DEF AsMade, Rest, Joined, Watch
  <2>2. ToldFits(Told(q), Live(q)) => ToldFits(Told(q)', Live(q)')
    BY <1>1, <1>9 DEF ToldFits, Watch
  <2>. QED
    BY <1>2, <1>9, <2>1, <2>2
<1>7. CASE /\ q \notin platforms /\ Told(q)' = Told(q)
           /\ Live(q)' \in {Rest, [Rest EXCEPT !.mode = "BREAK", !.state = "RUNNING"]}
  <2>1. Told(q) = NotTold
    BY <1>7, UnknownWatched DEF GoneOK, Told, NotTold
  <2>. QED
    BY <1>7, <2>1, RestFacts DEF AsMade
<1>8. CASE Told(q)' = NotTold /\ Live(q)' = Rest
  BY <1>8 DEF AsMade
<1>. QED
  BY <1>3, <1>4, <1>5, <1>6, <1>7, <1>8, <1>9, StepFeed, FeedMoves

LEMMA ToldInvariant == Spec => []ToldOK
<1>1. Init => ToldOK
  <2>. SUFFICES ASSUME Init, NEW q \in Platforms
                PROVE  Told(q) = NotTold /\ AsMade(Live(q))
    BY DEF ToldOK
  <2>1. Told(q) = NotTold
    BY UnknownWatched DEF Init, Told, NotTold
  <2>2. HasCompleteVoteSet(q) = FALSE
    BY NobodyVoted DEF Init
  <2>3. Live(q) = Rest
    <3>1. clock[q] = ResetToActive /\ attemptChange[q] = FALSE
      BY DEF Init
    <3>. QED
      BY <2>2, <3>1, LiveFacts, NewClockFacts DEF Rest, ResetToActive
  <2>. QED
    BY <2>1, <2>3 DEF AsMade
<1>. QED
  BY <1>1, ToldStep, TypeCorrect, GoneInvariant, ActivityInvariant, PTL DEF Spec

\* At any moment of any run, every platform is to those who watch it as
\* PlatformBrowser assumes when its page opens (BrowserInit): they were told
\* its present state, apart from a clock that ran out and a complete set that a
\* remote left untold since, and a platform nobody was told of is as it was made.
THEOREM WatchersAreTold ==
  Spec => [](\A p \in Platforms : Feed(p)!FeedTypeOK /\ Feed(p)!FeedInv)
<1>1. TypeOK /\ ClocksOK /\ GoneOK /\ ToldOK =>
        \A p \in Platforms : Feed(p)!FeedTypeOK /\ Feed(p)!FeedInv
  <2>. SUFFICES ASSUME TypeOK, ClocksOK, GoneOK, ToldOK, NEW q \in Platforms
                PROVE  Feed(q)!FeedTypeOK /\ Feed(q)!FeedInv
    OBVIOUS
  <2>0. Feed(q)!AtRest = Rest /\ Feed(q)!Untold = NotTold
    BY RestFacts DEF Feed!AtRest, Feed!Untold, Rest
  <2>1. Live(q) \in Watch /\ Told(q) \in Watch \cup {NotTold}
    BY LiveFields DEF ToldOK
  <2>2. Feed(q)!FeedTypeOK
    BY <2>0, <2>1 DEF Feed!FeedTypeOK, Feed!View, Live, Told, Watch, ClockMode, ClockState
  <2>3. Live(q).mode = "BREAK" => Live(q).state # "IDLE"
    BY LiveFields DEF ClocksOK, PlatformClockOK, InBreak, State
  <2>4. q \notin platforms => Live(q) = Rest /\ Told(q) = NotTold
    <3>1. SUFFICES ASSUME q \notin platforms PROVE Live(q) = Rest /\ Told(q) = NotTold
      OBVIOUS
    <3>2. /\ clock[q] = ResetToActive /\ active[q] = <<>> /\ attemptChange[q] = FALSE
          /\ browserView[q] = UnknownToBrowser
      BY <3>1 DEF GoneOK
    <3>4. HasCompleteVoteSet(q) = FALSE
      BY <3>2, NobodyVoted
    <3>. QED
      BY <3>2, <3>4, LiveFacts, NewClockFacts, UnknownWatched DEF Rest, ResetToActive, Told, NotTold
  <2>5. Told(q) = NotTold =>
          \/ Live(q) = Rest
          \/ Live(q) \in {[Rest EXCEPT !.mode = "BREAK", !.state = s] : s \in {"RUNNING", "EXPIRED"}}
    BY RestFacts DEF ToldOK, AsMade
  <2>. QED
    BY <2>0, <2>2, <2>3, <2>4, <2>5 DEF Feed!FeedInv, ToldOK, ToldFits, Live, Told
<1>. QED
  BY <1>1, TypeCorrect, ClocksInvariant, GoneInvariant, ToldInvariant, PTL

=============================================================================
