------------------------ MODULE PlatformServiceProofs ------------------------
(* Proofs about the attempt cycle, for all platforms, buttons and durations. *)
EXTENDS PlatformService, TLAPS

USE ActiveDurationAssumption, ServiceAssumption

\* What the clock operators return (platform-clock.ts), for any clock.
LEMMA NewClockFacts ==
  /\ ResetToActive \in Clock
  /\ ~InBreak(ResetToActive)
  /\ ~ResetToActive.running
  /\ State(ResetToActive) = "IDLE"
BY DEF ResetToActive, Clock, ClockMode, InBreak, State

LEMMA BreakClockFacts ==
  ASSUME NEW d \in Nat
  PROVE  /\ Start(ConfigureBreak(d)) \in Clock
         /\ InBreak(Start(ConfigureBreak(d)))
         /\ Start(ConfigureBreak(d)).running
         /\ Start(ConfigureBreak(d)).left = d
BY DEF Clock, ClockMode, InBreak, Start, ConfigureBreak

LEMMA StateFacts ==
  ASSUME NEW c \in Clock
  PROVE  /\ State(c) \in ClockState
         /\ State(c) = "RUNNING" <=> (c.running /\ c.left # 0)
BY DEF Clock, State, ClockState

LEMMA PressFacts ==
  ASSUME NEW c \in Clock
  PROVE  /\ HandleChiefClockPress(c) \in Clock
         /\ ~InBreak(c) => ~InBreak(HandleChiefClockPress(c))
BY NewClockFacts DEF HandleChiefClockPress, Start, Clock, ClockMode, InBreak

LEMMA AfterResetFacts ==
  ASSUME NEW c \in Clock
  PROVE  /\ AfterReset(c) \in Clock
         /\ InBreak(c) => AfterReset(c) = c
         /\ ~InBreak(c) => AfterReset(c) = ResetToActive
         /\ ~InBreak(AfterReset(c)) => State(AfterReset(c)) = "IDLE"
BY NewClockFacts DEF AfterReset

LEMMA ElapseFacts ==
  ASSUME NEW c \in Clock
  PROVE  /\ Elapse(c) \in Clock
         /\ InBreak(Elapse(c)) <=> InBreak(c)
         /\ Elapse(c).running = c.running
         /\ State(Elapse(c)) = "RUNNING" => State(c) = "RUNNING"
         /\ c.running => Elapse(c).left = Sooner(c.left)
<1>1. CASE State(c) = "RUNNING"
  <2>1. c.left \in Nat /\ c.left > 0
    BY <1>1, StateFacts DEF Clock
  <2>2. Elapse(c) = [c EXCEPT !.left = c.left - 1]
    BY <1>1 DEF Elapse
  <2>. QED
    BY <1>1, <2>1, <2>2 DEF Clock, InBreak, Sooner
<1>2. CASE State(c) # "RUNNING"
  <2>1. Elapse(c) = c
    BY <1>2 DEF Elapse
  <2>2. c.running => c.left = 0
    BY <1>2, StateFacts
  <2>. QED
    BY <1>2, <2>1, <2>2 DEF Sooner
<1>. QED
  BY <1>1, <1>2

------------------------------------------------------------------------------
(* Sequences of active remotes (platform.ts): what is shown of their votes. *)

Complete(s) == \A r \in Roles : VotesOf(s)[r] # "none"

LEMMA RemoveAtFacts ==
  ASSUME NEW s \in Seq(Remote), NEW i \in DOMAIN s
  PROVE  /\ RemoveAt(s, i) \in Seq(Remote)
         /\ Len(RemoveAt(s, i)) = Len(s) - 1
         /\ DOMAIN RemoveAt(s, i) = 1..(Len(s) - 1)
         /\ \A k \in 1..(Len(s) - 1) :
              RemoveAt(s, i)[k] = s[IF k < i THEN k ELSE k + 1]
<1>1. i \in 1..Len(s) /\ Len(s) \in Nat
  OBVIOUS
<1>. DEFINE front == SubSeq(s, 1, i - 1)
            back == SubSeq(s, i + 1, Len(s))
<1>2. /\ front \in Seq(Remote) /\ Len(front) = i - 1
      /\ \A k \in 1..(i - 1) : front[k] = s[k]
  BY <1>1
<1>3. /\ back \in Seq(Remote) /\ Len(back) = Len(s) - i
      /\ \A k \in 1..(Len(s) - i) : back[k] = s[k + i]
  BY <1>1
<1>4. RemoveAt(s, i) = front \o back
  BY DEF RemoveAt
<1>. HIDE DEF front, back
<1>5. /\ front \o back \in Seq(Remote)
      /\ Len(front \o back) = Len(s) - 1
      /\ \A k \in 1..(Len(s) - 1) :
           (front \o back)[k] = IF k < i THEN front[k] ELSE back[k - (i - 1)]
  BY <1>1, <1>2, <1>3
<1>6. ASSUME NEW k \in 1..(Len(s) - 1)
      PROVE  RemoveAt(s, i)[k] = s[IF k < i THEN k ELSE k + 1]
  <2>1. CASE k < i
    BY <1>1, <1>2, <1>4, <1>5, <2>1
  <2>2. CASE ~(k < i)
    <3>1. k - (i - 1) \in 1..(Len(s) - i) /\ (k - (i - 1)) + i = k + 1
      BY <1>1, <2>2
    <3>. QED
      BY <1>3, <1>4, <1>5, <2>2, <3>1
  <2>. QED
    BY <2>1, <2>2
<1>. QED
  BY <1>1, <1>4, <1>5, <1>6

\* A vote on display is the last button of a remote with that role.
LEMMA VoteFacts ==
  ASSUME NEW s \in Seq(Remote), NEW r \in Roles
  PROVE  /\ VotesOf(s)[r] \in Buttons \cup {"none"}
         /\ Shown(s, r) = {} => VotesOf(s)[r] = "none"
         /\ \A i \in Shown(s, r) : VotesOf(s)[r] = s[i].button
         /\ VotesOf(s)[r] # "none" => \E i \in Shown(s, r) : s[i].button # "none"
<1>1. VotesOf(s)[r] = IF Shown(s, r) = {} THEN "none"
                      ELSE s[CHOOSE i \in Shown(s, r) : TRUE].button
  BY DEF VotesOf
<1>2. Shown(s, r) # {} => (CHOOSE i \in Shown(s, r) : TRUE) \in Shown(s, r)
  OBVIOUS
<1>3. \A i \in Shown(s, r) : i \in DOMAIN s /\ s[i] \in Remote
  BY DEF Shown
<1>4. ASSUME NEW i \in Shown(s, r), NEW j \in Shown(s, r)
      PROVE  i = j
  <2>1. i \in Nat /\ j \in Nat /\ ~(i < j) /\ ~(j < i)
    BY DEF Shown
  <2>. QED
    BY <2>1
<1>. QED
  BY <1>1, <1>2, <1>3, <1>4 DEF Remote

LEMMA VoteTypes ==
  ASSUME NEW s \in Seq(Remote)
  PROVE  VotesOf(s) \in VoteSet
<1>1. DOMAIN VotesOf(s) = Roles /\ VotesOf(s) = [r \in Roles |-> VotesOf(s)[r]]
  BY DEF VotesOf
<1>. QED
  BY <1>1, VoteFacts DEF VoteSet

\* Three votes come from three remotes, each with a role of its own.
LEMMA CompleteFacts ==
  ASSUME NEW s \in Seq(Remote), Len(s) <= MaxActive, Complete(s)
  PROVE  /\ Len(s) = MaxActive
         /\ \A i, j \in DOMAIN s : s[i].role = s[j].role => i = j
<1>1. \A r \in Roles : \E i \in DOMAIN s : s[i].role = r
  BY VoteFacts DEF Complete, Shown
<1>2. PICK l, c, r \in DOMAIN s :
        s[l].role = "left" /\ s[c].role = "chief" /\ s[r].role = "right"
  BY <1>1 DEF Roles
<1>3. l # c /\ l # r /\ c # r
  BY <1>2
<1>4. DOMAIN s = 1..Len(s) /\ Len(s) \in Nat /\ Len(s) <= 3
  <2>1. DOMAIN s = 1..Len(s) /\ Len(s) \in Nat
    OBVIOUS
  <2>. QED
    BY <2>1 DEF MaxActive
<1>5. Len(s) = 3 /\ \A i \in DOMAIN s : i \in {l, c, r}
  BY <1>3, <1>4
<1>. QED
  BY <1>2, <1>5 DEF MaxActive

LEMMA ClearedVotes ==
  ASSUME NEW s \in Seq(Remote), \A i \in DOMAIN s : s[i].button = "none"
  PROVE  ~Complete(s)
BY VoteFacts DEF Complete, Shown, Roles

\* Of a full crew only one is chief, so its vote is the chief's.
LEMMA ChiefPressed ==
  ASSUME NEW s \in Seq(Remote), Len(s) <= MaxActive,
         NEW i \in DOMAIN s, s[i].role = "chief", s[i].button = "none"
  PROVE  ~Complete(s)
<1>. SUFFICES ASSUME Complete(s) PROVE FALSE
  OBVIOUS
<1>1. PICK j \in Shown(s, "chief") : s[j].button # "none"
  BY VoteFacts DEF Complete, Roles
<1>2. j = i
  BY <1>1, CompleteFacts DEF Shown
<1>. QED
  BY <1>1, <1>2

\* The votes of the other roles stay when a remote leaves.
LEMMA LeavingVotes ==
  ASSUME NEW s \in Seq(Remote), NEW i \in DOMAIN s,
         NEW r \in Roles, r # s[i].role
  PROVE  VotesOf(RemoveAt(s, i))[r] = VotesOf(s)[r]
<1>. DEFINE t == RemoveAt(s, i)
            old(k) == IF k < i THEN k ELSE k + 1
            new(k) == IF k < i THEN k ELSE k - 1
<1>1. /\ t \in Seq(Remote) /\ DOMAIN t = 1..(Len(s) - 1)
      /\ \A k \in 1..(Len(s) - 1) : t[k] = s[old(k)]
      /\ DOMAIN s = 1..Len(s) /\ Len(s) \in Nat /\ i \in 1..Len(s)
  BY RemoveAtFacts
<1>. HIDE DEF t
<1>2. /\ \A k \in DOMAIN t : old(k) \in DOMAIN s /\ old(k) # i /\ new(old(k)) = k
      /\ \A k \in DOMAIN s : k # i => new(k) \in DOMAIN t /\ old(new(k)) = k
      /\ \A j, k \in DOMAIN t : j < k <=> old(j) < old(k)
      /\ \A j, k \in DOMAIN s : j # i /\ k # i => (j < k <=> new(j) < new(k))
  BY <1>1
<1>3. ASSUME NEW k \in DOMAIN s, k # i
      PROVE  new(k) \in DOMAIN t /\ t[new(k)] = s[k]
  BY <1>1, <1>2, <1>3
<1>4. ASSUME NEW k \in Shown(t, r)
      PROVE  old(k) \in Shown(s, r) /\ s[old(k)] = t[k]
  <2>1. k \in DOMAIN t /\ t[k].role = r /\ s[old(k)] = t[k]
    BY <1>1 DEF Shown
  <2>2. ASSUME NEW j \in DOMAIN s, j > old(k)
        PROVE  s[j].role # r
    <3>1. CASE j = i
      BY <3>1
    <3>2. CASE j # i
      <4>1. new(j) \in DOMAIN t /\ t[new(j)] = s[j]
        BY <1>3, <3>2
      <4>2. new(j) > k
        BY <1>1, <1>2, <2>1, <2>2, <3>2
      <4>. QED
        BY <4>1, <4>2 DEF Shown
    <3>. QED
      BY <3>1, <3>2
  <2>. QED
    BY <1>2, <2>1, <2>2 DEF Shown
<1>5. ASSUME NEW k \in Shown(s, r)
      PROVE  new(k) \in Shown(t, r) /\ t[new(k)] = s[k]
  <2>1. k \in DOMAIN s /\ s[k].role = r /\ k # i
    BY DEF Shown
  <2>2. ASSUME NEW j \in DOMAIN t, j > new(k)
        PROVE  t[j].role # r
    <3>1. old(j) \in DOMAIN s /\ s[old(j)] = t[j]
      BY <1>1, <1>2
    <3>2. old(j) > k
      BY <1>1, <1>2, <2>1, <2>2
    <3>. QED
      BY <3>1, <3>2 DEF Shown
  <2>. QED
    BY <1>3, <2>1, <2>2 DEF Shown
<1>6. CASE Shown(s, r) = {}
  <2>1. Shown(t, r) = {}
    BY <1>4, <1>6
  <2>. QED
    BY <1>1, <1>6, <2>1, VoteFacts DEF t
<1>7. CASE Shown(s, r) # {}
  <2>1. PICK k \in Shown(s, r) : TRUE
    BY <1>7
  <2>. QED
    BY <1>1, <1>5, <2>1, VoteFacts DEF t
<1>. QED
  BY <1>6, <1>7

------------------------------------------------------------------------------
(* Types.                                                                  *)

\* What is sent about a platform has the type of a snapshot.
SnapshotsTypeOK ==
  \A p \in Platforms : /\ RefereeVotes(p) \in VoteSet
                       /\ Snapshot(p) \in BrowserSnapshots
                       /\ EspSnapshot(p) \in EspSnapshots

LEMMA SnapshotTypes == PlatformsTypeOK => SnapshotsTypeOK
<1>. SUFFICES ASSUME PlatformsTypeOK, NEW p \in Platforms
              PROVE  /\ RefereeVotes(p) \in VoteSet
                     /\ Snapshot(p) \in BrowserSnapshots
                     /\ EspSnapshot(p) \in EspSnapshots
  BY DEF SnapshotsTypeOK
<1>1. RefereeVotes(p) \in VoteSet
  BY VoteTypes DEF PlatformsTypeOK, RefereeVotes
<1>2. clock[p] \in Clock /\ attemptChange[p] \in BOOLEAN
  BY DEF PlatformsTypeOK
<1>3. clock[p].mode \in ClockMode /\ State(clock[p]) \in ClockState
  BY <1>2, StateFacts DEF Clock
<1>. QED
  BY <1>1, <1>2, <1>3 DEF Snapshot, EspSnapshot, BrowserSnapshots, EspSnapshots

LEMMA SnapshotTypesNext == PlatformsTypeOK' => SnapshotsTypeOK'
BY SnapshotTypes, PTL

\* Sending an update keeps the types of the views.
LEMMA SendTypes ==
  ASSUME ViewsTypeOK, PlatformsTypeOK'
  PROVE  /\ \A p \in Platforms : BroadcastPlatformUpdate(p) => ViewsTypeOK'
         /\ EmitGlobalUpdate /\ PushAllPlatformStateToEsp
              /\ untold' = Assign(untold, platforms, {}) => ViewsTypeOK'
         /\ \A S : BroadcastEach(S) /\ untold' \in [Platforms -> SUBSET Roles]
                   => ViewsTypeOK'
<1>. USE SnapshotTypesNext DEF ViewsTypeOK, SnapshotsTypeOK
<1>1. ASSUME NEW p \in Platforms, BroadcastPlatformUpdate(p)
      PROVE  ViewsTypeOK'
  BY <1>1 DEF BroadcastPlatformUpdate
<1>2. ASSUME EmitGlobalUpdate, PushAllPlatformStateToEsp,
             untold' = Assign(untold, platforms, {})
      PROVE  ViewsTypeOK'
  <2>1. untold' \in [Platforms -> SUBSET Roles]
    BY <1>2 DEF Assign
  <2>. QED
    BY <1>2, <2>1 DEF EmitGlobalUpdate, PushAllPlatformStateToEsp
<1>3. ASSUME NEW S, BroadcastEach(S), untold' \in [Platforms -> SUBSET Roles]
      PROVE  ViewsTypeOK'
  BY <1>3 DEF BroadcastEach
<1>. QED
  BY <1>1, <1>2, <1>3

LEMMA InitTypes == Init => TypeOK
<1>. SUFFICES ASSUME Init PROVE TypeOK
  OBVIOUS
<1>1. PlatformsTypeOK
  BY NewClockFacts DEF Init, PlatformsTypeOK, MaxActive, Timer, Off
<1>2. TimersTypeOK
  BY DEF Init, TimersTypeOK, Timer, Off
<1>3. ViewsTypeOK
  BY DEF Init, ViewsTypeOK, UnknownToBrowser, UnknownToEsp, BrowserSnapshots,
         EspSnapshots, VoteSet, ClockState, NoVotes
<1>. QED
  BY <1>1, <1>2, <1>3 DEF TypeOK

LEMMA VotesClearedFacts ==
  ASSUME PlatformsTypeOK, NEW p \in Platforms
  PROVE  /\ VotesCleared(p) \in Seq(Remote)
         /\ Len(VotesCleared(p)) <= MaxActive
         /\ \A i \in DOMAIN VotesCleared(p) : VotesCleared(p)[i].button = "none"
<1>1. /\ active[p] \in Seq(Remote)
      /\ DOMAIN active[p] = 1..Len(active[p]) /\ Len(active[p]) \in Nat
      /\ Len(active[p]) <= MaxActive
  BY DEF PlatformsTypeOK
<1>2. ASSUME NEW i \in DOMAIN active[p]
      PROVE  VotesCleared(p)[i] \in Remote /\ VotesCleared(p)[i].button = "none"
  <2>1. active[p][i] \in Remote
    BY <1>1
  <2>2. VotesCleared(p)[i] = [active[p][i] EXCEPT !.button = "none"]
    BY DEF VotesCleared
  <2>. QED
    BY <2>1, <2>2 DEF Remote
<1>3. VotesCleared(p) \in [1..Len(active[p]) -> Remote]
  BY <1>1, <1>2 DEF VotesCleared
<1>. QED
  BY <1>1, <1>2, <1>3 DEF VotesCleared

\* A button is pressed; a referee comes.
Pressed(s, i, b) == [s EXCEPT ![i].button = b]

LEMMA PressedFacts ==
  ASSUME NEW s \in Seq(Remote), NEW i \in DOMAIN s, NEW b \in Buttons \cup {"none"}
  PROVE  /\ Pressed(s, i, b) \in Seq(Remote)
         /\ Len(Pressed(s, i, b)) = Len(s)
         /\ DOMAIN Pressed(s, i, b) = DOMAIN s
         /\ \A j \in DOMAIN s : Pressed(s, i, b)[j].role = s[j].role
         /\ Pressed(s, i, b)[i].button = b
         /\ \A j \in DOMAIN s : j # i => Pressed(s, i, b)[j] = s[j]
<1>. DEFINE t == Pressed(s, i, b)
<1>0. s[i] \in Remote
  OBVIOUS
<1>1. [s[i] EXCEPT !.button = b] \in Remote
  BY <1>0 DEF Remote
<1>2. s \in [1..Len(s) -> Remote] /\ Len(s) \in Nat
  OBVIOUS
<1>3. t \in [1..Len(s) -> Remote]
  BY <1>1, <1>2 DEF Pressed
<1>4. t \in Seq(Remote) /\ Len(t) = Len(s)
  BY <1>2, <1>3
<1>. QED
  BY <1>0, <1>1, <1>2, <1>4 DEF Remote, Pressed

LEMMA ActivePlatform ==
  ASSUME PlatformsTypeOK, NEW p \in Platforms, NEW t \in Seq(Remote),
         Len(t) <= MaxActive, active' = [active EXCEPT ![p] = t]
  PROVE  /\ active' \in [Platforms -> Seq(Remote)]
         /\ \A q \in Platforms : Len(active'[q]) <= MaxActive
         /\ active'[p] = t
         /\ \A q \in Platforms : q # p => active'[q] = active[q]
BY DEF PlatformsTypeOK

\* What a vote and a clock press do to the active remotes.
LEMMA PressingFacts ==
  ASSUME PlatformsTypeOK, NEW p \in Platforms, NEW i, NEW b \in Buttons \cup {"none"},
         i \in DOMAIN active[p], active' = [active EXCEPT ![p][i].button = b]
  PROVE  /\ active' \in [Platforms -> Seq(Remote)]
         /\ \A q \in Platforms : Len(active'[q]) <= MaxActive
         /\ active'[p] = Pressed(active[p], i, b)
         /\ \A q \in Platforms : q # p => active'[q] = active[q]
<1>. DEFINE t == Pressed(active[p], i, b)
<1>1. active[p] \in Seq(Remote) /\ Len(active[p]) <= MaxActive
  BY DEF PlatformsTypeOK
<1>2. t \in Seq(Remote) /\ Len(t) <= MaxActive
  BY <1>1, PressedFacts
<1>3. active' = [active EXCEPT ![p] = t]
  BY DEF Pressed
<1>. HIDE DEF t
<1>. QED
  BY <1>2, <1>3, ActivePlatform DEF t

LEMMA CastVoteTypes ==
  ASSUME TypeOK, NEW p \in Platforms, NEW i \in 1..MaxActive, NEW b \in Buttons,
         CastVote(p, i, b)
  PROVE  TypeOK'
<1>. USE DEF TypeOK
<1>1. PlatformsTypeOK'
  <2>1. /\ active' \in [Platforms -> Seq(Remote)]
        /\ \A q \in Platforms : Len(active'[q]) <= MaxActive
    BY PressingFacts DEF CastVote
  <2>. QED
    BY <2>1 DEF CastVote, PlatformsTypeOK
<1>2. VoteResetDelay \in Timer
  BY DEF VoteResetDelay, Timer
<1>3. RefereeVotes(p)' \in VoteSet
  BY <1>1, SnapshotTypesNext DEF SnapshotsTypeOK
<1>4. [left |-> DecisionDelay, votes |-> RefereeVotes(p)'] \in Report
  BY <1>3 DEF Report
<1>5. TimersTypeOK'
  <2>1. CASE HasCompleteVoteSet(p)'
    <3>. DEFINE report == [left |-> DecisionDelay, votes |-> RefereeVotes(p)']
    <3>1. /\ UNCHANGED <<breakReset, tick>>
          /\ voteReset' = [voteReset EXCEPT ![p] = VoteResetDelay]
          /\ decisions' = [decisions EXCEPT ![p] = Append(@, report)]
      BY <2>1 DEF CastVote
    <3>2. report \in Report
      BY <1>4
    <3>. HIDE DEF report
    <3>3. decisions[p] \in Seq(Report) /\ Append(decisions[p], report) \in Seq(Report)
      BY <3>2 DEF TimersTypeOK
    <3>. QED
      BY <1>2, <3>1, <3>3 DEF TimersTypeOK
  <2>2. CASE ~HasCompleteVoteSet(p)'
    BY <2>2 DEF CastVote, TimersTypeOK
  <2>. QED
    BY <2>1, <2>2
<1>6. ViewsTypeOK'
  BY <1>1, SendTypes DEF CastVote
<1>. QED
  BY <1>1, <1>5, <1>6

\* What the passing of time does to a queue of reports.
LaterReports(s) == [i \in DOMAIN s |-> [s[i] EXCEPT !.left = Sooner(@)]]

LEMMA LaterReportsFacts ==
  ASSUME NEW s \in Seq(Report)
  PROVE  /\ LaterReports(s) \in Seq(Report)
         /\ DOMAIN LaterReports(s) = DOMAIN s
         /\ \A i \in DOMAIN s : LaterReports(s)[i].left = Sooner(s[i].left)
<1>1. DOMAIN s = 1..Len(s) /\ Len(s) \in Nat
  OBVIOUS
<1>2. ASSUME NEW i \in DOMAIN s
      PROVE  /\ LaterReports(s)[i] \in Report
             /\ LaterReports(s)[i].left = Sooner(s[i].left)
  <2>1. s[i] \in Report
    OBVIOUS
  <2>2. Sooner(s[i].left) \in Nat
    BY <2>1 DEF Report, Sooner
  <2>3. LaterReports(s)[i] = [s[i] EXCEPT !.left = Sooner(s[i].left)]
    BY DEF LaterReports
  <2>. QED
    BY <2>1, <2>2, <2>3 DEF Report
<1>3. LaterReports(s) \in [1..Len(s) -> Report]
  BY <1>1, <1>2 DEF LaterReports
<1>. QED
  BY <1>1, <1>2, <1>3 DEF LaterReports

LEMMA LeavesTellingTypes ==
  ASSUME TypeOK, NEW p \in Platforms, NEW i \in Leaving(p), NEW S, OthersUnmoved,
         LeavesTelling(p, i, S)
  PROVE  TypeOK'
<1>. USE DEF TypeOK
<1>1. active[p] \in Seq(Remote) /\ Len(active[p]) <= MaxActive /\ i \in DOMAIN active[p]
  BY DEF PlatformsTypeOK, Leaving
<1>2. active[p][i].role \in Roles
  <2>1. active[p][i] \in Remote
    BY <1>1
  <2>. QED
    BY <2>1 DEF Remote
<1>3. /\ RemoveAt(active[p], i) \in Seq(Remote)
      /\ Len(RemoveAt(active[p], i)) <= MaxActive
  BY <1>1, RemoveAtFacts DEF MaxActive
<1>4. active' = [active EXCEPT ![p] = RemoveAt(active[p], i)]
  BY DEF LeavesTelling, Without
<1>5. PlatformsTypeOK'
  BY <1>3, <1>4, ActivePlatform DEF OthersUnmoved, PlatformsTypeOK
<1>6. TimersTypeOK'
  BY DEF OthersUnmoved, TimersTypeOK, timerVars
<1>7. untold' \in [Platforms -> SUBSET Roles]
  BY <1>2 DEF LeavesTelling, ViewsTypeOK
<1>8. ViewsTypeOK'
  BY <1>5, <1>7, SendTypes DEF LeavesTelling
<1>. QED
  BY <1>5, <1>6, <1>8

\* The case of an appended remote, after an activation or a replacement.
LEMMA ArrivalTypes ==
  ASSUME TypeOK, NEW p \in Platforms, NEW t \in Seq(Remote), Len(t) <= MaxActive,
         active' = [active EXCEPT ![p] = t], OthersUnmoved, BroadcastPlatformUpdate(p)
  PROVE  TypeOK'
<1>. USE DEF TypeOK
<1>1. PlatformsTypeOK'
  BY ActivePlatform DEF OthersUnmoved, PlatformsTypeOK
<1>2. TimersTypeOK'
  BY DEF OthersUnmoved, TimersTypeOK, timerVars
<1>3. ViewsTypeOK'
  BY <1>1, SendTypes
<1>. QED
  BY <1>1, <1>2, <1>3

\* The remotes after an activation and after a replacement that succeeds.
LEMMA ActivateFacts ==
  ASSUME PlatformsTypeOK, NEW p \in Platforms, NEW x \in Arriving, ActivateRemote(p, x)
  PROVE  /\ Append(active[p], x) \in Seq(Remote)
         /\ Len(Append(active[p], x)) <= MaxActive
         /\ active' = [active EXCEPT ![p] = Append(active[p], x)]
<1>1. active[p] \in Seq(Remote) /\ Len(active[p]) \in Nat /\ x \in Remote
  BY DEF PlatformsTypeOK, Arriving
<1>. QED
  BY <1>1 DEF ActivateRemote, MaxActive

LEMMA ReplacedFacts ==
  ASSUME PlatformsTypeOK, NEW p \in Platforms, NEW i \in Leaving(p), NEW x \in Arriving
  PROVE  /\ Append(RemoveAt(active[p], i), x) \in Seq(Remote)
         /\ Len(Append(RemoveAt(active[p], i), x)) <= MaxActive
<1>1. /\ active[p] \in Seq(Remote) /\ Len(active[p]) <= MaxActive
      /\ i \in DOMAIN active[p] /\ x \in Remote
  BY DEF PlatformsTypeOK, Leaving, Arriving
<1>2. RemoveAt(active[p], i) \in Seq(Remote) /\ Len(RemoveAt(active[p], i)) = Len(active[p]) - 1
  BY <1>1, RemoveAtFacts
<1>. QED
  BY <1>1, <1>2

\* The director's moves touch nothing but remotes and what is told of them.
LEMMA MovedOthers == MoveRemotes => OthersUnmoved
BY DEF MoveRemotes, ActivateRemote, DeactivateRemote, ReplaceRemote, TransferRemote

LEMMA MoveTypes == TypeOK /\ MoveRemotes => TypeOK'
<1>. SUFFICES ASSUME TypeOK, MoveRemotes PROVE TypeOK'
  OBVIOUS
<1>. USE DEF TypeOK
<1>1. ASSUME NEW p \in Platforms, NEW x \in Arriving, ActivateRemote(p, x)
      PROVE  TypeOK'
  BY <1>1, ActivateFacts, ArrivalTypes DEF ActivateRemote
<1>2. ASSUME NEW p \in Platforms, NEW i \in 1..MaxActive, DeactivateRemote(p, i)
      PROVE  TypeOK'
  BY <1>2, LeavesTellingTypes DEF DeactivateRemote
<1>3. ASSUME NEW p \in Platforms, NEW i \in 1..MaxActive, ReplaceRemote(p, i)
      PROVE  TypeOK'
  <2>1. i \in Leaving(p) /\ OthersUnmoved
    BY <1>3 DEF ReplaceRemote
  <2>2. ASSUME NEW x \in Arriving, BroadcastPlatformUpdate(p),
               active' = [active EXCEPT ![p] = Append(RemoveAt(@, i), x)]
        PROVE  TypeOK'
    <3>. DEFINE t == Append(RemoveAt(active[p], i), x)
    <3>1. t \in Seq(Remote) /\ Len(t) <= MaxActive
      BY <2>1, ReplacedFacts
    <3>2. active' = [active EXCEPT ![p] = t]
      BY <2>2
    <3>. HIDE DEF t
    <3>. QED
      BY <2>1, <2>2, <3>1, <3>2, ArrivalTypes
  <2>. QED
    BY <1>3, <2>1, <2>2, LeavesTellingTypes DEF ReplaceRemote
<1>4. ASSUME NEW named, NEW target, TransferRemote(named, target)
      PROVE  TypeOK'
  <2>. DEFINE notified == IF named \in platforms THEN {named, target} ELSE {}
  <2>1. OthersUnmoved
    BY <1>4 DEF TransferRemote
  <2>2. CASE \E p \in platforms : \E i \in Leaving(p) : LeavesTelling(p, i, notified)
    <3>. HIDE DEF notified
    <3>. QED
      BY <2>1, <2>2, LeavesTellingTypes DEF PlatformsTypeOK
  <2>3. CASE /\ UNCHANGED active
             /\ BroadcastEach(notified)
             /\ untold' = [p \in Platforms |-> IF p \in notified THEN {} ELSE untold[p]]
    <3>. HIDE DEF notified
    <3>1. PlatformsTypeOK' /\ TimersTypeOK'
      BY <2>1, <2>3 DEF OthersUnmoved, PlatformsTypeOK, TimersTypeOK, timerVars
    <3>2. untold' \in [Platforms -> SUBSET Roles]
      BY <2>3 DEF ViewsTypeOK
    <3>. QED
      BY <2>3, <3>1, <3>2, SendTypes
  <2>. QED
    BY <1>4, <2>2, <2>3 DEF TransferRemote
<1>. QED
  BY <1>1, <1>2, <1>3, <1>4 DEF MoveRemotes

LEMMA StepTypes == TypeOK /\ [Next]_vars => TypeOK'
<1>. SUFFICES ASSUME TypeOK, [Next]_vars PROVE TypeOK'
  OBVIOUS
<1>. USE DEF TypeOK
<1>1. ASSUME NEW p \in Platforms, NEW i \in 1..MaxActive, NEW b \in Buttons, CastVote(p, i, b)
      PROVE  TypeOK'
  BY <1>1, CastVoteTypes
<1>2. ASSUME NEW p \in Platforms, NEW i \in 1..MaxActive, PressClockButton(p, i)
      PROVE  TypeOK'
  <2>. USE <1>2
  <2>1. PlatformsTypeOK'
    <3>1. /\ active' \in [Platforms -> Seq(Remote)]
          /\ \A q \in Platforms : Len(active'[q]) <= MaxActive
      BY PressingFacts DEF PressClockButton
    <3>. QED
      BY <3>1, PressFacts DEF PressClockButton, PlatformsTypeOK
  <2>2. TimersTypeOK'
    BY DEF PressClockButton, TimersTypeOK, timerVars, Timer, Off
  <2>3. ViewsTypeOK'
    BY <2>1, SendTypes DEF PressClockButton
  <2>. QED
    BY <2>1, <2>2, <2>3
<1>3. ASSUME NEW p \in Platforms, ResetAttempt(p)
      PROVE  TypeOK'
  <2>. USE <1>3
  <2>1. PlatformsTypeOK'
    <3>1. CASE p \in platforms
      <4>1. clock[p] \in Clock
        BY DEF PlatformsTypeOK
      <4>2. /\ clock' = [clock EXCEPT ![p] = AfterReset(clock[p])]
            /\ active' = [active EXCEPT ![p] = VotesCleared(p)]
            /\ UNCHANGED <<platforms, attemptChange, globalBreak>>
        BY <3>1 DEF ResetAttempt
      <4>3. AfterReset(clock[p]) \in Clock
        BY <4>1, AfterResetFacts
      <4>4. /\ active' \in [Platforms -> Seq(Remote)]
            /\ \A q \in Platforms : Len(active'[q]) <= MaxActive
        BY <4>2, VotesClearedFacts, ActivePlatform
      <4>. QED
        BY <4>2, <4>3, <4>4 DEF PlatformsTypeOK
    <3>2. CASE p \notin platforms
      BY <3>2 DEF ResetAttempt, PlatformsTypeOK
    <3>. QED
      BY <3>1, <3>2
  <2>2. TimersTypeOK'
    BY DEF ResetAttempt, TimersTypeOK, timerVars, Timer, Off
  <2>3. ViewsTypeOK'
    BY <2>1, SendTypes DEF ResetAttempt, ViewsTypeOK, viewVars
  <2>. QED
    BY <2>1, <2>2, <2>3
<1>4. ASSUME NEW p \in Platforms, ToggleAttemptChange(p)
      PROVE  TypeOK'
  <2>. USE <1>4
  <2>1. PlatformsTypeOK'
    BY DEF ToggleAttemptChange, PlatformsTypeOK, platformVars
  <2>2. TimersTypeOK'
    BY DEF ToggleAttemptChange, TimersTypeOK, timerVars, Timer, Off
  <2>3. ViewsTypeOK'
    BY <2>1, SendTypes DEF ToggleAttemptChange
  <2>. QED
    BY <2>1, <2>2, <2>3
<1>5. CASE MoveRemotes
  BY <1>5, MoveTypes
<1>7. ASSUME NEW p \in Platforms, NEW d \in BreakDurations, StartPlatformBreak(p, d)
      PROVE  TypeOK'
  <2>. USE <1>7
  <2>1. PlatformsTypeOK'
    BY BreakClockFacts DEF StartPlatformBreak, PlatformsTypeOK, platformVars
  <2>2. TimersTypeOK'
    BY DEF StartPlatformBreak, ScheduleBreakReset, TimersTypeOK, timerVars, Timer, Off
  <2>3. ViewsTypeOK'
    BY <2>1, SendTypes DEF StartPlatformBreak
  <2>. QED
    BY <2>1, <2>2, <2>3
<1>8. ASSUME NEW d \in BreakDurations, StartGlobalBreak(d)
      PROVE  TypeOK'
  <2>. USE <1>8
  <2>1. PlatformsTypeOK'
    BY BreakClockFacts DEF StartGlobalBreak, PlatformsTypeOK, Assign, Timer
  <2>2. TimersTypeOK'
    BY DEF StartGlobalBreak, ScheduleBreakReset, Assign, TimersTypeOK, timerVars, Timer, Off
  <2>3. ViewsTypeOK'
    BY <2>1, SendTypes DEF StartGlobalBreak
  <2>. QED
    BY <2>1, <2>2, <2>3
<1>9. ASSUME GetGlobalBreak
      PROVE  TypeOK'
  <2>. USE <1>9
  <2>1. PlatformsTypeOK'
    BY DEF GetGlobalBreak, PlatformsTypeOK, platformVars, Timer, Off
  <2>2. TimersTypeOK'
    BY DEF GetGlobalBreak, TimersTypeOK, timerVars, Timer, Off
  <2>3. ViewsTypeOK'
    BY DEF GetGlobalBreak, ViewsTypeOK, viewVars
  <2>. QED
    BY <2>1, <2>2, <2>3
<1>10. ASSUME NEW p \in Platforms, CancelPlatformBreak(p)
      PROVE  TypeOK'
  <2>. USE <1>10
  <2>1. PlatformsTypeOK'
    BY NewClockFacts DEF CancelPlatformBreak, PlatformsTypeOK, platformVars
  <2>2. TimersTypeOK'
    BY DEF CancelPlatformBreak, TimersTypeOK, timerVars, Timer, Off
  <2>3. ViewsTypeOK'
    BY <2>1, SendTypes DEF CancelPlatformBreak
  <2>. QED
    BY <2>1, <2>2, <2>3
<1>11. ASSUME CancelGlobalBreak
      PROVE  TypeOK'
  <2>. USE <1>11
  <2>1. PlatformsTypeOK'
    BY NewClockFacts DEF CancelGlobalBreak, PlatformsTypeOK, Assign, Timer, Off
  <2>2. TimersTypeOK'
    BY DEF CancelGlobalBreak, Assign, TimersTypeOK, timerVars, Timer, Off
  <2>3. ViewsTypeOK'
    BY <2>1, SendTypes DEF CancelGlobalBreak
  <2>. QED
    BY <2>1, <2>2, <2>3
<1>12. ASSUME NEW p \in Platforms, CreatePlatform(p)
      PROVE  TypeOK'
  <2>. USE <1>12
  <2>1. PlatformsTypeOK'
    BY DEF CreatePlatform, PlatformsTypeOK, platformVars
  <2>2. TimersTypeOK'
    BY DEF CreatePlatform, TimersTypeOK, timerVars, Timer, Off
  <2>3. ViewsTypeOK'
    BY DEF CreatePlatform, ViewsTypeOK, viewVars
  <2>. QED
    BY <2>1, <2>2, <2>3
<1>13. ASSUME NEW p \in Platforms, EnsurePlatform(p)
      PROVE  TypeOK'
  <2>. USE <1>13
  <2>0. /\ active' \in [Platforms -> Seq(Remote)]
        /\ \A q \in Platforms : Len(active'[q]) <= MaxActive
    <3>1. KeyboardRemotes \in Seq(Remote) /\ Len(KeyboardRemotes) <= MaxActive
      BY DEF KeyboardRemotes, Remote, Roles, MaxActive
    <3>. QED
      BY <3>1, ActivePlatform DEF EnsurePlatform
  <2>1. CASE globalBreak > 0
    <3>1. globalBreak \in Nat
      BY <2>1 DEF PlatformsTypeOK, Timer, Off
    <3>2. /\ clock' = [clock EXCEPT ![p] = Start(ConfigureBreak(globalBreak))]
          /\ breakReset' = ScheduleBreakReset({p}, globalBreak)
          /\ tick' = [tick EXCEPT ![p] = TickPeriod]
          /\ UNCHANGED globalBreak
      BY <2>1 DEF EnsurePlatform, JoinBreak
    <3>3. clock' \in [Platforms -> Clock]
      BY <3>1, <3>2, BreakClockFacts DEF PlatformsTypeOK
    <3>4. PlatformsTypeOK'
      BY <2>0, <3>2, <3>3 DEF EnsurePlatform, PlatformsTypeOK
    <3>5. TimersTypeOK'
      BY <3>1, <3>2 DEF EnsurePlatform, ScheduleBreakReset, TimersTypeOK, Timer
    <3>. QED
      BY <3>4, <3>5 DEF EnsurePlatform, ViewsTypeOK, viewVars
  <2>2. CASE ~(globalBreak > 0)
    <3>1. globalBreak' = Off /\ UNCHANGED <<clock, breakReset, tick>>
      BY <2>2 DEF EnsurePlatform
    <3>2. PlatformsTypeOK'
      BY <2>0, <3>1 DEF EnsurePlatform, PlatformsTypeOK, Timer
    <3>3. TimersTypeOK'
      BY <3>1 DEF EnsurePlatform, TimersTypeOK
    <3>. QED
      BY <3>2, <3>3 DEF EnsurePlatform, ViewsTypeOK, viewVars
  <2>. QED
    BY <2>1, <2>2
<1>14. ASSUME NEW p \in Platforms, DeletePlatform(p)
      PROVE  TypeOK'
  <2>. USE <1>14
  <2>1. PlatformsTypeOK'
    <3>1. <<>> \in Seq(Remote) /\ Len(<<>>) <= MaxActive
      BY DEF MaxActive
    <3>2. /\ active' \in [Platforms -> Seq(Remote)]
          /\ \A q \in Platforms : Len(active'[q]) <= MaxActive
      BY <3>1, ActivePlatform DEF DeletePlatform
    <3>. QED
      BY <3>2, NewClockFacts DEF DeletePlatform, PlatformsTypeOK
  <2>2. TimersTypeOK'
    BY DEF DeletePlatform, TimersTypeOK, timerVars, Timer, Off
  <2>3. ViewsTypeOK'
    BY <2>1 DEF DeletePlatform, ViewsTypeOK, UnknownToBrowser, UnknownToEsp, BrowserSnapshots,
       EspSnapshots, VoteSet, ClockState, NoVotes
  <2>. QED
    BY <2>1, <2>2, <2>3
<1>15. ASSUME NEW p \in Platforms, VoteResetFires(p)
      PROVE  TypeOK'
  <2>. USE <1>15
  <2>1. PlatformsTypeOK'
    <3>1. CASE ResetClears(p)
      <4>1. clock[p] \in Clock
        BY DEF PlatformsTypeOK
      <4>2. /\ clock' = [clock EXCEPT ![p] = AfterReset(clock[p])]
            /\ active' = [active EXCEPT ![p] = VotesCleared(p)]
            /\ UNCHANGED <<platforms, attemptChange, globalBreak>>
        BY <3>1 DEF VoteResetFires
      <4>3. AfterReset(clock[p]) \in Clock
        BY <4>1, AfterResetFacts
      <4>4. /\ active' \in [Platforms -> Seq(Remote)]
            /\ \A q \in Platforms : Len(active'[q]) <= MaxActive
        BY <4>2, VotesClearedFacts, ActivePlatform
      <4>. QED
        BY <4>2, <4>3, <4>4 DEF PlatformsTypeOK
    <3>2. CASE ~ResetClears(p)
      BY <3>2 DEF VoteResetFires, PlatformsTypeOK
    <3>. QED
      BY <3>1, <3>2
  <2>2. TimersTypeOK'
    BY DEF VoteResetFires, TimersTypeOK, timerVars, Timer, Off
  <2>3. ViewsTypeOK'
    BY <2>1, SendTypes DEF VoteResetFires, ViewsTypeOK, viewVars
  <2>. QED
    BY <2>1, <2>2, <2>3
<1>16. ASSUME NEW p \in Platforms, BreakResetFires(p)
      PROVE  TypeOK'
  <2>. USE <1>16
  <2>1. PlatformsTypeOK'
    BY NewClockFacts DEF BreakResetFires, PlatformsTypeOK, platformVars
  <2>2. TimersTypeOK'
    BY DEF BreakResetFires, TimersTypeOK, timerVars, Timer, Off
  <2>3. ViewsTypeOK'
    BY <2>1, SendTypes DEF BreakResetFires, ViewsTypeOK, viewVars
  <2>. QED
    BY <2>1, <2>2, <2>3
<1>17. ASSUME NEW p \in Platforms, ClockTickFires(p)
      PROVE  TypeOK'
  <2>. USE <1>17
  <2>1. PlatformsTypeOK'
    BY DEF ClockTickFires, PlatformsTypeOK, platformVars
  <2>2. TimersTypeOK'
    BY DEF ClockTickFires, NextTick, TimersTypeOK, timerVars, Timer, Off
  <2>3. ViewsTypeOK'
    BY <2>1, SendTypes DEF ClockTickFires, ViewsTypeOK, viewVars
  <2>. QED
    BY <2>1, <2>2, <2>3
<1>18. ASSUME NEW p \in Platforms, ReportDecision(p)
      PROVE  TypeOK'
  <2>. USE <1>18
  <2>1. PlatformsTypeOK'
    BY DEF ReportDecision, PlatformsTypeOK, platformVars
  <2>2. TimersTypeOK'
    BY DEF ReportDecision, TimersTypeOK, timerVars, Timer, Off
  <2>3. ViewsTypeOK'
    BY DEF ReportDecision, ViewsTypeOK, viewVars
  <2>. QED
    BY <2>1, <2>2, <2>3
<1>19. ASSUME TimePasses
      PROVE  TypeOK'
  <2>. USE <1>19
  <2>1. PlatformsTypeOK'
    BY ElapseFacts DEF TimePasses, PlatformsTypeOK, Sooner, Timer, Off
  <2>2. decisions' \in [Platforms -> Seq(Report)]
    <3>. SUFFICES ASSUME NEW p \in Platforms
                  PROVE  decisions'[p] \in Seq(Report)
      BY DEF TimePasses
    <3>1. decisions[p] \in Seq(Report)
      BY DEF TimersTypeOK
    <3>2. decisions'[p] = LaterReports(decisions[p])
      BY DEF TimePasses, LaterReports
    <3>. QED
      BY <3>1, <3>2, LaterReportsFacts
  <2>3. TimersTypeOK'
    BY <2>2 DEF TimePasses, TimersTypeOK, Sooner, Timer, Off
  <2>4. ViewsTypeOK'
    BY DEF TimePasses, ViewsTypeOK, viewVars
  <2>. QED
    BY <2>1, <2>3, <2>4
<1>20. CASE UNCHANGED vars
  BY <1>20 DEF vars, platformVars, timerVars, viewVars, PlatformsTypeOK,
               TimersTypeOK, ViewsTypeOK
<1>. QED
  BY <1>1, <1>2, <1>3, <1>4, <1>5, <1>7, <1>8, <1>9, <1>10, <1>11, <1>12, <1>13,
     <1>14, <1>15, <1>16, <1>17, <1>18, <1>19, <1>20
  DEF Next, Request, GlobalRequest, TimerFires

\* The variables keep their types and no remaining time falls below zero,
\* for any number of platforms, any buttons and any durations.
THEOREM TypeCorrect == Spec => []TypeOK
BY InitTypes, StepTypes, PTL DEF Spec

------------------------------------------------------------------------------
(* Clocks and their timers.  The inductive invariant says of every platform, *)
(* one that does not exist included, that its clock has the timers it needs. *)

PlatformClockOK(q) ==
  /\ q \notin platforms => clock[q] = ResetToActive
  /\ InBreak(clock[q]) => clock[q].running /\ breakReset[q] = clock[q].left
  /\ ~InBreak(clock[q]) /\ State(clock[q]) = "RUNNING" => tick[q] # Off

ClocksOK == \A q \in Platforms : PlatformClockOK(q)

\* The three ways in which an action keeps a platform's clock in order.
LEMMA UntouchedClock ==
  ASSUME NEW q \in Platforms, PlatformClockOK(q),
         clock'[q] = clock[q], breakReset'[q] = breakReset[q], tick'[q] = tick[q],
         q \in platforms' <=> q \in platforms
  PROVE  PlatformClockOK(q)'
BY DEF PlatformClockOK

LEMMA StoppedClock ==
  ASSUME NEW q \in Platforms, clock'[q] = ResetToActive
  PROVE  PlatformClockOK(q)'
BY NewClockFacts DEF PlatformClockOK

LEMMA StartedBreak ==
  ASSUME NEW q \in Platforms, NEW d \in Nat, q \in platforms',
         clock'[q] = Start(ConfigureBreak(d)), breakReset'[q] = d
  PROVE  PlatformClockOK(q)'
BY BreakClockFacts DEF PlatformClockOK

\* A reset of votes stops an attempt clock and its tick, or touches neither.
LEMMA ClockAfterReset ==
  ASSUME TypeOK, NEW q \in Platforms, PlatformClockOK(q),
         clock'[q] = AfterReset(clock[q]), breakReset'[q] = breakReset[q],
         q \in platforms, q \in platforms'
  PROVE  PlatformClockOK(q)'
<1>1. clock[q] \in Clock
  BY DEF TypeOK, PlatformsTypeOK
<1>2. CASE InBreak(clock[q])
  BY <1>1, <1>2, AfterResetFacts DEF PlatformClockOK
<1>3. CASE ~InBreak(clock[q])
  BY <1>1, <1>3, AfterResetFacts, StoppedClock
<1>. QED
  BY <1>2, <1>3

LEMMA TimePassesClocks ==
  ASSUME TypeOK, ClocksOK, TimePasses, NEW q \in Platforms
  PROVE  PlatformClockOK(q)'
<1>1. /\ PlatformClockOK(q)
      /\ clock[q] \in Clock
      /\ breakReset[q] \in Timer
      /\ tick[q] \in Timer
  BY DEF ClocksOK, TypeOK, PlatformsTypeOK, TimersTypeOK
<1>2. /\ clock'[q] = Elapse(clock[q])
      /\ breakReset'[q] = Sooner(breakReset[q])
      /\ tick'[q] = Sooner(tick[q])
      /\ platforms' = platforms
  BY DEF TimePasses, TypeOK, PlatformsTypeOK
<1>3. q \notin platforms' => clock'[q] = ResetToActive
  BY <1>1, <1>2, NewClockFacts DEF PlatformClockOK, Elapse
<1>4. InBreak(clock'[q]) => clock'[q].running /\ breakReset'[q] = clock'[q].left
  BY <1>1, <1>2, ElapseFacts DEF PlatformClockOK
<1>5. ~InBreak(clock'[q]) /\ State(clock'[q]) = "RUNNING" => tick'[q] # Off
  <2>1. tick[q] # Off => tick'[q] # Off
    BY <1>1, <1>2 DEF Sooner, Timer, Off
  <2>. QED
    BY <1>1, <1>2, <2>1, ElapseFacts DEF PlatformClockOK
<1>. QED
  BY <1>3, <1>4, <1>5 DEF PlatformClockOK

LEMMA StepClocks == TypeOK /\ ClocksOK /\ [Next]_vars => ClocksOK'
<1>. SUFFICES ASSUME TypeOK, ClocksOK, [Next]_vars, NEW q \in Platforms
              PROVE  PlatformClockOK(q)'
  BY DEF ClocksOK
<1>0. PlatformClockOK(q)
  BY DEF ClocksOK
<1>. USE UntouchedClock, StoppedClock, <1>0
     DEF TypeOK, PlatformsTypeOK, TimersTypeOK, platformVars, timerVars
<1>1. ASSUME NEW p \in Platforms, NEW i \in 1..MaxActive, NEW b \in Buttons, CastVote(p, i, b)
      PROVE  PlatformClockOK(q)'
  BY <1>1 DEF CastVote
<1>2. ASSUME NEW p \in Platforms, NEW i \in 1..MaxActive, PressClockButton(p, i)
      PROVE  PlatformClockOK(q)'
  <2>1. CASE q = p
    <3>1. /\ clock'[q] = HandleChiefClockPress(clock[q])
          /\ State(clock'[q]) = "RUNNING" => tick'[q] # Off
          /\ ~InBreak(clock'[q])
          /\ q \in platforms'
      BY <1>2, <2>1, PressFacts DEF PressClockButton, Off
    <3>. QED
      BY <3>1 DEF PlatformClockOK
  <2>2. CASE q # p
    BY <1>2, <2>2 DEF PressClockButton
  <2>. QED
    BY <2>1, <2>2
<1>3. ASSUME NEW p \in Platforms, ResetAttempt(p)
      PROVE  PlatformClockOK(q)'
  <2>1. CASE q = p /\ p \in platforms
    BY <1>3, <2>1, ClockAfterReset DEF ResetAttempt
  <2>2. CASE q = p /\ p \notin platforms
    BY <1>3, <2>2 DEF ResetAttempt, PlatformClockOK
  <2>3. CASE q # p
    BY <1>3, <2>3 DEF ResetAttempt
  <2>. QED
    BY <2>1, <2>2, <2>3
<1>4. ASSUME NEW p \in Platforms, ToggleAttemptChange(p)
      PROVE  PlatformClockOK(q)'
  BY <1>4 DEF ToggleAttemptChange
<1>5. CASE MoveRemotes
  BY <1>5, MovedOthers DEF OthersUnmoved
<1>6. ASSUME NEW p \in Platforms, NEW d \in BreakDurations, StartPlatformBreak(p, d)
      PROVE  PlatformClockOK(q)'
  <2>1. CASE q = p
    BY <1>6, <2>1, StartedBreak DEF StartPlatformBreak, ScheduleBreakReset
  <2>2. CASE q # p
    BY <1>6, <2>2 DEF StartPlatformBreak, ScheduleBreakReset
  <2>. QED
    BY <2>1, <2>2
<1>7. ASSUME NEW d \in BreakDurations, StartGlobalBreak(d)
      PROVE  PlatformClockOK(q)'
  <2>1. CASE q \in platforms
    BY <1>7, <2>1, StartedBreak DEF StartGlobalBreak, ScheduleBreakReset, Assign
  <2>2. CASE q \notin platforms
    BY <1>7, <2>2 DEF StartGlobalBreak, ScheduleBreakReset, Assign
  <2>. QED
    BY <2>1, <2>2
<1>8. ASSUME GetGlobalBreak
      PROVE  PlatformClockOK(q)'
  BY <1>8 DEF GetGlobalBreak
<1>9. ASSUME NEW p \in Platforms, CancelPlatformBreak(p)
      PROVE  PlatformClockOK(q)'
  BY <1>9 DEF CancelPlatformBreak
<1>10. ASSUME CancelGlobalBreak
       PROVE  PlatformClockOK(q)'
  <2>1. CASE q \in platforms /\ InBreak(clock[q])
    BY <1>10, <2>1 DEF CancelGlobalBreak, Assign
  <2>2. CASE ~(q \in platforms /\ InBreak(clock[q]))
    BY <1>10, <2>2 DEF CancelGlobalBreak, Assign
  <2>. QED
    BY <2>1, <2>2
<1>11. ASSUME NEW p \in Platforms, CreatePlatform(p)
       PROVE  PlatformClockOK(q)'
  <2>1. CASE q = p
    BY <1>11, <2>1 DEF CreatePlatform, PlatformClockOK
  <2>2. CASE q # p
    BY <1>11, <2>2 DEF CreatePlatform
  <2>. QED
    BY <2>1, <2>2
<1>12. ASSUME NEW p \in Platforms, EnsurePlatform(p)
       PROVE  PlatformClockOK(q)'
  <2>1. CASE q # p
    <3>1. /\ clock'[q] = clock[q]
          /\ breakReset'[q] = breakReset[q]
          /\ tick'[q] = tick[q]
          /\ q \in platforms' <=> q \in platforms
      BY <1>12, <2>1 DEF EnsurePlatform, ScheduleBreakReset
    <3>. QED
      BY <3>1
  <2>2. CASE q = p /\ globalBreak > 0
    <3>1. globalBreak \in Nat
      BY <2>2 DEF Timer, Off
    <3>2. /\ q \in platforms'
          /\ clock'[q] = Start(ConfigureBreak(globalBreak))
          /\ breakReset'[q] = globalBreak
      BY <1>12, <2>2 DEF EnsurePlatform, ScheduleBreakReset, JoinBreak
    <3>. QED
      BY <3>1, <3>2, StartedBreak
  <2>3. CASE q = p /\ ~(globalBreak > 0)
    <3>1. clock'[q] = clock[q]
      BY <1>12, <2>3 DEF EnsurePlatform
    <3>2. clock[q] = ResetToActive
      BY <1>12, <2>3 DEF EnsurePlatform, PlatformClockOK
    <3>. QED
      BY <3>1, <3>2
  <2>. QED
    BY <2>1, <2>2, <2>3
<1>13. ASSUME NEW p \in Platforms, DeletePlatform(p)
       PROVE  PlatformClockOK(q)'
  BY <1>13 DEF DeletePlatform
<1>14. ASSUME NEW p \in Platforms, VoteResetFires(p)
       PROVE  PlatformClockOK(q)'
  <2>1. CASE q = p /\ ResetClears(p)
    BY <1>14, <2>1, ClockAfterReset DEF VoteResetFires, ResetClears
  <2>2. CASE ~(q = p /\ ResetClears(p))
    <3>1. /\ clock'[q] = clock[q]
          /\ breakReset'[q] = breakReset[q]
          /\ tick'[q] = tick[q]
          /\ q \in platforms' <=> q \in platforms
      BY <1>14, <2>2 DEF VoteResetFires
    <3>. QED
      BY <3>1
  <2>. QED
    BY <2>1, <2>2
<1>15. ASSUME NEW p \in Platforms, BreakResetFires(p)
       PROVE  PlatformClockOK(q)'
  <2>1. CASE q = p /\ p \in platforms /\ InBreak(clock[p])
    BY <1>15, <2>1 DEF BreakResetFires
  <2>2. CASE q = p /\ ~(p \in platforms /\ InBreak(clock[p]))
    <3>1. ~InBreak(clock[q])
      BY <2>2, NewClockFacts DEF PlatformClockOK
    <3>. QED
      BY <1>15, <2>2, <3>1 DEF BreakResetFires, PlatformClockOK
  <2>3. CASE q # p
    BY <1>15, <2>3 DEF BreakResetFires
  <2>. QED
    BY <2>1, <2>2, <2>3
<1>16. ASSUME NEW p \in Platforms, ClockTickFires(p)
       PROVE  PlatformClockOK(q)'
  <2>1. CASE q = p
    BY <1>16, <2>1, NewClockFacts DEF ClockTickFires, NextTick, PlatformClockOK, Off
  <2>2. CASE q # p
    BY <1>16, <2>2 DEF ClockTickFires
  <2>. QED
    BY <2>1, <2>2
<1>17. ASSUME NEW p \in Platforms, ReportDecision(p)
       PROVE  PlatformClockOK(q)'
  BY <1>17 DEF ReportDecision
<1>18. ASSUME TimePasses
       PROVE  PlatformClockOK(q)'
  BY <1>18, TimePassesClocks
<1>19. CASE UNCHANGED vars
  BY <1>19 DEF vars
<1>. QED
  BY <1>1, <1>2, <1>3, <1>4, <1>5, <1>6, <1>7, <1>8, <1>9, <1>10, <1>11, <1>12,
     <1>13, <1>14, <1>15, <1>16, <1>17, <1>18, <1>19
  DEF Next, Request, GlobalRequest, TimerFires

LEMMA ClocksInvariant == Spec => []ClocksOK
<1>1. Init => ClocksOK
  BY NewClockFacts DEF Init, ClocksOK, PlatformClockOK
<1>. QED
  BY <1>1, TypeCorrect, StepClocks, PTL DEF Spec

\* Every break, on any platform and of any length, has the timer that ends it
\* at the moment its countdown reaches zero (scheduleBreakReset).
THEOREM BreakEndsOnTimeAlways == Spec => []BreakEndsOnTime
<1>1. TypeOK /\ ClocksOK => BreakEndsOnTime
  BY DEF ClocksOK, PlatformClockOK, BreakEndsOnTime, TypeOK, PlatformsTypeOK
<1>. QED
  BY <1>1, TypeCorrect, ClocksInvariant, PTL

\* A running attempt clock always has its tick (startClockTick).
THEOREM AttemptClockTicksAlways == Spec => []AttemptClockTicks
<1>1. TypeOK /\ ClocksOK => AttemptClockTicks
  BY DEF ClocksOK, PlatformClockOK, AttemptClockTicks, TypeOK, PlatformsTypeOK
<1>. QED
  BY <1>1, TypeCorrect, ClocksInvariant, PTL

------------------------------------------------------------------------------
(* Reports and the automatic reset.                                        *)

\* The reports of a platform are due in the order they were added, none later
\* than DecisionDelay from now, and all before the automatic reset.  Without
\* the order, time could pass while a report is due and the reset comes nearer.
PlatformReportsOK(q) ==
  /\ \A i, j \in DOMAIN decisions[q] :
       /\ decisions[q][i].left <= DecisionDelay
       /\ i <= j => decisions[q][i].left <= decisions[q][j].left
  /\ voteReset[q] # Off =>
       \A i \in DOMAIN decisions[q] : decisions[q][i].left + RevealWindow <= voteReset[q]

ReportsOK == \A q \in Platforms : PlatformReportsOK(q)

LEMMA CastVoteReports ==
  ASSUME TypeOK, NEW p \in Platforms, NEW n \in 1..MaxActive, NEW b \in Buttons,
         CastVote(p, n, b), HasCompleteVoteSet(p)', PlatformReportsOK(p)
  PROVE  PlatformReportsOK(p)'
<1>. DEFINE report == [left |-> DecisionDelay, votes |-> RefereeVotes(p)']
            s == decisions[p]
<1>1. s \in Seq(Report)
  BY DEF TypeOK, TimersTypeOK
<1>2. decisions'[p] = Append(s, report) /\ voteReset'[p] = DecisionDelay + RevealWindow
  BY DEF CastVote, VoteResetDelay, TypeOK, TimersTypeOK
<1>3. report.left = DecisionDelay
  OBVIOUS
<1>. HIDE DEF report
<1>4. DOMAIN s = 1..Len(s) /\ Len(s) \in Nat /\ DOMAIN Append(s, report) = 1..(Len(s) + 1)
  BY <1>1
<1>5. /\ \A i \in 1..Len(s) : Append(s, report)[i] = s[i] /\ s[i] \in Report
      /\ Append(s, report)[Len(s) + 1] = report
  BY <1>1
<1>6. \A i \in 1..Len(s) : s[i].left <= DecisionDelay /\ s[i].left \in Nat
  BY <1>4, <1>5 DEF PlatformReportsOK, Report
<1>7. \A i \in 1..(Len(s) + 1) :
        /\ Append(s, report)[i].left \in Nat
        /\ Append(s, report)[i].left <= DecisionDelay
  BY <1>3, <1>4, <1>5, <1>6
<1>8. ASSUME NEW i \in 1..(Len(s) + 1), NEW j \in 1..(Len(s) + 1), i <= j
      PROVE  Append(s, report)[i].left <= Append(s, report)[j].left
  <2>1. CASE j = Len(s) + 1
    BY <2>1, <1>3, <1>5, <1>7
  <2>2. CASE j # Len(s) + 1
    <3>1. i \in 1..Len(s) /\ j \in 1..Len(s)
      BY <2>2, <1>4, <1>8
    <3>. QED
      BY <3>1, <1>4, <1>5, <1>8 DEF PlatformReportsOK
  <2>. QED
    BY <2>1, <2>2
<1>. QED
  BY <1>2, <1>4, <1>7, <1>8 DEF PlatformReportsOK

LEMMA ReportDecisionReports ==
  ASSUME TypeOK, NEW p \in Platforms, ReportDecision(p), PlatformReportsOK(p)
  PROVE  PlatformReportsOK(p)'
<1>. DEFINE s == decisions[p]
<1>1. s \in Seq(Report) /\ s # <<>>
  BY DEF TypeOK, TimersTypeOK, ReportDecision
<1>2. decisions'[p] = Tail(s) /\ voteReset' = voteReset
  BY DEF ReportDecision, TypeOK, TimersTypeOK
<1>3. /\ Len(s) \in Nat \ {0} /\ DOMAIN s = 1..Len(s)
      /\ DOMAIN Tail(s) = 1..(Len(s) - 1)
      /\ \A i \in 1..(Len(s) - 1) : Tail(s)[i] = s[i + 1]
  BY <1>1
<1>4. \A i \in DOMAIN Tail(s) : i + 1 \in DOMAIN s /\ Tail(s)[i] = s[i + 1]
  BY <1>3
<1>5. \A i, j \in DOMAIN Tail(s) : i <= j => i + 1 <= j + 1
  BY <1>3
<1>. QED
  BY <1>2, <1>4, <1>5 DEF PlatformReportsOK

LEMMA TimePassesReports ==
  ASSUME TypeOK, ReportsOK, TimePasses, NEW q \in Platforms
  PROVE  PlatformReportsOK(q)'
<1>. DEFINE s == decisions[q]
<1>1. /\ s \in Seq(Report)
      /\ voteReset[q] \in Timer
      /\ PlatformReportsOK(q)
  BY DEF TypeOK, TimersTypeOK, ReportsOK
<1>2. /\ decisions'[q] = LaterReports(s)
      /\ voteReset'[q] = Sooner(voteReset[q])
      /\ ~Due(q)
  BY DEF TimePasses, LaterReports, TypeOK, TimersTypeOK
<1>3. \A i \in DOMAIN s : s[i].left \in Nat /\ s[i].left > 0
  <2>. SUFFICES ASSUME NEW i \in DOMAIN s
                PROVE  s[i].left \in Nat /\ s[i].left > 0
    OBVIOUS
  <2>1. s # <<>> /\ 1 \in DOMAIN s /\ 1 <= i /\ Head(s) = s[1]
    BY <1>1
  <2>2. s[i].left \in Nat /\ s[1].left \in Nat
    <3>1. s[i] \in Report /\ s[1] \in Report
      BY <1>1, <2>1
    <3>. QED
      BY <3>1 DEF Report
  <2>3. s[1].left # 0
    BY <1>2, <2>1 DEF Due
  <2>4. s[1].left <= s[i].left
    BY <1>1, <2>1 DEF PlatformReportsOK
  <2>. QED
    BY <2>2, <2>3, <2>4
<1>4. /\ DOMAIN LaterReports(s) = DOMAIN s
      /\ \A i \in DOMAIN s : LaterReports(s)[i].left = s[i].left - 1
  BY <1>1, <1>3, LaterReportsFacts DEF Sooner
<1>5. voteReset[q] # 0
  BY <1>2 DEF Due
<1>6. voteReset'[q] # Off => voteReset[q] # Off /\ voteReset'[q] = voteReset[q] - 1
  BY <1>1, <1>2, <1>5 DEF Sooner, Timer, Off
<1>7. ASSUME NEW i \in DOMAIN s
      PROVE  s[i].left - 1 <= DecisionDelay
  BY <1>1, <1>3 DEF PlatformReportsOK
<1>8. ASSUME NEW i \in DOMAIN s, NEW j \in DOMAIN s, i <= j
      PROVE  s[i].left - 1 <= s[j].left - 1
  BY <1>1, <1>3, <1>8 DEF PlatformReportsOK
<1>9. ASSUME NEW i \in DOMAIN s, voteReset'[q] # Off
      PROVE  (s[i].left - 1) + RevealWindow <= voteReset'[q]
  <2>1. s[i].left + RevealWindow <= voteReset[q] /\ voteReset[q] \in Nat
    BY <1>1, <1>6, <1>9 DEF PlatformReportsOK, Timer
  <2>. QED
    BY <1>3, <1>6, <1>9, <2>1
<1>. QED
  BY <1>2, <1>4, <1>7, <1>8, <1>9 DEF PlatformReportsOK

LEMMA StepReports == TypeOK /\ ReportsOK /\ [Next]_vars => ReportsOK'
<1>. SUFFICES ASSUME TypeOK, ReportsOK, [Next]_vars, NEW q \in Platforms
              PROVE  PlatformReportsOK(q)'
  BY DEF ReportsOK
<1>0. PlatformReportsOK(q)
  BY DEF ReportsOK
<1>1. ASSUME decisions'[q] = decisions[q], voteReset'[q] \in {voteReset[q], Off}
      PROVE  PlatformReportsOK(q)'
  BY <1>0, <1>1 DEF PlatformReportsOK
<1>2. ASSUME UNCHANGED <<voteReset, decisions>>
      PROVE  PlatformReportsOK(q)'
  BY <1>1, <1>2
<1>3. ASSUME NEW p \in Platforms, NEW i \in 1..MaxActive, NEW b \in Buttons, CastVote(p, i, b)
      PROVE  PlatformReportsOK(q)'
  <2>1. CASE q = p /\ HasCompleteVoteSet(p)'
    BY <1>0, <1>3, <2>1, CastVoteReports
  <2>2. CASE q # p /\ HasCompleteVoteSet(p)'
    BY <1>1, <1>3, <2>2 DEF CastVote, TypeOK, TimersTypeOK
  <2>3. CASE ~HasCompleteVoteSet(p)'
    BY <1>2, <1>3, <2>3 DEF CastVote
  <2>. QED
    BY <2>1, <2>2, <2>3
<1>4. ASSUME NEW p \in Platforms, ResetAttempt(p)
      PROVE  PlatformReportsOK(q)'
  BY <1>1, <1>4 DEF ResetAttempt, TypeOK, TimersTypeOK
<1>5. ASSUME NEW p \in Platforms, VoteResetFires(p)
      PROVE  PlatformReportsOK(q)'
  BY <1>1, <1>5 DEF VoteResetFires, TypeOK, TimersTypeOK
<1>6. ASSUME NEW p \in Platforms, ReportDecision(p)
      PROVE  PlatformReportsOK(q)'
  <2>1. CASE q = p
    BY <1>0, <1>6, <2>1, ReportDecisionReports
  <2>2. CASE q # p
    BY <1>1, <1>6, <2>2 DEF ReportDecision, TypeOK, TimersTypeOK
  <2>. QED
    BY <2>1, <2>2
<1>7. ASSUME TimePasses
      PROVE  PlatformReportsOK(q)'
  BY <1>7, TimePassesReports
<1>8. ASSUME NEW p \in Platforms,
             \/ \E i \in 1..MaxActive : PressClockButton(p, i)
             \/ ToggleAttemptChange(p)
             \/ \E d \in BreakDurations : StartPlatformBreak(p, d)
             \/ CancelPlatformBreak(p) \/ CreatePlatform(p) \/ EnsurePlatform(p)
             \/ DeletePlatform(p) \/ BreakResetFires(p) \/ ClockTickFires(p)
      PROVE  PlatformReportsOK(q)'
  BY <1>2, <1>8
  DEF PressClockButton, ToggleAttemptChange,
      StartPlatformBreak, CancelPlatformBreak, CreatePlatform, EnsurePlatform,
      DeletePlatform, BreakResetFires, ClockTickFires, timerVars
<1>9. CASE GlobalRequest \/ MoveRemotes
  BY <1>2, <1>9, MovedOthers
  DEF OthersUnmoved, GlobalRequest, StartGlobalBreak, GetGlobalBreak, CancelGlobalBreak, timerVars
<1>10. CASE UNCHANGED vars
  BY <1>2, <1>10 DEF vars, timerVars
<1>. QED
  BY <1>3, <1>4, <1>5, <1>6, <1>7, <1>8, <1>9, <1>10 DEF Next, Request, TimerFires

\* Whatever is voted, reset, benched or cancelled, no automatic reset comes
\* before a report that is still pending (castVote, scheduleVoteReset).
THEOREM ReportBeforeResetAlways == Spec => []ReportBeforeReset
<1>1. Init => ReportsOK
  BY DEF Init, ReportsOK, PlatformReportsOK
<1>2. ReportsOK => ReportBeforeReset
  BY DEF ReportsOK, PlatformReportsOK, ReportBeforeReset
<1>. QED
  BY <1>1, <1>2, TypeCorrect, StepReports, PTL DEF Spec

------------------------------------------------------------------------------
(* What a step may not do.                                                 *)

LEMMA CompleteVotes ==
  \A q \in Platforms : HasCompleteVoteSet(q) <=> Complete(active[q])
BY DEF HasCompleteVoteSet, RefereeVotes, Complete

LEMMA CompleteVotesNext ==
  \A q \in Platforms : HasCompleteVoteSet(q)' <=> Complete(active'[q])
BY DEF HasCompleteVoteSet, RefereeVotes, Complete

LEMMA SameVotes ==
  ASSUME NEW q \in Platforms, active'[q] = active[q]
  PROVE  HasCompleteVoteSet(q)' <=> HasCompleteVoteSet(q)
BY CompleteVotes, CompleteVotesNext

\* After a reset no active remote has a vote.
LEMMA ResetVotes ==
  ASSUME TypeOK, NEW q \in Platforms, active'[q] = VotesCleared(q)
  PROVE  ~HasCompleteVoteSet(q)'
BY VotesClearedFacts, ClearedVotes, CompleteVotesNext DEF TypeOK

\* After a clock press the one chief of a full crew has no vote.
LEMMA PressedVotes ==
  ASSUME TypeOK, NEW p \in Platforms, NEW i, PressClockButton(p, i)
  PROVE  ~HasCompleteVoteSet(p)'
<1>1. /\ active[p] \in Seq(Remote) /\ Len(active[p]) <= MaxActive
      /\ i \in DOMAIN active[p] /\ active[p][i].role = "chief"
  BY DEF TypeOK, PlatformsTypeOK, PressClockButton
<1>. DEFINE t == Pressed(active[p], i, "none")
<1>2. active'[p] = t
  BY PressingFacts DEF PressClockButton, TypeOK
<1>3. /\ t \in Seq(Remote) /\ Len(t) <= MaxActive /\ i \in DOMAIN t
      /\ t[i].role = "chief" /\ t[i].button = "none"
  <2>1. "none" \in Buttons \cup {"none"}
    OBVIOUS
  <2>. QED
    BY <1>1, <2>1, PressedFacts
<1>. HIDE DEF t
<1>4. ~Complete(t)
  BY <1>3, ChiefPressed
<1>. QED
  BY <1>2, <1>4, CompleteVotesNext

\* Two remotes or fewer have no complete set, whoever left.
LEMMA LeftVotes ==
  ASSUME TypeOK, NEW p \in Platforms, NEW i \in Leaving(p),
         active' = Without(p, i)
  PROVE  ~HasCompleteVoteSet(p)'
<1>1. active[p] \in Seq(Remote) /\ Len(active[p]) <= MaxActive /\ i \in DOMAIN active[p]
  BY DEF TypeOK, PlatformsTypeOK, Leaving
<1>. DEFINE t == RemoveAt(active[p], i)
<1>2. active'[p] = t
  BY DEF Without, TypeOK, PlatformsTypeOK
<1>3. t \in Seq(Remote) /\ Len(t) = Len(active[p]) - 1
  BY <1>1, RemoveAtFacts
<1>. HIDE DEF t
<1>4. Len(t) <= MaxActive /\ Len(t) # MaxActive
  <2>. DEFINE n == Len(active[p])
  <2>1. n \in Nat /\ n <= 3 /\ Len(t) = n - 1
    BY <1>1, <1>3 DEF MaxActive
  <2>. HIDE DEF n
  <2>. QED
    BY <2>1 DEF MaxActive
<1>5. ~Complete(t)
  BY <1>3, <1>4, CompleteFacts
<1>. QED
  BY <1>2, <1>5, CompleteVotesNext

VoteSetIsCleared(q) == HasCompleteVoteSet(q) => voteReset[q] # Off

LEMMA MoveFollowsCompletion ==
  ASSUME TypeOK, MoveRemotes, NEW q \in Platforms, ~RemoteComes(q), VoteSetIsCleared(q)
  PROVE  VoteSetIsCleared(q)'
<1>. USE DEF VoteSetIsCleared
<1>0. voteReset' = voteReset
  BY MovedOthers DEF OthersUnmoved, timerVars
<1>1. ASSUME active'[q] = active[q]
      PROVE  VoteSetIsCleared(q)'
  BY <1>0, <1>1, SameVotes
<1>2. ASSUME NEW p \in Platforms, NEW t, q # p, active' = [active EXCEPT ![p] = t]
      PROVE  VoteSetIsCleared(q)'
  BY <1>1, <1>2 DEF TypeOK, PlatformsTypeOK
<1>3. ASSUME NEW p \in Platforms, NEW i \in Leaving(p), active' = Without(p, i)
      PROVE  VoteSetIsCleared(q)'
  <2>1. CASE q = p
    BY <1>3, <2>1, LeftVotes
  <2>2. CASE q # p
    BY <1>2, <1>3, <2>2 DEF Without
  <2>. QED
    BY <2>1, <2>2
<1>4. ASSUME NEW p \in Platforms, NEW x \in Arriving, ActivateRemote(p, x)
      PROVE  VoteSetIsCleared(q)'
  <2>1. q # p
    BY <1>4 DEF RemoteComes
  <2>. QED
    BY <1>2, <1>4, <2>1 DEF ActivateRemote
<1>5. ASSUME NEW p \in Platforms, NEW i \in 1..MaxActive, DeactivateRemote(p, i)
      PROVE  VoteSetIsCleared(q)'
  BY <1>3, <1>5 DEF DeactivateRemote, LeavesTelling
<1>6. ASSUME NEW p \in Platforms, NEW i \in 1..MaxActive, ReplaceRemote(p, i)
      PROVE  VoteSetIsCleared(q)'
  <2>1. q # p
    BY <1>6 DEF RemoteComes
  <2>. QED
    BY <1>2, <1>3, <1>6, <2>1 DEF ReplaceRemote, LeavesTelling
<1>7. ASSUME NEW named, NEW target, TransferRemote(named, target)
      PROVE  VoteSetIsCleared(q)'
  <2>1. UNCHANGED active \/ \E p \in Platforms : \E i \in Leaving(p) : active' = Without(p, i)
    BY <1>7 DEF TransferRemote, LeavesTelling, TypeOK, PlatformsTypeOK
  <2>. QED
    BY <1>1, <1>3, <2>1
<1>. QED
  BY <1>4, <1>5, <1>6, <1>7 DEF MoveRemotes

LEMMA StepFollowsCompletion ==
  ASSUME TypeOK, [Next]_vars, NEW q \in platforms \cap platforms',
         ~RemoteComes(q), VoteSetIsCleared(q)
  PROVE  VoteSetIsCleared(q)'
<1>. USE DEF VoteSetIsCleared
<1>0. q \in Platforms
  BY DEF TypeOK, PlatformsTypeOK
<1>1. ASSUME active'[q] = active[q], voteReset'[q] = voteReset[q]
      PROVE  VoteSetIsCleared(q)'
  BY <1>0, <1>1, SameVotes
<1>2. ASSUME NEW p \in Platforms, NEW i \in 1..MaxActive, NEW b \in Buttons, CastVote(p, i, b)
      PROVE  VoteSetIsCleared(q)'
  <2>1. CASE q # p
    BY <1>1, <1>2, <2>1 DEF CastVote, TypeOK, PlatformsTypeOK, TimersTypeOK
  <2>2. CASE q = p /\ HasCompleteVoteSet(p)'
    <3>1. voteReset'[q] = VoteResetDelay
      BY <1>0, <1>2, <2>2 DEF CastVote, TypeOK, TimersTypeOK
    <3>. QED
      BY <3>1 DEF VoteResetDelay, Off
  <2>3. CASE q = p /\ ~HasCompleteVoteSet(p)'
    BY <2>3
  <2>. QED
    BY <2>1, <2>2, <2>3
<1>3. ASSUME NEW p \in Platforms, NEW i \in 1..MaxActive, PressClockButton(p, i)
      PROVE  VoteSetIsCleared(q)'
  <2>1. CASE q # p
    BY <1>1, <1>3, <2>1 DEF PressClockButton, TypeOK, PlatformsTypeOK
  <2>2. CASE q = p
    BY <1>3, <2>2, PressedVotes
  <2>. QED
    BY <2>1, <2>2
<1>4. ASSUME NEW p \in Platforms, ResetAttempt(p)
      PROVE  VoteSetIsCleared(q)'
  <2>1. CASE q # p
    BY <1>1, <1>4, <2>1 DEF ResetAttempt, TypeOK, PlatformsTypeOK, TimersTypeOK
  <2>2. CASE q = p
    <3>1. active'[q] = VotesCleared(q)
      BY <1>4, <2>2 DEF ResetAttempt, TypeOK, PlatformsTypeOK
    <3>. QED
      BY <1>0, <3>1, ResetVotes
  <2>. QED
    BY <2>1, <2>2
<1>5. ASSUME NEW p \in Platforms, VoteResetFires(p)
      PROVE  VoteSetIsCleared(q)'
  <2>1. CASE q # p
    BY <1>1, <1>5, <2>1 DEF VoteResetFires, TypeOK, PlatformsTypeOK, TimersTypeOK
  <2>2. CASE q = p /\ ResetClears(p)
    <3>1. active'[q] = VotesCleared(q)
      BY <1>5, <2>2 DEF VoteResetFires, TypeOK, PlatformsTypeOK
    <3>. QED
      BY <1>0, <3>1, ResetVotes
  <2>3. CASE q = p /\ ~ResetClears(p)
    <3>1. active' = active /\ ~HasCompleteVoteSet(q)
      BY <1>5, <2>3 DEF VoteResetFires, ResetClears
    <3>. QED
      BY <1>0, <3>1, SameVotes
  <2>. QED
    BY <2>1, <2>2, <2>3
<1>6. ASSUME NEW p \in Platforms, DeletePlatform(p) \/ EnsurePlatform(p)
      PROVE  VoteSetIsCleared(q)'
  <2>1. q # p
    BY <1>6 DEF DeletePlatform, EnsurePlatform
  <2>. QED
    BY <1>0, <1>1, <1>6, <2>1
    DEF DeletePlatform, EnsurePlatform, timerVars, TypeOK, PlatformsTypeOK
<1>7. ASSUME TimePasses
      PROVE  VoteSetIsCleared(q)'
  <2>1. voteReset[q] \in Timer /\ voteReset'[q] = Sooner(voteReset[q]) /\ active' = active
    BY <1>0, <1>7 DEF TimePasses, TypeOK, TimersTypeOK
  <2>2. voteReset[q] # Off => voteReset'[q] # Off
    BY <2>1 DEF Sooner, Timer, Off
  <2>. QED
    BY <1>0, <2>1, <2>2, SameVotes
<1>8. ASSUME NEW p \in Platforms,
             \/ ToggleAttemptChange(p)
             \/ \E d \in BreakDurations : StartPlatformBreak(p, d)
             \/ CancelPlatformBreak(p) \/ CreatePlatform(p)
             \/ BreakResetFires(p) \/ ClockTickFires(p) \/ ReportDecision(p)
      PROVE  VoteSetIsCleared(q)'
  BY <1>1, <1>8
  DEF ToggleAttemptChange, StartPlatformBreak,
      CancelPlatformBreak, CreatePlatform, BreakResetFires, ClockTickFires, ReportDecision, timerVars, platformVars
<1>9. CASE GlobalRequest
  BY <1>1, <1>9 DEF GlobalRequest, StartGlobalBreak, GetGlobalBreak, CancelGlobalBreak,
                    timerVars, platformVars
<1>10. CASE UNCHANGED vars
  BY <1>1, <1>10 DEF vars, timerVars, platformVars
<1>11. CASE MoveRemotes
  BY <1>0, <1>11, MoveFollowsCompletion
<1>. QED
  BY <1>2, <1>3, <1>4, <1>5, <1>6, <1>7, <1>8, <1>9, <1>10, <1>11
  DEF Next, Request, TimerFires

\* No step of any handler or timer leaves a complete vote set on display
\* without the reset that clears it, unless a remote came with an old vote.
THEOREM CompletionIsFollowed == Spec => ResetFollowsCompletion
<1>1. TypeOK /\ [Next]_vars => ResetFollowsStep
  BY StepFollowsCompletion DEF VoteSetIsCleared, ResetFollowsStep
<1>. QED
  BY <1>1, TypeCorrect, PTL DEF Spec, ResetFollowsCompletion

LEMMA StepKeepsBreak ==
  ASSUME TypeOK, ClocksOK, [Next]_vars, NEW q \in platforms \cap platforms',
         InBreak(clock[q]), ~InBreak(clock'[q])
  PROVE  clock[q].left = 0 \/ CancelPlatformBreak(q) \/ CancelGlobalBreak
<1>. USE DEF TypeOK, PlatformsTypeOK
<1>0. q \in Platforms /\ clock[q] \in Clock /\ clock'[q] # clock[q]
  OBVIOUS
<1>1. ASSUME NEW p \in Platforms, NEW i \in 1..MaxActive, PressClockButton(p, i)
      PROVE  FALSE
  BY <1>0, <1>1 DEF PressClockButton
<1>2. ASSUME NEW p \in Platforms, ResetAttempt(p)
      PROVE  FALSE
  BY <1>0, <1>2, AfterResetFacts DEF ResetAttempt
<1>3. ASSUME NEW p \in Platforms, VoteResetFires(p)
      PROVE  FALSE
  <2>1. clock'[q] \in {clock[q], AfterReset(clock[q])}
    BY <1>0, <1>3 DEF VoteResetFires
  <2>. QED
    BY <1>0, <2>1, AfterResetFacts
<1>4. ASSUME NEW p \in Platforms, BreakResetFires(p)
      PROVE  clock[q].left = 0
  <2>1. q = p
    BY <1>0, <1>4 DEF BreakResetFires
  <2>. QED
    BY <1>0, <1>4, <2>1 DEF BreakResetFires, ClocksOK, PlatformClockOK
<1>5. ASSUME NEW p \in Platforms, CancelPlatformBreak(p)
      PROVE  CancelPlatformBreak(q)
  <2>1. q = p
    BY <1>0, <1>5 DEF CancelPlatformBreak
  <2>. QED
    BY <1>5, <2>1
<1>6. ASSUME NEW p \in Platforms, NEW d \in BreakDurations, StartPlatformBreak(p, d)
      PROVE  FALSE
  BY <1>0, <1>6, BreakClockFacts DEF StartPlatformBreak
<1>7. ASSUME NEW d \in BreakDurations, StartGlobalBreak(d)
      PROVE  FALSE
  BY <1>0, <1>7, BreakClockFacts DEF StartGlobalBreak, Assign
<1>8. ASSUME NEW p \in Platforms, EnsurePlatform(p) \/ DeletePlatform(p)
      PROVE  FALSE
  <2>1. q # p
    BY <1>8 DEF EnsurePlatform, DeletePlatform
  <2>. QED
    BY <1>0, <1>8, <2>1 DEF EnsurePlatform, DeletePlatform
<1>9. ASSUME TimePasses
      PROVE  FALSE
  BY <1>0, <1>9, ElapseFacts DEF TimePasses
<1>10. ASSUME UNCHANGED clock
       PROVE  FALSE
  BY <1>0, <1>10
<1>11. ASSUME NEW p \in Platforms,
              \/ \E i \in 1..MaxActive, b \in Buttons : CastVote(p, i, b)
              \/ ToggleAttemptChange(p)
              \/ CreatePlatform(p) \/ ClockTickFires(p) \/ ReportDecision(p)
       PROVE  FALSE
  BY <1>10, <1>11 DEF CastVote, ToggleAttemptChange, CreatePlatform, ClockTickFires, ReportDecision, platformVars
<1>12. ASSUME GetGlobalBreak \/ MoveRemotes \/ UNCHANGED vars
       PROVE  FALSE
  BY <1>10, <1>12, MovedOthers DEF OthersUnmoved, GetGlobalBreak, vars, platformVars
<1>. QED
  BY <1>1, <1>2, <1>3, <1>4, <1>5, <1>6, <1>7, <1>8, <1>9, <1>11, <1>12
  DEF Next, Request, GlobalRequest, TimerFires

\* No reset of votes, tick, stale timer or passing of time ends a break early.
THEOREM BreakIsNotCut == Spec => BreakNotCut
<1>1. TypeOK /\ ClocksOK /\ [Next]_vars => BreakNotCutStep
  BY StepKeepsBreak DEF BreakNotCutStep
<1>. QED
  BY <1>1, TypeCorrect, ClocksInvariant, PTL DEF Spec, BreakNotCut

=============================================================================
